-------------------------- MODULE FrameLoopProofs --------------------------
(***************************************************************************)
(* Proofs about FrameLoop, for any elements, views, sizes and pipeline     *)
(* depth: that the books of the pipeline and of the vsync balance, that no *)
(* update is left without a frame, and that no view goes back to an older  *)
(* picture.                                                                *)
(***************************************************************************)
EXTENDS FrameLoop, SequenceTheorems, TLAPS

(***************************************************************************)
(* Type correctness.                                                       *)
(***************************************************************************)
Frames == UNION {[V -> Versions] : V \in SUBSET ViewSet}

\* A frame is a member of Frames.
LEMMA FrameType == \A f : IsFrame(f) <=> f \in Frames
BY DEF IsFrame, Frames

\* A sequence of frames is a member of Seq(Frames).
LEMMA FramesType == \A s : AreFrames(s) <=> s \in Seq(Frames)
<1> TAKE s
<1>1. ASSUME AreFrames(s) PROVE s \in Seq(Frames)
  <2>1. \A i \in 1..Len(s) : s[i] \in Frames
    BY <1>1, FrameType DEF AreFrames, Range
  <2> QED
    BY <1>1, <2>1 DEF AreFrames
<1>2. ASSUME s \in Seq(Frames) PROVE AreFrames(s)
  <2>1. \A i \in 1..Len(s) : s[i] \in Range(s)
    BY <1>2 DEF Range
  <2>2. s \in Seq(Range(s))
    BY <1>2, <2>1
  <2>3. \A f \in Range(s) : f \in Frames
    BY <1>2 DEF Range
  <2> QED
    BY <2>2, <2>3, FrameType DEF AreFrames
<1> QED
  BY <1>1, <1>2

\* What BuildView leaves in trees is a frame, and what FinishDraw leaves on
\* the surfaces is one picture per view.
LEMMA FrameOverlay ==
  ASSUME NEW f \in Frames, NEW v \in ViewSet, NEW b \in Versions
  PROVE  [u \in DOMAIN f \union {v} |-> IF u = v THEN b ELSE f[u]] \in Frames
<1>1. PICK V \in SUBSET ViewSet : f \in [V -> Versions]
  BY DEF Frames
<1>2. [u \in DOMAIN f \union {v} |-> IF u = v THEN b ELSE f[u]]
        \in [V \union {v} -> Versions]
  BY <1>1
<1>3. V \union {v} \in SUBSET ViewSet
  OBVIOUS
<1> QED
  BY <1>2, <1>3 DEF Frames

\* No view has been drawn yet.
LEMMA NoTrees == <<>> \in Frames
<1>1. <<>> \in [{} -> Versions]
  OBVIOUS
<1> QED
  BY <1>1 DEF Frames

\* The state after launch is well typed.
LEMMA InitTypeOK == Init => TypeOK
<1> SUFFICES ASSUME Init PROVE TypeOK
  OBVIOUS
<1>1. built \in Versions /\ drawn \in [ViewSet -> Versions]
  BY DEF Init, Versions, NotBuilt
<1>2. IsFrame(trees)
  BY NoTrees, FrameType DEF Init
<1>3. <<>> \in Seq(Frames)
  OBVIOUS
<1>4. AreFrames(queue) /\ AreFrames(drawing) /\ Len(drawing) <= 1
  <2>1. AreFrames(<<>>)
    BY <1>3, FramesType, Zenon
  <2> QED
    BY <2>1 DEF Init
<1>5. size \in [ViewSet -> Sizes \union {NoSize}]
  BY SizesAssumption DEF Init
<1>6. version \in [Elements -> Nat]
  BY DEF Init
<1>7. /\ dirty \subseteq Elements /\ moving \subseteq Elements
      /\ silent \subseteq Elements /\ todo \subseteq ViewSet
      /\ lastSize \in Sizes \union {NoSize}
      /\ phase \in {"idle", "build", "signal"}
      /\ await \in Nat /\ empty \in Nat /\ available \in Nat /\ draws \in Nat
  BY DepthAssumption DEF Init
<1>8. /\ needs \in BOOLEAN /\ free \in BOOLEAN /\ regenerate \in BOOLEAN
      /\ waiting \in BOOLEAN /\ fired \in BOOLEAN /\ slot \in BOOLEAN
      /\ first \in BOOLEAN /\ more \in BOOLEAN /\ missed \in BOOLEAN
  BY Zenon DEF Init
<1> QED
  BY <1>1, <1>2, <1>4, <1>5, <1>6, <1>7, <1>8 DEF TypeOK

\* A request keeps the variables it assigns in their types.
LEMMA RequestType ==
  ASSUME NEW semaphore, await \in Nat, Request(semaphore)
  PROVE  free' \in BOOLEAN /\ regenerate' \in BOOLEAN /\ await' \in Nat
<1>1. free' \in BOOLEAN /\ regenerate' \in BOOLEAN
  BY Zenon DEF Request
<1>2. await' = await + 1 \/ await' = await
  BY Zenon DEF Request
<1> QED
  BY <1>1, <1>2

\* Every step of either thread keeps every variable in its type; a Draw that
\* may consume finds a frame.
LEMMA NextTypeOK == TypeOK /\ SignalsMatch /\ [Next]_vars => TypeOK'
<1> SUFFICES ASSUME TypeOK, SignalsMatch, [Next]_vars PROVE TypeOK'
  OBVIOUS
<1> USE DEF treeVars, frameVars, animatorVars, pipelineVars, rasterVars, bounds
<1>1. ASSUME NEW e \in Elements, NEW announced \in BOOLEAN,
             NEW starts \in BOOLEAN, SetState(e, announced, starts)
      PROVE  TypeOK'
  <2>1. free' \in BOOLEAN /\ regenerate' \in BOOLEAN /\ await' \in Nat
    BY <1>1, RequestType, Zenon DEF SetState, TypeOK
  <2>2. needs' \in BOOLEAN
    BY <1>1, Zenon DEF SetState
  <2>3. version' \in [Elements -> Nat]
    BY <1>1 DEF SetState, Marked, TypeOK
  <2>4. /\ dirty' \subseteq Elements /\ moving' \subseteq Elements
        /\ silent' \subseteq Elements
    BY <1>1 DEF SetState, TypeOK
  <2> QED
    BY <1>1, <2>1, <2>2, <2>3, <2>4 DEF SetState, TypeOK
<1>2. ASSUME NEW v \in ViewSet, NEW s \in Sizes \union {NoSize}, Resize(v, s)
      PROVE  TypeOK'
  <2>1. free' \in BOOLEAN /\ regenerate' \in BOOLEAN /\ await' \in Nat
    BY <1>2, RequestType, Zenon DEF Resize, TypeOK
  <2> QED
    BY <1>2, <2>1 DEF Resize, TypeOK
<1>3. CASE Texture
  <2>1. free' \in BOOLEAN
    BY <1>3, Zenon DEF Texture
  <2>2. await' = await + 1 \/ await' = await
    BY <1>3, Zenon DEF Texture
  <2> QED
    BY <1>3, <2>1, <2>2 DEF Texture, TypeOK
<1>4. CASE AwaitVSync
  BY <1>4 DEF AwaitVSync, TypeOK
<1>5. CASE Vsync
  BY <1>5 DEF Vsync, TypeOK
<1>6. CASE ReuseFrame
  BY <1>6 DEF ReuseFrame, TypeOK
<1>7. CASE RetryFull
  <2>1. free' \in BOOLEAN /\ regenerate' \in BOOLEAN /\ await' \in Nat
    BY <1>7, RequestType, Zenon DEF RetryFull, TypeOK
  <2>2. fired' \in BOOLEAN
    BY <1>7, Zenon DEF RetryFull
  <2> QED
    BY <1>7, <2>1, <2>2 DEF RetryFull, TypeOK
<1>8. ASSUME NEW A \in SUBSET moving, NEW T \in SUBSET Elements, BeginFrame(A, T)
      PROVE  TypeOK'
  <2>1. IsFrame(trees')
    BY <1>8, NoTrees, FrameType DEF BeginFrame
  <2>2. empty' \in Nat /\ slot' \in BOOLEAN
    BY <1>8 DEF BeginFrame, TakeSlot, TypeOK
  <2>3. free' \in BOOLEAN /\ regenerate' \in BOOLEAN /\ await' \in Nat
    BY <1>8, RequestType, Zenon DEF BeginFrame, TypeOK
  <2>4. version' \in [Elements -> Nat]
    BY <1>8 DEF BeginFrame, Marked, TypeOK
  <2>5. todo' \subseteq ViewSet
    BY <1>8 DEF BeginFrame, VisibleViews
  <2> QED
    BY <1>8, <2>1, <2>2, <2>3, <2>4, <2>5 DEF BeginFrame, TypeOK
<1>9. ASSUME NEW v \in ViewSet, NEW S \in SUBSET Elements,
             NEW N \in SUBSET Elements, BuildView(v, S, N)
      PROVE  TypeOK'
  <2>1. built' \in Versions
    BY <1>9 DEF BuildView, TypeOK, Versions
  <2>2. IsFrame(trees')
    BY <1>9, <2>1, FrameType, FrameOverlay DEF BuildView, TypeOK
  <2>3. free' \in BOOLEAN /\ regenerate' \in BOOLEAN /\ await' \in Nat
    BY <1>9, RequestType, Zenon DEF BuildView, TypeOK
  <2>4. version' \in [Elements -> Nat]
    BY <1>9 DEF BuildView, Marked, TypeOK
  <2>5. lastSize' \in Sizes \union {NoSize}
    BY <1>9 DEF BuildView, TypeOK
  <2>6. dirty' \subseteq Elements /\ moving' \subseteq Elements
    BY <1>9 DEF BuildView, TypeOK
  <2> QED
    BY <1>9, <2>1, <2>2, <2>3, <2>4, <2>5, <2>6 DEF BuildView, TypeOK
<1>10. CASE EndFrame
  <2>1. IsFrame(trees')
    BY <1>10, NoTrees, FrameType DEF EndFrame, TypeOK
  <2>2. AreFrames(queue')
    <3>1. queue \in Seq(Frames) /\ trees \in Frames
      BY FrameType, FramesType DEF TypeOK
    <3>2. queue' \in Seq(Frames)
      BY <1>10, <3>1 DEF EndFrame, Commit
    <3> QED
      BY <3>2, FramesType
  <2>3. first' \in BOOLEAN /\ slot' \in BOOLEAN
    BY <1>10 DEF EndFrame, TypeOK
  <2> QED
    BY <1>10, <2>1, <2>2, <2>3 DEF EndFrame, TypeOK
<1>11. CASE SignalFrame
  <2>1. draws' = draws + 1 \/ draws' = draws
    BY <1>11, Zenon DEF SignalFrame
  <2>2. first' \in BOOLEAN
    BY <1>11, Zenon DEF SignalFrame
  <2> QED
    BY <1>11, <2>1, <2>2 DEF SignalFrame, TypeOK
<1>12. CASE StartDraw
  <2>1. queue \in Seq(Frames) /\ Len(queue) > 0
    BY <1>12, FramesType DEF StartDraw, SignalsMatch, TypeOK
  <2>2. Tail(queue) \in Seq(Frames) /\ <<Head(queue)>> \in Seq(Frames)
    BY <2>1
  <2>3. AreFrames(Tail(queue)) /\ AreFrames(<<Head(queue)>>)
    BY <2>2, FramesType, Zenon
  <2>4. AreFrames(queue') /\ AreFrames(drawing') /\ Len(drawing') <= 1
    BY <1>12, <2>3 DEF StartDraw
  <2>5. more' \in BOOLEAN
    BY <1>12 DEF StartDraw
  <2> QED
    BY <1>12, <2>4, <2>5 DEF StartDraw, TypeOK
<1>13. CASE MissDraw
  BY <1>13 DEF MissDraw, TypeOK
<1>14. CASE FinishDraw
  <2>1. drawing \in Seq(Frames) /\ Len(drawing) = 1
    <3>1. drawing \in Seq(Frames) /\ Len(drawing) <= 1 /\ drawing # <<>>
      BY <1>14, FramesType, Zenon DEF FinishDraw, TypeOK
    <3>2. Len(drawing) \in Nat \ {0}
      BY <3>1, EmptySeq
    <3>3. Len(drawing) <= 1
      BY <3>1
    <3>4. \A n \in Nat \ {0} : n <= 1 => n = 1
      OBVIOUS
    <3>5. Len(drawing) = 1
      BY <3>2, <3>3, <3>4, Zenon
    <3> QED
      BY <3>1, <3>5, Zenon
  <2>2. \A v \in DOMAIN drawing[1] : drawing[1][v] \in Versions
    BY <2>1 DEF Frames
  <2>3. drawn' \in [ViewSet -> Versions]
    BY <1>14, <2>2 DEF FinishDraw, TypeOK
  <2>4. AreFrames(drawing') /\ Len(drawing') <= 1
    <3>1. <<>> \in Seq(Frames)
      OBVIOUS
    <3>2. AreFrames(<<>>)
      BY <3>1, FramesType, Zenon
    <3> QED
      BY <1>14, <3>2 DEF FinishDraw
  <2>5. draws' = draws + 1 \/ draws' = draws
    BY <1>14, Zenon DEF FinishDraw, Repost
  <2>6. more' \in BOOLEAN
    BY <1>14, Zenon DEF FinishDraw
  <2> QED
    BY <1>14, <2>3, <2>4, <2>5, <2>6 DEF FinishDraw, TypeOK
<1>15. CASE UNCHANGED vars
  BY <1>15 DEF vars, TypeOK
<1> QED
  BY <1>1, <1>2, <1>3, <1>4, <1>5, <1>6, <1>7, <1>8, <1>9, <1>10, <1>11,
     <1>12, <1>13, <1>14, <1>15 DEF Next, OnVsync, Build

(***************************************************************************)
(* The books: places of the pipeline, waits for a vsync, signals.          *)
(***************************************************************************)
\* A frame is built only by who holds a place for it.
SlotHeld == phase = "build" => slot

Books == SlotsBalance /\ OneWake /\ SignalsMatch /\ SlotHeld

\* After launch the first frame is on its way and the pipeline is empty.
LEMMA InitBooks == Init => Books
<1> SUFFICES ASSUME Init PROVE Books
  OBVIOUS
<1>1. Len(<<>>) = 0
  BY EmptySeq
<1>2. SlotsBalance
  BY <1>1, DepthAssumption DEF Init, SlotsBalance
<1>3. OneWake
  BY DEF Init, OneWake
<1>4. SignalsMatch
  BY <1>1 DEF Init, SignalsMatch
<1> QED
  BY <1>2, <1>3, <1>4 DEF Init, Books, SlotHeld

\* A request leaves one wake outstanding, if what it is told of the semaphore
\* is what the wakes before it say.
LEMMA RequestWakes ==
  ASSUME TypeOK, NEW semaphore \in BOOLEAN, Request(semaphore), UNCHANGED <<waiting, fired>>,
         await + (IF waiting THEN 1 ELSE 0) + (IF fired THEN 1 ELSE 0)
           = IF semaphore THEN 0 ELSE 1
  PROVE  OneWake'
<1>1. ~free'
  BY DEF Request
<1>2. await' = IF semaphore THEN await + 1 ELSE await
  BY DEF Request
<1> QED
  BY <1>1, <1>2 DEF TypeOK, OneWake

\* No step of either thread, and no vsync, puts the books out of balance.
LEMMA NextBooks == TypeOK /\ Books /\ [Next]_vars => Books'
<1> SUFFICES ASSUME TypeOK, Books, [Next]_vars PROVE Books'
  OBVIOUS
<1> USE DEF treeVars, frameVars, animatorVars, pipelineVars, rasterVars, bounds
<1> DEFINE Pipe == <<empty, available, queue, drawing, slot, phase>>
           Wakes == <<free, await, waiting, fired>>
<1>a. ASSUME UNCHANGED Pipe PROVE SlotsBalance' /\ SignalsMatch' /\ SlotHeld'
  BY <1>a DEF Books, SlotsBalance, SignalsMatch, SlotHeld
<1>b. ASSUME UNCHANGED Wakes PROVE OneWake'
  BY <1>b DEF Books, OneWake
<1>c. queue \in Seq(Frames) /\ drawing \in Seq(Frames)
  BY FramesType, Zenon DEF TypeOK
<1>d. Len(queue) \in Nat /\ Len(drawing) \in Nat /\ Len(<<>>) = 0
  BY <1>c, EmptySeq, LenProperties
<1>1. ASSUME NEW e \in Elements, NEW announced \in BOOLEAN,
             NEW starts \in BOOLEAN, SetState(e, announced, starts)
      PROVE  Books'
  <2>1. UNCHANGED Pipe
    BY <1>1 DEF SetState
  <2>2. OneWake'
    <3>1. CASE Request(free)
      BY <1>1, <3>1, RequestWakes DEF SetState, Books, OneWake, TypeOK
    <3>2. CASE UNCHANGED <<free, regenerate, await>>
      BY <1>1, <3>2, <1>b DEF SetState
    <3> QED
      BY <1>1, <3>1, <3>2, Zenon DEF SetState
  <2> QED
    BY <2>1, <2>2, <1>a DEF Books
<1>2. ASSUME NEW v \in ViewSet, NEW s \in Sizes \union {NoSize}, Resize(v, s)
      PROVE  Books'
  <2>1. UNCHANGED Pipe
    BY <1>2 DEF Resize
  <2>2. OneWake'
    BY <1>2, RequestWakes DEF Resize, Books, OneWake, TypeOK
  <2> QED
    BY <2>1, <2>2, <1>a DEF Books
<1>3. CASE Texture
  <2>1. UNCHANGED Pipe
    BY <1>3 DEF Texture
  <2>2. OneWake'
    BY <1>3 DEF Texture, Books, OneWake, TypeOK
  <2> QED
    BY <2>1, <2>2, <1>a DEF Books
<1>4. CASE AwaitVSync
  <2>1. UNCHANGED Pipe
    BY <1>4 DEF AwaitVSync
  <2>2. OneWake'
    BY <1>4 DEF AwaitVSync, Books, OneWake, TypeOK
  <2> QED
    BY <2>1, <2>2, <1>a DEF Books
<1>5. CASE Vsync
  <2>1. UNCHANGED Pipe
    BY <1>5 DEF Vsync
  <2>2. OneWake'
    BY <1>5 DEF Vsync, Books, OneWake, TypeOK
  <2> QED
    BY <2>1, <2>2, <1>a DEF Books
<1>e. ASSUME fired PROVE await = 0 /\ ~waiting /\ ~free
  BY <1>e DEF Books, OneWake, TypeOK
<1>6. CASE ReuseFrame
  <2>1. UNCHANGED Pipe
    BY <1>6 DEF ReuseFrame
  <2>2. OneWake'
    BY <1>6, <1>e DEF ReuseFrame, OneWake
  <2> QED
    BY <2>1, <2>2, <1>a DEF Books
<1>7. CASE RetryFull
  <2>1. UNCHANGED Pipe
    BY <1>7 DEF RetryFull
  <2>2. OneWake'
    BY <1>7, <1>e DEF RetryFull, Request, OneWake
  <2> QED
    BY <2>1, <2>2, <1>a DEF Books
<1>8. ASSUME NEW A \in SUBSET moving, NEW T \in SUBSET Elements, BeginFrame(A, T)
      PROVE  Books'
  <2>1. OneWake'
    <3>1. CASE Request(TRUE)
      BY <1>8, <3>1, <1>e DEF BeginFrame, Request, OneWake
    <3>2. CASE free' = TRUE /\ UNCHANGED await
      BY <1>8, <3>2, <1>e DEF BeginFrame, OneWake
    <3> QED
      BY <1>8, <3>1, <3>2 DEF BeginFrame
  <2>2. SlotsBalance'
    BY <1>8, <1>d DEF BeginFrame, TakeSlot, Books, SlotsBalance, TypeOK
  <2>3. SignalsMatch'
    BY <1>8 DEF BeginFrame, Idle, Books, SignalsMatch
  <2>4. SlotHeld'
    BY <1>8 DEF BeginFrame, TakeSlot, SlotHeld
  <2> QED
    BY <2>1, <2>2, <2>3, <2>4 DEF Books
<1>9. ASSUME NEW v \in ViewSet, NEW S \in SUBSET Elements,
             NEW N \in SUBSET Elements, BuildView(v, S, N)
      PROVE  Books'
  <2>1. UNCHANGED Pipe
    BY <1>9 DEF BuildView
  <2>2. OneWake'
    <3>1. CASE Request(free)
      BY <1>9, <3>1, RequestWakes DEF BuildView, Books, OneWake, TypeOK
    <3>2. CASE UNCHANGED <<free, regenerate, await>>
      BY <1>9, <3>2, <1>b DEF BuildView
    <3> QED
      BY <1>9, <3>1, <3>2, Zenon DEF BuildView
  <2> QED
    BY <2>1, <2>2, <1>a DEF Books
<1>10. CASE EndFrame
  <2>1. OneWake'
    BY <1>10, <1>b DEF EndFrame
  <2>2. ASSUME trees = <<>>, UNCHANGED <<queue, slot>>, phase' = "idle"
        PROVE  SlotsBalance' /\ SignalsMatch' /\ SlotHeld'
    BY <1>10, <2>2 DEF EndFrame, Books, SlotsBalance, SignalsMatch, SlotHeld
  <2>3. ASSUME queue' = Append(queue, trees), slot' = FALSE, phase' = "signal"
        PROVE  SlotsBalance' /\ SignalsMatch' /\ SlotHeld'
    <3>1. Len(queue') = Len(queue) + 1
      BY <1>c, <2>3, FrameType DEF TypeOK
    <3> QED
      BY <1>10, <1>d, <2>3, <3>1
      DEF EndFrame, Books, SlotsBalance, SignalsMatch, SlotHeld, TypeOK
  <2> QED
    BY <1>10, <2>1, <2>2, <2>3, Zenon DEF EndFrame, Commit, Books
<1>11. CASE SignalFrame
  <2>1. OneWake'
    BY <1>11, <1>b DEF SignalFrame
  <2>2. SlotsBalance' /\ SlotHeld'
    BY <1>11 DEF SignalFrame, Books, SlotsBalance, SlotHeld
  <2>3. SignalsMatch'
    BY <1>11, <1>d DEF SignalFrame, Books, SignalsMatch, TypeOK
  <2> QED
    BY <2>1, <2>2, <2>3 DEF Books
<1>12. CASE StartDraw
  <2>1. OneWake'
    BY <1>12, <1>b DEF StartDraw
  <2>2. Len(queue) > 0
    BY <1>12, <1>d DEF StartDraw, Books, SignalsMatch, TypeOK
  <2>3. Len(queue') = Len(queue) - 1 /\ Len(drawing') = 1 /\ Len(drawing) = 0
    BY <1>12, <1>c, <1>d, <2>2 DEF StartDraw
  <2>4. empty' = empty /\ slot' = slot /\ phase' = phase /\ available' = available - 1
    BY <1>12 DEF StartDraw
  <2>5. SlotsBalance'
    BY <1>d, <2>3, <2>4 DEF Books, SlotsBalance, TypeOK
  <2>6. SignalsMatch'
    BY <1>d, <2>3, <2>4 DEF Books, SignalsMatch, TypeOK
  <2>7. SlotHeld'
    BY <2>4 DEF Books, SlotHeld
  <2> QED
    BY <2>1, <2>5, <2>6, <2>7 DEF Books
<1>13. CASE MissDraw
  BY <1>13, <1>a, <1>b DEF MissDraw, Books
<1>14. CASE FinishDraw
  <2>1. OneWake'
    BY <1>14, <1>b DEF FinishDraw
  <2>2. Len(drawing) = 1 /\ Len(drawing') = 0
    <3>1. Len(drawing) \in Nat \ {0} /\ Len(drawing) <= 1
      BY <1>14, <1>c, EmptySeq DEF FinishDraw, TypeOK
    <3>2. \A n \in Nat \ {0} : n <= 1 => n = 1
      OBVIOUS
    <3> QED
      BY <1>14, <1>d, <3>1, <3>2, Zenon DEF FinishDraw
  <2>3. SlotsBalance' /\ SignalsMatch' /\ SlotHeld'
    BY <1>14, <1>d, <2>2
    DEF FinishDraw, Books, SlotsBalance, SignalsMatch, SlotHeld, TypeOK
  <2> QED
    BY <2>1, <2>3 DEF Books
<1>15. CASE UNCHANGED vars
  BY <1>15, <1>a, <1>b DEF vars, Books
<1> QED
  BY <1>1, <1>2, <1>3, <1>4, <1>5, <1>6, <1>7, <1>8, <1>9, <1>10, <1>11,
     <1>12, <1>13, <1>14, <1>15 DEF Next, OnVsync, Build

(***************************************************************************)
(* That no update is lost.                                                 *)
(***************************************************************************)
Coming == ~free /\ regenerate

\* While a frame is produced, elements that move have the next one coming.
MovingAnnounced == phase # "idle" /\ moving # {} => Coming

\* Once the frame has drawn its views, what it left dirty has one coming.
UpdateAnnounced ==
  VisibleViews # {} /\ todo = {} /\ (dirty \union moving) \ silent # {} => Coming

Announced ==
  MovingAnnounced /\ UpdateAnnounced /\ (phase # "build" => todo = {})

\* After launch the first frame is coming.
LEMMA InitAnnounced == Init => Announced
BY DEF Init, Announced, MovingAnnounced, UpdateAnnounced

\* No request, build, advance or texture takes away the frame that an update
\* waits for.
LEMMA NextAnnounced == Announced /\ [Next]_vars => Announced'
<1> SUFFICES ASSUME Announced, [Next]_vars PROVE Announced'
  OBVIOUS
<1> USE DEF treeVars, frameVars, animatorVars, pipelineVars, rasterVars, bounds
<1>r. ASSUME NEW semaphore, Request(semaphore) PROVE Coming'
  BY <1>r DEF Request, Coming
<1>c. ASSUME Coming', phase' # "build" => todo' = {} PROVE Announced'
  BY <1>c DEF Announced, MovingAnnounced, UpdateAnnounced
<1>u. ASSUME UNCHANGED <<phase, todo, size>>, dirty' = dirty, moving' = moving,
             silent' = silent, Coming => Coming'
      PROVE  Announced'
  BY <1>u DEF Announced, MovingAnnounced, UpdateAnnounced, VisibleViews
<1>1. ASSUME NEW e \in Elements, NEW announced \in BOOLEAN,
             NEW starts \in BOOLEAN, SetState(e, announced, starts)
      PROVE  Announced'
  <2>1. phase' = "idle" /\ todo' = {}
    BY <1>1 DEF SetState, Idle, Announced
  <2>2. CASE Request(free)
    BY <2>1, <2>2, <1>r, <1>c
  <2>3. CASE silent' = silent \union {e} /\ UNCHANGED <<free, regenerate, await>>
    <3>1. (dirty' \union moving') \ silent' \subseteq (dirty \union moving) \ silent
      BY <1>1, <2>3 DEF SetState
    <3>2. VisibleViews' = VisibleViews
      BY <1>1 DEF SetState, VisibleViews
    <3> QED
      BY <2>1, <2>3, <3>1, <3>2, <1>1
      DEF SetState, Idle, Announced, MovingAnnounced, UpdateAnnounced, Coming
  <2> QED
    BY <1>1, <2>2, <2>3, Zenon DEF SetState
<1>2. ASSUME NEW v \in ViewSet, NEW s \in Sizes \union {NoSize}, Resize(v, s)
      PROVE  Announced'
  BY <1>2, <1>r, <1>c DEF Resize, Idle, Announced
<1>3. CASE Texture
  BY <1>3, <1>u DEF Texture, Coming
<1>4. CASE AwaitVSync
  BY <1>4, <1>u DEF AwaitVSync, Coming
<1>5. CASE Vsync
  BY <1>5, <1>u DEF Vsync, Coming
<1>6. CASE ReuseFrame
  BY <1>6, <1>u DEF ReuseFrame, Coming
<1>7. CASE RetryFull
  BY <1>7, <1>r, <1>c DEF RetryFull, Idle, Announced
<1>8. ASSUME NEW A \in SUBSET moving, NEW T \in SUBSET Elements, BeginFrame(A, T)
      PROVE  Announced'
  <2>1. CASE Request(TRUE)
    BY <1>8, <2>1, <1>r, <1>c DEF BeginFrame
  <2>2. CASE A \union T = {}
    <3>1. moving' = {} /\ phase' = "build" /\ todo' = VisibleViews
      BY <1>8, <2>2 DEF BeginFrame
    <3>2. VisibleViews' = VisibleViews
      BY <1>8 DEF BeginFrame, VisibleViews
    <3> QED
      BY <3>1, <3>2 DEF Announced, MovingAnnounced, UpdateAnnounced
  <2> QED
    BY <1>8, <2>1, <2>2 DEF BeginFrame
<1>9. ASSUME NEW v \in ViewSet, NEW S \in SUBSET Elements,
             NEW N \in SUBSET Elements, BuildView(v, S, N)
      PROVE  Announced'
  <2>1. phase' = "build"
    BY <1>9 DEF BuildView
  <2>2. CASE Request(free)
    BY <2>1, <2>2, <1>r, <1>c
  <2>3. CASE ~Request(free)
    \* Nothing was built, so nothing has come to move or become dirty.
    <3>1. dirty = {} /\ S = {} /\ N = {} /\ UNCHANGED <<free, regenerate>>
      BY <1>9, <2>3 DEF BuildView, Mounted, NeedsFrame
    <3>2. dirty' = {} /\ moving' = moving
      BY <1>9, <3>1 DEF BuildView
    <3>3. moving # {} => Coming'
      BY <1>9, <3>1 DEF BuildView, Announced, MovingAnnounced, Coming
    <3> QED
      BY <2>1, <3>2, <3>3 DEF Announced, MovingAnnounced, UpdateAnnounced
  <2> QED
    BY <2>2, <2>3
<1>10. CASE EndFrame
  <2>1. todo' = {} /\ todo = {} /\ phase = "build" /\ phase' # "build"
    BY <1>10 DEF EndFrame
  <2>2. /\ dirty' = dirty /\ moving' = moving /\ silent' = silent /\ size' = size
        /\ (Coming => Coming')
    BY <1>10 DEF EndFrame, Coming
  <2> QED
    BY <2>1, <2>2
    DEF Announced, MovingAnnounced, UpdateAnnounced, VisibleViews
<1>11. CASE SignalFrame
  <2>1. todo' = todo /\ todo = {} /\ phase = "signal" /\ phase' = "idle"
    BY <1>11 DEF SignalFrame, Announced
  <2>2. /\ dirty' = dirty /\ moving' = moving /\ silent' = silent /\ size' = size
        /\ (Coming => Coming')
    BY <1>11 DEF SignalFrame, Coming
  <2> QED
    BY <2>1, <2>2
    DEF Announced, MovingAnnounced, UpdateAnnounced, VisibleViews
<1>12. CASE StartDraw
  BY <1>12, <1>u DEF StartDraw, Coming
<1>13. CASE MissDraw
  BY <1>13, <1>u DEF MissDraw, Coming
<1>14. CASE FinishDraw
  BY <1>14, <1>u DEF FinishDraw, Coming
<1>15. CASE UNCHANGED vars
  BY <1>15, <1>u DEF vars, Coming
<1> QED
  BY <1>1, <1>2, <1>3, <1>4, <1>5, <1>6, <1>7, <1>8, <1>9, <1>10, <1>11,
     <1>12, <1>13, <1>14, <1>15 DEF Next, OnVsync, Build

(***************************************************************************)
(* That no view goes back.                                                 *)
(***************************************************************************)
\* Picture f shows nothing newer than g, as far as both show the same views.
Before(f, g) ==
  \A v \in DOMAIN f \intersect DOMAIN g, e \in Elements : f[v][e] <= g[v][e]

\* Picture f shows nothing newer than what was built last.
WasBuilt(f) == \A v \in DOMAIN f, e \in Elements : f[v][e] <= built[e]

\* What the surfaces show, what is being drawn, what is queued and what this
\* frame has drawn so far, in this order, goes from older to newer.
Ordered ==
  /\ \A e \in Elements : built[e] <= version[e]
  /\ WasBuilt(drawn) /\ WasBuilt(trees)
  /\ \A i \in DOMAIN drawing : WasBuilt(drawing[i])
  /\ \A i \in DOMAIN queue : WasBuilt(queue[i])
  /\ Before(drawn, trees)
  /\ \A i \in DOMAIN drawing : Before(drawn, drawing[i]) /\ Before(drawing[i], trees)
  /\ \A j \in DOMAIN queue : Before(drawn, queue[j]) /\ Before(queue[j], trees)
  /\ \A i \in DOMAIN drawing, j \in DOMAIN queue : Before(drawing[i], queue[j])
  /\ \A i, j \in DOMAIN queue : i < j => Before(queue[i], queue[j])

\* After launch nothing has been shown or drawn.
LEMMA InitOrdered == Init => Ordered
<1> SUFFICES ASSUME Init PROVE Ordered
  OBVIOUS
<1>1. DOMAIN trees = {} /\ DOMAIN drawing = {} /\ DOMAIN queue = {}
  <2>1. DOMAIN <<>> = {}
    OBVIOUS
  <2> QED
    BY <2>1 DEF Init
<1>2. /\ \A e \in Elements : built[e] <= version[e]
      /\ \A v \in ViewSet, e \in Elements : drawn[v][e] <= built[e]
  BY DEF Init, NotBuilt
<1>3. DOMAIN drawn = ViewSet
  BY DEF Init
<1> QED
  BY <1>1, <1>2, <1>3 DEF Ordered, WasBuilt, Before

\* What is drawn, queued or being drawn consists of versions.
LEMMA FramesHaveVersions ==
  ASSUME TypeOK
  PROVE  /\ \A v \in DOMAIN trees, e \in Elements : v \in ViewSet /\ trees[v][e] \in Int
         /\ \A v \in DOMAIN drawn, e \in Elements : v \in ViewSet /\ drawn[v][e] \in Int
         /\ \A i \in DOMAIN queue : \A v \in DOMAIN queue[i], e \in Elements :
              v \in ViewSet /\ queue[i][v][e] \in Int
         /\ \A i \in DOMAIN drawing : \A v \in DOMAIN drawing[i], e \in Elements :
              v \in ViewSet /\ drawing[i][v][e] \in Int
<1>1. ASSUME NEW f \in Frames, NEW v \in DOMAIN f, NEW e \in Elements
      PROVE  v \in ViewSet /\ f[v][e] \in Int
  BY <1>1 DEF Frames, Versions
<1>2. /\ trees \in Frames /\ queue \in Seq(Frames) /\ drawing \in Seq(Frames)
      /\ drawn \in [ViewSet -> Versions]
  BY FrameType, FramesType, Zenon DEF TypeOK
<1>3. \A v \in DOMAIN drawn, e \in Elements : v \in ViewSet /\ drawn[v][e] \in Int
  BY <1>2 DEF Versions
<1>4. /\ \A i \in DOMAIN queue : queue[i] \in Frames
      /\ \A i \in DOMAIN drawing : drawing[i] \in Frames
  BY <1>2
<1> QED
  BY <1>1, <1>2, <1>3, <1>4

\* Every step keeps the pictures in order.
LEMMA NextOrdered == TypeOK /\ SignalsMatch /\ Ordered /\ [Next]_vars => Ordered'
<1> SUFFICES ASSUME TypeOK, SignalsMatch, Ordered, [Next]_vars PROVE Ordered'
  OBVIOUS
<1> USE DEF treeVars, frameVars, animatorVars, pipelineVars, rasterVars, bounds
<1> DEFINE Pictures == <<built, trees, queue, drawing, drawn>>
<1>t. \A e \in Elements : version[e] \in Nat /\ built[e] \in Int
  BY DEF TypeOK, Versions
<1>q. queue \in Seq(Frames) /\ drawing \in Seq(Frames)
  BY FramesType, Zenon DEF TypeOK
<1>m. ASSUME NEW S, Marked(S)
      PROVE  \A e \in Elements : version'[e] \in Nat /\ version[e] <= version'[e]
  BY <1>m, <1>t DEF Marked
<1>v. ASSUME UNCHANGED Pictures, \A e \in Elements : built[e] <= version'[e]
      PROVE  Ordered'
  BY <1>v DEF Ordered, WasBuilt, Before
<1>u. ASSUME UNCHANGED Pictures, version' = version PROVE Ordered'
  BY <1>u, <1>v DEF Ordered
<1>1. ASSUME NEW e \in Elements, NEW announced \in BOOLEAN,
             NEW starts \in BOOLEAN, SetState(e, announced, starts)
      PROVE  Ordered'
  <2>1. \A d \in Elements : built[d] <= version'[d]
    BY <1>1, <1>m, <1>t DEF SetState, Ordered
  <2> QED
    BY <1>1, <2>1, <1>v DEF SetState
<1>2. ASSUME NEW v \in ViewSet, NEW s \in Sizes \union {NoSize}, Resize(v, s)
      PROVE  Ordered'
  BY <1>2, <1>u DEF Resize
<1>3. CASE Texture
  BY <1>3, <1>u DEF Texture
<1>4. CASE AwaitVSync
  BY <1>4, <1>u DEF AwaitVSync
<1>5. CASE Vsync
  BY <1>5, <1>u DEF Vsync
<1>6. CASE ReuseFrame
  BY <1>6, <1>u DEF ReuseFrame
<1>7. CASE RetryFull
  BY <1>7, <1>u DEF RetryFull
<1>8. ASSUME NEW A \in SUBSET moving, NEW T \in SUBSET Elements, BeginFrame(A, T)
      PROVE  Ordered'
  <2>1. \A d \in Elements : built[d] <= version'[d]
    BY <1>8, <1>m, <1>t DEF BeginFrame, Ordered
  <2>2. UNCHANGED <<built, queue, drawing, drawn>>
    BY <1>8 DEF BeginFrame
  <2>3. DOMAIN trees' = {}
    <3>1. DOMAIN <<>> = {}
      OBVIOUS
    <3> QED
      BY <1>8, <3>1 DEF BeginFrame
  <2> QED
    BY <2>1, <2>2, <2>3 DEF Ordered, WasBuilt, Before
<1>9. ASSUME NEW w \in ViewSet, NEW S \in SUBSET Elements,
             NEW N \in SUBSET Elements, BuildView(w, S, N)
      PROVE  Ordered'
  <2>1. UNCHANGED <<queue, drawing, drawn>>
    BY <1>9 DEF BuildView
  <2>2. \A e \in Elements : built'[e] \in Int /\ built[e] <= built'[e] /\ built'[e] <= version[e]
    BY <1>9, <1>t DEF BuildView, Ordered
  <2>3. \A e \in Elements : built'[e] <= version'[e]
    BY <1>9, <2>2, <1>m, <1>t DEF BuildView
  <2>4. /\ DOMAIN trees' = DOMAIN trees \union {w}
        /\ trees'[w] = built'
        /\ \A v \in DOMAIN trees : v # w => trees'[v] = trees[v]
    BY <1>9 DEF BuildView
  <2>5. ASSUME NEW f, WasBuilt(f),
               \A v \in DOMAIN f, e \in Elements : f[v][e] \in Int
        PROVE  \A v \in DOMAIN f, e \in Elements : f[v][e] <= built'[e]
    BY <2>2, <2>5, <1>t DEF WasBuilt
  <2>6. ASSUME NEW f, WasBuilt(f), Before(f, trees),
               \A v \in DOMAIN f, e \in Elements : f[v][e] \in Int
        PROVE  Before(f, trees')
    BY <2>4, <2>5, <2>6 DEF Before
  <2>7. WasBuilt(trees)'
    <3>1. \A v \in DOMAIN trees, e \in Elements : trees[v][e] <= built'[e]
      BY <2>5, FramesHaveVersions DEF Ordered
    <3> QED
      BY <2>2, <2>4, <3>1 DEF WasBuilt
  <2>8. WasBuilt(drawn)' /\ Before(drawn, trees)'
    BY <2>1, <2>5, <2>6, FramesHaveVersions DEF Ordered, WasBuilt
  <2>9. \A i \in DOMAIN queue' : WasBuilt(queue[i])' /\ Before(queue[i], trees)'
    BY <2>1, <2>5, <2>6, FramesHaveVersions DEF Ordered, WasBuilt
  <2>10. \A i \in DOMAIN drawing' : WasBuilt(drawing[i])' /\ Before(drawing[i], trees)'
    BY <2>1, <2>5, <2>6, FramesHaveVersions DEF Ordered, WasBuilt
  <2>11. /\ \A i \in DOMAIN drawing : Before(drawn, drawing[i])
         /\ \A j \in DOMAIN queue : Before(drawn, queue[j])
         /\ \A i \in DOMAIN drawing, j \in DOMAIN queue : Before(drawing[i], queue[j])
         /\ \A i, j \in DOMAIN queue : i < j => Before(queue[i], queue[j])
    BY Zenon DEF Ordered
  <2> QED
    BY <2>1, <2>3, <2>7, <2>8, <2>9, <2>10, <2>11 DEF Ordered, Before
<1>10. CASE EndFrame
  <2>1. CASE UNCHANGED <<trees, queue>>
    BY <1>10, <2>1, <1>u DEF EndFrame
  <2>2. CASE trees' = <<>> /\ queue' = Append(queue, trees)
    <3>1. DOMAIN trees' = {}
      <4>1. DOMAIN <<>> = {}
        OBVIOUS
      <4> QED
        BY <2>2, <4>1
    <3>2. /\ DOMAIN queue' = DOMAIN queue \union {Len(queue) + 1}
          /\ queue'[Len(queue) + 1] = trees
          /\ \A i \in DOMAIN queue : queue'[i] = queue[i] /\ i \in 1..Len(queue)
          /\ Len(queue) \in Nat
      BY <1>q, <2>2, FrameType DEF TypeOK
    <3>3. UNCHANGED <<version, built, drawing, drawn>>
      BY <1>10 DEF EndFrame
    <3>4. \A i, j \in DOMAIN queue' : i < j => Before(queue'[i], queue'[j])
      BY <3>2 DEF Ordered
    <3>5. \A j \in DOMAIN queue' : WasBuilt(queue'[j]) /\ Before(drawn, queue'[j])
      BY <3>2 DEF Ordered
    <3>6. \A i \in DOMAIN drawing, j \in DOMAIN queue' : Before(drawing[i], queue'[j])
      BY <3>2 DEF Ordered
    <3>7. \A f : Before(f, trees')
      BY <3>1 DEF Before
    <3>8. WasBuilt(trees')
      BY <3>1 DEF WasBuilt
    <3> QED
      BY <3>3, <3>4, <3>5, <3>6, <3>7, <3>8 DEF Ordered, WasBuilt, Before
  <2> QED
    BY <1>10, <2>1, <2>2 DEF EndFrame, Commit
<1>11. CASE SignalFrame
  BY <1>11, <1>u DEF SignalFrame
<1>12. CASE StartDraw
  <2>1. Len(queue) > 0
    BY <1>12, <1>q DEF StartDraw, SignalsMatch, TypeOK
  <2>2. /\ DOMAIN drawing' = {1} /\ drawing'[1] = queue[1] /\ 1 \in DOMAIN queue
    BY <1>12, <1>q, <2>1 DEF StartDraw
  <2>3. \A i \in DOMAIN queue' : /\ i \in Nat \ {0} /\ i + 1 \in DOMAIN queue
                                /\ queue'[i] = queue[i + 1]
    BY <1>12, <1>q, <2>1 DEF StartDraw
  <2>4. UNCHANGED <<version, built, trees, drawn>>
    BY <1>12 DEF StartDraw
  <2>5. \A i \in DOMAIN drawing' : /\ WasBuilt(drawing'[i])
                                  /\ Before(drawn, drawing'[i]) /\ Before(drawing'[i], trees)
    BY <2>2 DEF Ordered
  <2>6. \A i \in DOMAIN queue' : /\ WasBuilt(queue'[i])
                                /\ Before(drawn, queue'[i]) /\ Before(queue'[i], trees)
    BY <2>3 DEF Ordered
  <2>7. \A i \in DOMAIN drawing', j \in DOMAIN queue' : Before(drawing'[i], queue'[j])
    BY <2>2, <2>3 DEF Ordered
  <2>8. \A i, j \in DOMAIN queue' : i < j => Before(queue'[i], queue'[j])
    BY <2>3 DEF Ordered
  <2> QED
    BY <2>4, <2>5, <2>6, <2>7, <2>8 DEF Ordered, WasBuilt, Before
<1>13. CASE MissDraw
  BY <1>13, <1>u DEF MissDraw
<1>14. CASE FinishDraw
  <2>1. 1 \in DOMAIN drawing
    BY <1>14, <1>q, EmptySeq DEF FinishDraw
  <2>2. DOMAIN drawing' = {}
    <3>1. DOMAIN <<>> = {}
      OBVIOUS
    <3> QED
      BY <1>14, <3>1 DEF FinishDraw
  <2>3. UNCHANGED <<version, built, trees, queue>>
    BY <1>14 DEF FinishDraw
  <2>4. ASSUME NEW v \in DOMAIN drawn'
        PROVE  \/ v \in DOMAIN drawing[1] /\ drawn'[v] = drawing[1][v]
               \/ v \in DOMAIN drawn /\ drawn'[v] = drawn[v]
    BY <1>14 DEF FinishDraw, TypeOK
  <2>5. WasBuilt(drawn')
    BY <2>1, <2>4 DEF Ordered, WasBuilt
  <2>6. Before(drawn', trees) /\ \A j \in DOMAIN queue : Before(drawn', queue[j])
    BY <2>1, <2>4 DEF Ordered, Before
  <2> QED
    BY <2>2, <2>3, <2>5, <2>6 DEF Ordered, WasBuilt, Before
<1>15. CASE UNCHANGED vars
  BY <1>15, <1>u DEF vars
<1> QED
  BY <1>1, <1>2, <1>3, <1>4, <1>5, <1>6, <1>7, <1>8, <1>9, <1>10, <1>11,
     <1>12, <1>13, <1>14, <1>15 DEF Next, OnVsync, Build

(***************************************************************************)
(* The theorems.                                                           *)
(***************************************************************************)
FrameIInv == TypeOK /\ Books /\ Announced /\ Ordered

\* The inductive invariant: whatever handlers, builds, textures, the display
\* and the raster thread do, in whatever order.
THEOREM Inductive == Spec => []FrameIInv
<1>1. Init => FrameIInv
  BY InitTypeOK, InitBooks, InitAnnounced, InitOrdered DEF FrameIInv
<1>2. FrameIInv /\ [Next]_vars => FrameIInv'
  BY NextTypeOK, NextBooks, NextAnnounced, NextOrdered DEF FrameIInv, Books
<1> QED
  BY <1>1, <1>2, PTL DEF Spec

\* Between frames whatever is dirty or moves has a frame coming that builds,
\* except what a handler changed without announcing it (app.rs, animator.cc).
THEOREM UpdatesHaveFrames == Spec => []NoLostUpdate
<1>1. FrameIInv => NoLostUpdate
  BY DEF FrameIInv, Announced, UpdateAnnounced, Coming, NoLostUpdate, Idle
<1> QED
  BY <1>1, Inductive, PTL

\* No place of the pipeline leaks, requests never leave more than one wait for
\* a vsync nor none, what is signalled is in the queue and no update is lost
\* (animator.cc, pipeline.h, app.rs), for any pipeline depth.
THEOREM BooksBalance == Spec => []FrameInv
<1>1. FrameIInv => TypeOK /\ SlotsBalance /\ OneWake /\ SignalsMatch
  BY DEF FrameIInv, Books
<1>2. TypeOK /\ SlotsBalance /\ OneWake /\ SignalsMatch /\ NoLostUpdate => FrameInv
  BY DEF FrameInv
<1> QED
  BY <1>1, <1>2, UpdatesHaveFrames, Inductive, PTL

\* No view ever goes back to an older picture of an element (pipeline.h,
\* rasterizer.cc): frames that skip views or wait in the queue included.
THEOREM PicturesGoForward == Spec => FramesInOrder
<1> DEFINE Forward == \A v \in ViewSet, e \in Elements : drawn'[v][e] >= drawn[v][e]
<1>1. FrameIInv /\ [Next]_vars => [Forward]_vars
  <2> SUFFICES ASSUME FrameIInv, Next PROVE Forward
    BY DEF vars
  <2> USE DEF treeVars, frameVars, animatorVars, pipelineVars, rasterVars, bounds
  <2>1. \A v \in ViewSet, e \in Elements : drawn[v][e] \in Int
    BY FramesHaveVersions DEF FrameIInv, TypeOK
  <2>2. CASE FinishDraw
    <3>1. drawing \in Seq(Frames) /\ drawing # <<>>
      BY <2>2, FramesType, Zenon DEF FinishDraw, FrameIInv, TypeOK
    <3>2. 1 \in DOMAIN drawing
      BY <3>1, EmptySeq
    <3>3. Before(drawn, drawing[1])
      BY <3>2 DEF FrameIInv, Ordered
    <3>4. \A v \in DOMAIN drawing[1], e \in Elements : drawing[1][v][e] \in Int
      BY <3>2, FramesHaveVersions DEF FrameIInv
    <3> QED
      BY <2>1, <2>2, <3>3, <3>4 DEF FinishDraw, Before, FrameIInv, TypeOK
  <2>3. CASE drawn' = drawn
    BY <2>1, <2>3
  <2>4. drawn' = drawn \/ FinishDraw
    BY DEF Next, OnVsync, Build, SetState, Resize, Texture, AwaitVSync, Vsync,
           ReuseFrame, RetryFull, BeginFrame, BuildView, EndFrame, SignalFrame,
           StartDraw, MissDraw
  <2> QED
    BY <2>2, <2>3, <2>4
<1> QED
  BY <1>1, Inductive, PTL DEF Spec, FramesInOrder

=============================================================================
