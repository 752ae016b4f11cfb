----------------------------- MODULE FrameLoop -----------------------------
(***************************************************************************)
(* Frames on demand: from a set_state to the picture on the screen.        *)
(*                                                                         *)
(* The framework marks elements dirty and asks for a frame (framework.rs,  *)
(* app.rs); Animator turns requests into one wait for a vsync and a vsync  *)
(* into a frame (animator.cc, runtime_controller.cc); a pipeline of        *)
(* bounded depth hands finished frames to the raster thread (pipeline.h,   *)
(* rasterizer.cc).                                                         *)
(*                                                                         *)
(* What an element shows is the version of its state: how often set_state  *)
(* or an advance has changed it.  Handlers, tasks and the steps of a frame *)
(* run on the UI thread, one after the other; the raster thread and the    *)
(* vsync run beside them.  A commit to the pipeline is two steps, because  *)
(* ProducerCommit signals the item after it has let the queue go.          *)
(***************************************************************************)
EXTENDS Integers, Sequences, FiniteSets, FiniteSetsExt, SequencesExt

CONSTANTS
  Elements,    \* stateful elements of the tree
  Views,       \* the views, in the order they were added
  Sizes,       \* the logical sizes a view can have, other than none
  Depth,       \* pipeline depth
  MaxVersions, \* bound: how often states change altogether
  MaxResizes,  \* bound: how often views change size
  MaxTextures  \* bound: how often an external texture asks to be redrawn

ASSUME ViewsAssumption == Views \in Seq(Range(Views)) /\ IsInjective(Views)
ASSUME DepthAssumption == Depth \in Nat \ {0}
ASSUME SizesAssumption == Sizes # {} /\ "none" \notin Sizes

NoSize == "none"
NotBuilt == -1
ViewSet == Range(Views)

VARIABLES
  version,   \* each element's state
  built,     \* the version each element was last built from
  dirty,     \* Shared::dirty
  needs,     \* Shared::needs_frame
  moving,    \* elements whose advance still wants frames
  silent,    \* dirty elements whose set_state asked for no frame
  lastSize,  \* WidgetHost::last_size
  size,      \* each view's metrics
  phase,     \* the UI thread: idle, build or signal
  todo,      \* views this frame has yet to draw: a set
  trees,     \* layer_trees_tasks_: what each view of this frame shows
  free,      \* pending_frame_semaphore_: no request is outstanding
  regenerate,\* regenerate_layer_trees_
  await,     \* tasks posted to call AwaitVSync
  waiting,   \* VsyncWaiter::callback_
  fired,     \* the vsync's task is posted
  slot,      \* producer_continuation_ is held
  first,     \* the committed frame found the queue empty
  empty,     \* Pipeline::empty_
  available, \* Pipeline::available_
  queue,     \* Pipeline::queue_
  draws,     \* posted Rasterizer::Draw tasks
  drawing,   \* the frame the raster thread draws: none or one
  more,      \* it left others in the queue
  drawn,     \* what each view's surface shows
  missed,    \* history: a Draw has found a queued frame unsignalled
  resizes, textures

treeVars == <<version, built, dirty, needs, moving, silent, lastSize>>
frameVars == <<phase, todo, trees, slot, first>>
animatorVars == <<free, regenerate, await, waiting, fired>>
pipelineVars == <<empty, available, queue, draws>>
rasterVars == <<drawing, more, drawn, missed>>
bounds == <<resizes, textures>>
vars == <<treeVars, size, frameVars, animatorVars, pipelineVars, rasterVars,
          bounds>>

\* rf_app_launch has asked for the first frame.
Init ==
  /\ version = [e \in Elements |-> 0]
  /\ built = [e \in Elements |-> NotBuilt]
  /\ dirty = {} /\ needs = FALSE /\ moving = {} /\ silent = {}
  /\ lastSize = NoSize
  /\ size \in [ViewSet -> {CHOOSE s \in Sizes : TRUE}]
  /\ phase = "idle" /\ todo = {} /\ trees = <<>>
  /\ free = FALSE /\ regenerate = TRUE
  /\ await = 1 /\ waiting = FALSE /\ fired = FALSE
  /\ slot = FALSE /\ first = FALSE
  /\ empty = Depth /\ available = 0 /\ queue = <<>> /\ draws = 0
  /\ drawing = <<>> /\ more = FALSE /\ missed = FALSE
  /\ drawn = [v \in ViewSet |-> built]
  /\ resizes = 0 /\ textures = 0

Idle == phase = "idle"
Changes == MapThenSumSet(LAMBDA e : version[e], Elements)
VisibleViews == {v \in ViewSet : size[v] # NoSize}

\* S change their state: Shared::mark_dirty for each.
Marked(S) ==
  /\ version' = [e \in Elements |-> version[e] + IF e \in S THEN 1 ELSE 0]
  /\ Changes + Cardinality(S) <= MaxVersions

(***************************************************************************)
(* Animator::RequestFrame, given what pending_frame_semaphore_ is: only    *)
(* the request that takes it posts the wait for a vsync.                   *)
(***************************************************************************)
Request(semaphore) ==
  /\ free' = FALSE /\ regenerate' = TRUE
  /\ await' = IF semaphore THEN await + 1 ELSE await

(***************************************************************************)
(* The UI thread between frames.                                           *)
(***************************************************************************)
\* A handler calls set_state.  Gestures, handled keys, resumed tasks, platform
\* messages and their replies have a frame asked for behind them; a key that
\* a handler reacts to and leaves unhandled does not.
SetState(e, announced, starts) ==
  /\ Idle
  /\ Marked({e})
  /\ dirty' = dirty \union {e} /\ needs' = TRUE
  /\ moving' = IF starts THEN moving \union {e} ELSE moving
  /\ \/ announced /\ Request(free) /\ silent' = {}
     \/ ~announced /\ silent' = silent \union {e}
        /\ UNCHANGED <<free, regenerate, await>>
  /\ UNCHANGED <<built, lastSize, size, frameVars, waiting, fired,
                 pipelineVars, rasterVars, bounds>>

\* rf_app_set_view_metrics.
Resize(v, s) ==
  /\ Idle
  /\ resizes < MaxResizes /\ resizes' = resizes + 1
  /\ s # size[v] /\ size' = [size EXCEPT ![v] = s]
  /\ silent' = {}
  /\ Request(free)
  /\ UNCHANGED <<version, built, dirty, needs, moving, lastSize, frameVars,
                 waiting, fired, pipelineVars, rasterVars, textures>>

\* An external texture has a new image: RequestFrame(false).
Texture ==
  /\ Idle
  /\ textures < MaxTextures /\ textures' = textures + 1
  /\ free' = FALSE /\ await' = IF free THEN await + 1 ELSE await
  /\ UNCHANGED <<treeVars, size, frameVars, regenerate, waiting, fired,
                 pipelineVars, rasterVars, resizes>>

\* The posted Animator::AwaitVSync; a second wait in one interval is dropped.
AwaitVSync ==
  /\ Idle
  /\ await > 0 /\ await' = await - 1
  /\ waiting' = TRUE
  /\ UNCHANGED <<treeVars, size, frameVars, free, regenerate, fired,
                 pipelineVars, rasterVars, bounds>>

\* VsyncWaiter::FireCallback posts the callback to the UI thread.
Vsync ==
  /\ waiting /\ waiting' = FALSE
  /\ ~fired /\ fired' = TRUE
  /\ UNCHANGED <<treeVars, size, frameVars, free, regenerate, await,
                 pipelineVars, rasterVars, bounds>>

(***************************************************************************)
(* The vsync's task.                                                       *)
(***************************************************************************)
\* Nothing but a texture asked for the frame: DrawLastLayerTrees.
ReuseFrame ==
  /\ Idle
  /\ fired /\ fired' = FALSE
  /\ ~regenerate
  /\ free' = TRUE
  /\ UNCHANGED <<treeVars, size, frameVars, regenerate, await, waiting,
                 pipelineVars, rasterVars, bounds>>

\* Mutated: Animator gives up on a frame the pipeline has no room for.
GiveUpFull ==
  /\ Idle
  /\ fired /\ fired' = FALSE
  /\ regenerate
  /\ ~slot /\ empty = 0
  /\ free' = TRUE /\ regenerate' = FALSE
  /\ UNCHANGED <<treeVars, size, frameVars, await, waiting, pipelineVars,
                 rasterVars, bounds>>

\* Animator::BeginFrame with the pipeline full: try again at the next vsync.
RetryFull ==
  /\ Idle
  /\ fired /\ fired' = FALSE
  /\ regenerate
  /\ ~slot /\ empty = 0
  /\ Request(TRUE)
  /\ UNCHANGED <<treeVars, size, frameVars, waiting, pipelineVars,
                 rasterVars, bounds>>

\* Mutated: Animator asks the pipeline for a place although it holds one.
TakeFreshSlot ==
  /\ empty > 0 /\ empty' = empty - 1
  /\ slot' = TRUE

\* The place of a frame that committed nothing is used again.
TakeSlot ==
  /\ slot \/ empty > 0
  /\ empty' = IF slot THEN empty ELSE empty - 1
  /\ slot' = TRUE

\* Animator::BeginFrame and what RuntimeController::BeginFrame does before
\* the draw: of the moving elements A advance and want another frame, the
\* others have come to rest; then the tasks that are ready change T.
BeginFrame(A, T) ==
  /\ Idle
  /\ fired /\ fired' = FALSE
  /\ regenerate
  /\ TakeSlot
  /\ Marked(A \union T)
  /\ dirty' = dirty \union A \union T
  /\ needs' = (needs \/ A \union T # {})
  /\ moving' = A /\ silent' = {}
  /\ \/ A \union T # {} /\ Request(TRUE)
     \/ A \union T = {} /\ free' = TRUE /\ regenerate' = FALSE
        /\ UNCHANGED await
  /\ phase' = "build" /\ todo' = VisibleViews
  /\ trees' = <<>>
  /\ UNCHANGED <<built, lastSize, size, waiting, first, available, queue,
                 draws, rasterVars, bounds>>

\* Mutated: whatever is built, a further frame is asked for.
AlwaysMounted(full) == TRUE

\* Mutated: only a partial rebuild counts as one.
PartlyMounted(full) == dirty # {}

\* WidgetHost::build: whether anything was built that advance has not seen.
Mounted(full) == full \/ dirty # {}

\* TreeOwner::needs_frame once the build is over and S were changed in it.
NeedsFrame(S) == needs \/ S # {}

\* The first of todo in the order the views were added.
NextToDraw(v) ==
  v \in todo /\ \E i \in DOMAIN Views :
                   Views[i] = v /\ \A j \in 1..(i - 1) : Views[j] \notin todo

\* AppInstance::draw_view and Animator::Render for the next view: a tree of
\* another size is rebuilt whole, otherwise only what is dirty is.  What is
\* built calls set_state on S, to be shown by the next frame at the latest,
\* and N of it will want to move.
BuildView(v, S, N) ==
  /\ phase = "build" /\ NextToDraw(v) /\ todo' = todo \ {v}
  /\ LET full == lastSize # size[v]
         rebuilt == IF full THEN Elements ELSE dirty
     IN /\ N \subseteq rebuilt /\ (rebuilt = {} => S = {})
        /\ built' = [e \in Elements |->
                       IF e \in rebuilt THEN version[e] ELSE built[e]]
        /\ trees' = [u \in DOMAIN trees \union {v} |->
                       IF u = v THEN built' ELSE trees[u]]
        /\ lastSize' = size[v]
        /\ moving' = moving \union N
        /\ IF Mounted(full) \/ NeedsFrame(S)
           THEN Request(free)
           ELSE UNCHANGED <<free, regenerate, await>>
        /\ needs' = FALSE
  /\ Marked(S) /\ dirty' = S
  /\ UNCHANGED <<silent, size, phase, slot, first, waiting, fired,
                 pipelineVars, rasterVars, bounds>>

\* Mutated: the newest frame is put first.
CommitFirst == <<trees>> \o queue

\* Pipeline::ProducerCommit under queue_mutex_.
Commit == Append(queue, trees)

\* Animator::EndFrame.  A frame that drew no view keeps its place.
EndFrame ==
  /\ phase = "build" /\ todo = {}
  /\ \/ /\ trees # <<>> /\ trees' = <<>>
        /\ first' = (queue = <<>>) /\ queue' = Commit
        /\ slot' = FALSE /\ phase' = "signal"
     \/ /\ trees = <<>> /\ phase' = "idle"
        /\ UNCHANGED <<trees, first, queue, slot>>
  /\ UNCHANGED <<treeVars, size, todo, animatorVars, empty, available, draws,
                 rasterVars, bounds>>

\* The rest of ProducerCommit and EndFrame: available_ is signalled, and a
\* frame that was the first in the queue has a Draw posted for it.
SignalFrame ==
  /\ phase = "signal" /\ phase' = "idle"
  /\ available' = available + 1
  /\ draws' = IF first THEN draws + 1 ELSE draws
  /\ first' = FALSE
  /\ UNCHANGED <<treeVars, size, todo, trees, slot, animatorVars, empty, queue,
                 rasterVars, bounds>>

(***************************************************************************)
(* The raster thread: Rasterizer::Draw around Pipeline::Consume.           *)
(***************************************************************************)
StartDraw ==
  /\ drawing = <<>>
  /\ draws > 0 /\ draws' = draws - 1
  /\ available > 0 /\ available' = available - 1
  /\ drawing' = <<Head(queue)>> /\ queue' = Tail(queue)
  /\ more' = (Len(queue) > 1)
  /\ UNCHANGED <<treeVars, size, frameVars, animatorVars, empty, drawn, missed,
                 bounds>>

\* NoneAvailable: the Draw returns, and posts no other.
MissDraw ==
  /\ drawing = <<>>
  /\ draws > 0 /\ draws' = draws - 1
  /\ available = 0
  /\ missed' = (missed \/ queue # <<>>)
  /\ UNCHANGED <<treeVars, size, frameVars, animatorVars, empty, available,
                 queue, drawing, more, drawn, bounds>>

\* MoreAvailable: post a Draw for the frames left behind.
Repost == IF more THEN draws + 1 ELSE draws

FinishDraw ==
  /\ drawing # <<>> /\ drawing' = <<>>
  /\ drawn' = [v \in ViewSet |-> IF v \in DOMAIN drawing[1]
                                 THEN drawing[1][v] ELSE drawn[v]]
  /\ empty' = empty + 1
  /\ draws' = Repost /\ more' = FALSE
  /\ UNCHANGED <<treeVars, size, frameVars, animatorVars, available, queue,
                 missed, bounds>>

OnVsync ==
  \/ ReuseFrame
  \/ RetryFull
  \/ \E A \in SUBSET moving, T \in SUBSET Elements :
       Cardinality(T) <= 1 /\ BeginFrame(A, T)
Build ==
  \E v \in ViewSet, S, N \in SUBSET Elements :
    Cardinality(S \union N) <= 1 /\ BuildView(v, S, N)

Next ==
  \/ \E e \in Elements, announced, starts \in BOOLEAN :
       SetState(e, announced, starts)
  \/ \E v \in ViewSet, s \in Sizes \union {NoSize} : Resize(v, s)
  \/ Texture
  \/ AwaitVSync \/ Vsync \/ OnVsync
  \/ Build \/ EndFrame \/ SignalFrame
  \/ StartDraw \/ MissDraw \/ FinishDraw

Spec == Init /\ [][Next]_vars

\* Both threads run what is posted to them, and the display keeps its beat.
Fairness ==
  /\ WF_vars(AwaitVSync) /\ WF_vars(Vsync) /\ WF_vars(OnVsync)
  /\ WF_vars(Build) /\ WF_vars(EndFrame) /\ WF_vars(SignalFrame)
  /\ WF_vars(StartDraw) /\ WF_vars(MissDraw) /\ WF_vars(FinishDraw)

FairSpec == Spec /\ Fairness

(***************************************************************************)
(* Properties.                                                             *)
(***************************************************************************)
Versions == [Elements -> Int]
IsFrame(f) == \E V \in SUBSET ViewSet : f \in [V -> Versions]
AreFrames(s) == s \in Seq(Range(s)) /\ \A f \in Range(s) : IsFrame(f)

TypeOK ==
  /\ version \in [Elements -> Nat]
  /\ built \in Versions
  /\ dirty \subseteq Elements /\ moving \subseteq Elements
  /\ silent \subseteq Elements /\ needs \in BOOLEAN
  /\ lastSize \in Sizes \union {NoSize}
  /\ size \in [ViewSet -> Sizes \union {NoSize}]
  /\ phase \in {"idle", "build", "signal"} /\ todo \subseteq ViewSet
  /\ IsFrame(trees)
  /\ free \in BOOLEAN /\ regenerate \in BOOLEAN
  /\ await \in Nat /\ waiting \in BOOLEAN /\ fired \in BOOLEAN
  /\ slot \in BOOLEAN /\ first \in BOOLEAN
  /\ empty \in Nat /\ available \in Nat /\ draws \in Nat
  /\ AreFrames(queue)
  /\ AreFrames(drawing) /\ Len(drawing) <= 1
  /\ more \in BOOLEAN /\ missed \in BOOLEAN
  /\ drawn \in [ViewSet -> Versions]

\* Every place of the pipeline is free, held by Animator, queued or being
\* drawn: a frame that commits nothing gives its place to the next one
\* rather than leaking it (animator.cc: "Simply reuse that instead of asking
\* the pipeline for a fresh continuation").
SlotsBalance ==
  empty + (IF slot THEN 1 ELSE 0) + Len(queue) + Len(drawing) = Depth

\* However often and from wherever frames are requested, there is one wait
\* for a vsync per taken semaphore and none without: "Multiple calls to
\* Animator::RequestFrame will still result in a single request".
OneWake ==
  await + (IF waiting THEN 1 ELSE 0) + (IF fired THEN 1 ELSE 0)
    = IF free THEN 0 ELSE 1

\* What is signalled as available to the raster thread is in the queue, except
\* for the frame whose commit is still to be signalled, so a Draw that may
\* consume finds a frame (pipeline.h, Consume).
SignalsMatch ==
  available + (IF phase = "signal" THEN 1 ELSE 0) = Len(queue)

\* Between frames, state that changed but was not rebuilt, and an element
\* that wants to move, have a frame coming that builds - whatever mixture of
\* handlers, builds, advances and textures led there.  Exempt are changes
\* nobody announced, and a tree no view shows.
NoLostUpdate ==
  Idle /\ VisibleViews # {} /\ (dirty \union moving) \ silent # {}
    => ~free /\ regenerate

\* The books of frame production, kept by two threads and the vsync, and that
\* no update falls between them.
FrameInv == TypeOK /\ SlotsBalance /\ OneWake /\ SignalsMatch /\ NoLostUpdate

\* No view ever goes back to an older picture of any element.
FramesInOrder ==
  [][\A v \in ViewSet, e \in Elements : drawn'[v][e] >= drawn[v][e]]_vars

Shows(v, e) ==
  \/ size[v] = NoSize
  \/ e \in silent
  \/ drawn[v][e] = version[e]

\* Once states no longer change, every visible view comes to show every
\* element's last state, across full pipelines, frames without views and
\* frames that textures asked for (as long as no Draw misses its frame).
StateIsShown ==
  []~missed => \A v \in ViewSet, e \in Elements : []<>Shows(v, e)

\* When nothing changes any more no further frame is asked for: "a static UI
\* costs nothing to keep on screen" (app.rs, FrameScheduler).  It takes views
\* of one size: they share one tree, which remembers only the last size.
ComesToRest ==
  []~missed /\ <>[](Cardinality({size[v] : v \in VisibleViews}) <= 1)
    => <>[](free /\ draws = 0 /\ drawing = <<>>)

\* The screen comes to show the state, and then to rest.
ScreenSettles == StateIsShown /\ ComesToRest

\* What Animator::EndFrame relies on when it posts no Draw for a frame that
\* was not the first in the queue: "Eventually the 'Rasterizer' will consume
\* it".
QueuedIsConsumed == queue # <<>> ~> drawing # <<>>

=============================================================================
