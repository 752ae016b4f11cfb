# A verification of rustflutter

rustflutter is Flutter's framework rewritten in Rust on the unmodified C++
engine. This directory holds TLA+ models of the parts of it that are
concurrent, re-entrant, spread over frames or driven by deadlines, the TLC
configurations that check them, and TLAPS proofs of what matters most about
eight of them.

Paths below are relative to the repository; `task.rs`, `gestures.rs` and so on
are in `src/flutter/rust/rustflutter/src/`, `host_win.cc` is
`src/flutter/rust/host/rustflutter_host_win.cc`, `runtime_controller.cc` is in
`src/flutter/runtime/`, and `animator.cc`, `pipeline.h`, `rasterizer.cc` and
`shell.cc` are in `src/flutter/shell/common/`.

## 1. Inventory

### How the parts meet

Everything in the framework lives on one thread, the UI thread: its state is
`Rc<RefCell<..>>` and thread-local. The C++ shell calls in through the
`rf_app_*` functions of `app.rs` (launch, views, begin_frame, run_tasks,
draw_frame, pointers, keys, messages, replies, semantics actions, destroy); the
framework calls out through `RfAppHost` (render, schedule_frame, send and
respond, post_task, post_delayed_task). Other actors run beside it: worker
threads that decode images and hold `Waker`s, the platform thread that answers
messages, the window thread on which the user types, the raster thread that
draws finished frames, and the display that sends vsyncs.

What makes the system hard is that frames are on demand. Nothing polls: every
change of state has to lead to a request for a frame, every wake to a drain,
every deadline to something that comes back when it is due. A missed one does
not crash anything; the screen or the task just stays as it is. And what one
part keeps of another - a handle to an element, the handlers of what the mouse
was over, a focus node, a session of the input method - outlives the build that
made it, and is put right only at the next frame.

### Components

| Component | State | Operations | Hard part | What makes it correct | Module |
|---|---|---|---|---|---|
| async executor (`task.rs`) | task table, inbox, ready list, `posted`, poster, timers | spawn, wake (any thread), drain, sleep, attach, detach | wakes racing the drain and the teardown | no wake is lost, no call into a host that is gone, start order, sleepers wake | `Executor` |
| messages in (`services/mod.rs`) | per channel handler, loan, generation, buffer; response ids | set/clear handler, resize, deliver, respond, detach | re-entrancy: the handler is out while it runs | each response is given once, nothing is stranded, a removed handler stays removed | `Messenger` |
| calls out (`services/mod.rs`, `channel.rs`, `task.rs`) | waiting callbacks, oneshot slots | send_with_reply, complete_reply, await, detach, restart | late answers, teardown, a second life | the callback runs exactly once, no task parks for good | `PlatformCall` |
| image cache (`painting.rs`) | entries, LRU order, byte count, outstanding, arrived | request, decode, collect, evict | arrivals between the frame's two looks at the cache, eviction | books balance, limits hold, pictures appear, frames stop | `ImageCache` |
| gesture router (`gestures.rs`) | active presses, arenas, pending tap, pinch | down, move, up, cancel, frame tick | deadlines without timers, several fingers, nested regions | one story per press, no tap lost, highlights end | `Gestures` |
| frame production (`app.rs`, `framework.rs`, `animator.cc`, `pipeline.h`, `rasterizer.cc`) | dirty list, request flags, vsync wait, pipeline | set_state, request, begin, build, commit, draw | four flags and two threads between a change and its picture | every change is shown, in order, and then frames stop | `FrameLoop` |
| launch and replay (`runtime_controller.cc`, `platform.rs`) | what the embedder set | launch, restart, set_* | settings before, after and between lives | a life sees what was set, whenever it was, and of its predecessor only the semantics handle | `Launch` |
| element tree (`framework.rs`) | slots, generations, dirty list, parked elements, keys, readers | rebuild, rebuild_dirty, set_state, GlobalKey moves | handles that outlive elements, moves within a pass | the tree shows the program, no state reaches a stranger or is lost | `ElementTree` |
| focus and modals (`focus.rs`, `theatre.rs`) | registry of nodes, traps, requests, overlay entries | focus, Tab, autofocus, trap, show, dismiss | nodes outlive their widgets until the next frame | the keyboard is in front of the user, on what shows it | `Focus` |
| text input (`services/text_input.rs`, `editable.rs`, `host_win.cc`) | the text twice, the session, three queues | attach, update, close, type, compose, submit | two threads of the host, messages that cross a change of fields | what is typed is in one field, stays, and both sides agree | `TextInput` |
| tooltips (`tooltip.rs`, `raw_tooltip.rs`) | shared scope, a timer each, hover, portals | hover, press, escape, page change, frame | delays counted by frames; bubbles that share a scope | one bubble for a mouse, delays are kept, bubbles go | `Tooltips` |
| tickers, animation objects (`ticker.rs`, `animation.rs`) | tick origin, muted, future | start, stop, mute, absorb, tick | futures settled from several places | a future settles once | - |
| navigator (`navigator.rs`, `navigation.rs`, `routes.rs`) | history with entering and exiting routes | push, pop, replace, remove | pops while a transition runs | observers see a consistent history | - |
| snack bars (`scaffold_messenger.rs`) | queue, timer | show, hide, expire | an expiry racing a dismissal | one at a time, each closed once | - |
| undo (`undo_history.rs`) | stack, throttle, last value | push, undo, redo, advance | undo inside the throttle window | undo and redo are inverse | - |
| restoration (`services/restoration.rs`) | bucket tree, claims | claim, adopt, drop, write | a restart between writes | what was written is restored | - |
| free-standing recognizers (`recognizers.rs`, `multitap.rs`, `multidrag.rs`) | one press | down, move, up | deadlines | one verdict | - |
| rendering, semantics, widgets | geometry | layout, paint | floating point | out of reach here | - |
| engine shell and graphics, hosts, tools | - | - | upstream code, declarations | only what the above needs | - |

`PROJECT.json` lists them all with what is and is not modelled, and the hazards
each is exposed to, at their lines. Section 7 says why the last eight have no
module.

## 2. Plan, and where it stands

The order was by what the rest depends on: the executor and the two directions
of messages first (`Executor`, `Messenger`, `PlatformCall`), then what makes
and asks for frames (`ImageCache`, `Gestures`, `FrameLoop`), then what frames
put right (`Launch`, `ElementTree`, `Focus`), then the two components that meet
all of these (`TextInput`, with a host of two threads, and `Tooltips`, with the
router and the frames). All of these exist. The abstract specifications are
`MicrotaskQueue` (what an application may rely on of the executor) and
`ReplyPromise` (what a caller may rely on of a call); both refinements are
checked with liveness and their steps are proved. The proofs are in modules of
their own: `ExecutorProofs`, `ControllerProofs` (of `PlatformCall` and
`Launch`, the two halves of the runtime controller), `MessengerProofs`,
`FrameLoopProofs`, `ImageCacheProofs`, `TextInputProofs`, `TooltipsProofs`, and
`InputProofs`, of `Focus` and `Gestures`, which share what is proved of walks
over lists.

What would come next: the composition of `Executor` with `PlatformCall` (a
reply wakes a task, the drain polls it), which so far meet at their shared
assumption that a woken task is polled; `ElementTree` with its reconciliation
written as recursive functions, as `Focus`, `ImageCache` and `Gestures` have it,
so that `TreeInv` can be proved; and the navigator's history against a stack.

## 3. Modules

Each module names the code its variables and actions stand for; the `map` of
`PROJECT.json` gives the lines. A module is parameterised by its constants;
`MC<module>` and the `.cfg` files give them values. A definition whose comment
begins with "Mutated:" is what a plausible bug would make of the definition
after it; `PROJECT.json` says which property each of them breaks, and nothing
else uses them. `Lists` holds the one walk that `ImageCache`, `Gestures` and
`Focus` share: `Only(list, S)`, what `retain` and `filter` leave of a list,
written as a recursive function so that what it gives can be proved.

### Executor, MicrotaskQueue

One lifetime of the executor, attach to detach. Worker threads and the UI
thread wake tasks in the steps `wake_by_ref` and `request_drain` take: push
under the inbox lock, swap of `posted`, the poster lock, the call under it. The
UI thread drains in the steps of `run_until_stalled`: fire timers, clear
`posted`, take ready and inbox, poll one by one. `RunPosted`, `RunDelayed` and
`FrameDrain` are the three callers of `rf_app_run_tasks`. `detach` is two
steps, clearing the poster and dropping the executor, and the host may go after
that.

`ready`, `inbox` and `batch` are sets: the drain sorts and dedups what it takes,
so neither order nor multiplicity survives. Atomics are sequentially
consistent: every flag access that matters is ordered by a mutex on the same
path (the inbox for wakes, the poster for teardown), and `posted` is one
read-modify-write variable, so Acquire/Release gives the same outcomes.

Time is counted in parts of a microsecond, `MicroTicks` to one: `Sleep` keeps
its deadline in them, `request_delayed_drain` passes the delay on in whole
microseconds (`RoundedDown`). So a drain can come too early for the sleep that
asked for it, and the properties say of such sleeps only what is left true.

`MicrotaskQueue` says what an application may rely on, without threads: an owed
task is polled, one at a time, never after the close. `MicrotaskSpec` is the
refinement, with liveness, and is checked; `ImplementsQueue` proves its steps.

### Messenger

One channel (channels share only the sink). Everything is on the UI thread, but
a handler may set, clear and resize its own channel and feed it messages, so
the call stack is a variable. A message is its arrival number and its `fate`;
response ids are followed to the embedder's handle (`hostPending`,
`completed`). A handler is the generation that installed it. `HostCloses` is
the controller's destructor, which completes what nobody answered.

### PlatformCall, ReplyPromise

A call is its response id. Its response object can be answered on any thread,
at any time or never; its answer is posted to the UI thread and finds the
callback or not. An awaited call has a task and a oneshot slot. Teardown is
`Disconnect`, `DetachMessenger`, `FailOne` for each callback (which may send
again) and `DetachTasks`; `NextLife` begins a second life on the same thread,
with answers of the first still on their way. `ReplyPromise` is the promise: a
callback that is made is kept exactly once, at the latest at the close.

### ImageCache

Keys have a cost and may fail to decode; `Workers` take requests and send
results through two channels. A frame collects at two places, in
`WidgetHost::build` (`take_images_arrived`) and in `draw_view`
(`images_pending`), and workers run between them. `held` is `Rc::strong_count`.
If no worker could be started (`up = {}`) images decode in the build. What
`evict_to_fit` walks and keeps (`Only`, `Without`, `Evict`) are recursive
functions, like the walk of a rejection in `Gestures`.

### Gestures

Presses on regions with handlers. `Members` is the arena a press opens;
`Accept`, `Reject`, `Sweep`, `Released` work on a verdict, which is what the
code collects and `apply_verdicts` applies; `RejectAll` goes through the
members that stand when it begins, as the code's loops do. Events are `Down`,
`PassSlop`, `Up`, `Cancel`, `LeavePinch`; `Tick` is `rf_app_begin_frame`'s look
at deadlines; `Clock` is time, in ages counted only as far as the code compares
them. Travel is one bit, whether the slop is passed; moves that change nothing
else are left out. `told` is what the handlers heard of each press. The
properties speak of every screen and name, region by region and path by path,
where the router does less than it should (section 6): `LongIsOwn(region)` is
false of a region in front of another's long press, `LeftAlone(path)` of a path
on which a tap that turns out to be no double tap has others to contend with,
and `Stories` has a long press that is pinched after all. The checked screen
has all three.

### FrameLoop

From a change of state to the picture: `SetState` with and without a request
behind it, requests through `pending_frame_semaphore_`, the posted wait, the
vsync, `BeginFrame` (advance, tasks), `BuildView` per view, `EndFrame`, and the
pipeline. `ProducerCommit` is two steps, because it signals `available_` after
it has let `queue_mutex_` go: `EndFrame` pushes and `SignalFrame` signals and,
if the queue was empty, posts a `Draw`. The raster thread's `StartDraw`,
`MissDraw` and `FinishDraw` are `Rasterizer::Draw` around `Pipeline::Consume`.
An element is its version number; a frame is what version each view shows. The
versions and the resizes are bounded.

`silent` is the set of changes nobody announced, `missed` a history variable:
a `Draw` has found a queued frame that was not signalled yet.

### Launch

`told` is the controller's `platform_data_`, `platform` what the UI thread's
`PLATFORM` and the application know of it. Every setter writes the one and, if
an application runs, the other; `Launch` replays (`Replayed`), may fail, and
starts from what its predecessor left; `AfterDestroy` is what `rf_app_destroy`
leaves; `Restart` and `NewEngine` on the same thread are the two ways to a next
life. `LaunchInit`, `LaunchNext` and the like carry the module's name because
`ControllerProofs` extends both halves of the controller.
A settings payload may leave members out. The order of the views, the handlers
of settings and locales, malformed messages and lists of locales of which only
some name a language are left out; `initial_route_` is stored and read by
nobody. `frame` is a frame asked for and `drawn` what the last one was drawn
from, which is how "the screen is current" can be said.

### ElementTree

The tree as a value, `tree`, and the methods of `ElementTree` as operators that
take a tree and give one back, since everything a pass does runs on the UI
thread without interruption: `Mount`, `Update`, `UpdateChildren` (matching from
the front, from the back, then by local key), `DeactivateChild` for what
carries a `GlobalKey`, `ClaimGlobalKey`, `FinalizeInactive`, `Allocate` and
`FreeSlot` with the generations of recycled slots. A partial pass walks a list
taken and sorted before its first step (`RebuildDirtyElements`). A program is a
set of widgets and the shapes each component may build; handlers change which
one, publish values and keep a handle outside the tree. Leftover keyed children
are dropped in list order, where the code iterates a `HashMap`; duplicate local
keys are excluded, and each `GlobalKey` is used once in a program. Render
objects are left out. The operators recurse over the tree, so the module has no
proofs.

### Focus

The registry of `focus.rs`, the overlay of `theatre.rs`, and a frame that
prunes, builds and grants what asked for the keyboard. A page is a list of
keyed fields, a dialog a focus group over a list of fields. An element is
`<<layer, place>>`: overlay entries have no key, so when a modal goes out of
order the one above slides into its layer and its elements. `slid` remembers
that this happened: from then on a layer's element may keep the highlight of
whoever had it before, and `HighlightFollowsTheKeyboard` speaks of the page's
elements, which have keys (`TheirOwn`). `closed` keeps what was dismissed.
Handlers run outside the borrow and may move the keyboard again, whether they
hear that they gained it or that they lost it; `overtaken` remembers whose
`gained` was still to come when they did. Neither they (`Tell`) nor the
application (`Request`) are kept inside a trap, since `focus` does not look at
it; `strayed` remembers that such a call put the keyboard where it is, outside
the trap. Each dialog is shown once. `FocusScope`'s memory, explicit
orders, excluded subtrees and key handlers are left out.

### TextInput

The text is kept by the field (`value`) and by the host's model (`model`), and
three queues join them: `toUi` (updates, actions, key messages), `toHost` (set,
show, clear, verdicts) and `toWindow` (verdicts to the window thread), with
`todo` what the window thread does for one keystroke. A text is the set of
marks in it; each keystroke, composed string and paste leaves one mark of its
own, and the caret stays at the end. A backspace or an arrow goes the same way
as a character. The steps are those that hold the host's mutex: `clearClient`
is three. Callbacks of the field (`on_changed`, `on_submitted`) may move the
keyboard to the next field, leave the page or clear, while the slot is empty.
An update is read and posted in one step; keys are declined by the framework,
so they come back; none is pressed while a composition is open; what
`ImmNotifyIME` answers is external. Selections, read-only and multi-line
fields, autofill, caret rectangles and the Linux host are left out. A field
that leaves has no keyboard from then on: its node is pruned at the next frame
(`focus.rs:319`), and until then it has the keyboard in name only, with no
connection that a move could close and nobody who hears of it. That Tab may
move the keyboard on to such a node before it is pruned is in `Focus`.
`crossed` and `untold` are history variables: an update crossed a state on its
way, and a text was changed that the host is not told of.

### Tooltips

Time is in frame intervals. `Forward` and `Completed` are "up"; `Reverse` is
"out", from a dismissal to the tooltip's own next frame. `scope` holds one
model for each host that is known, `staged` the bubbles on screen, `hovered`
what the router thinks the mouse is over, `deaf` those in it whose handlers are
of a host that is gone. `Frame` is `advance_frame`, the build and the settle
of every host; `Tick` is an interval without a frame. One mouse, one press at a
time, no nesting; the z-order is left out, and the modal's half of escape is
in `Focus`. `pressed` (up because of a press) and `left` (left up by a
cancelled long press) are history.

## 4. Runs

| Run | Instance | Shows |
|---|---|---|
| `executor` | 1 worker, 2 tasks, 1 outstanding post, 1 sleep at a time, of half a microsecond or a whole one | no lost wake, no call after detach, spawn order, sleeps covered; refinement of `MicrotaskQueue`; sleepers wake |
| `messenger` | 3 messages, 3 handlers, buffers of 0 to 2, nested feeding | every response handle is answered once through every fate; loans; what waits for a listener is settled |
| `platform_call` | 2 calls, 2 lives | callbacks run exactly once, nothing is inherited, answers come before drops; refinement of `ReplyPromise`; answers arrive |
| `images` | 3 images, one of 2 bytes, one unreadable, room for 2 entries and 2 bytes, up to 2 workers, 2 changes | books balance, limits hold, what is drawn stays; pictures appear while frames come, and frames stop |
| `gestures` | 2 fingers; a list with rows that can be held, a card for taps, double taps, long presses and drags, a button on it, a photo that can be held and pinched | one story per press, taps told, pinches of two, highlights end, both deadlines kept on frames the router asks for |
| `frames` | 2 views of one tree, depth 2, 2 changes, 2 resizes, 1 texture | one wake, no leak, no lost update, order; the state comes to be shown, and then rest |
| `frames_missed` | 1 view, 2 changes | violation: queued frames are consumed |
| `tree` | a page with panels that move a clock and a dial by their keys; 2 changes, 1 mutation, 1 value | the slots are one tree that shows the program; keys and readers agree; handles are not strangers; what moves keeps its state |
| `focus` | 2 pages of 2 fields that share one, dialogs of 2 and 1 fields, 3 moves to anywhere by user, application and handlers, 1 change of page | the registry; the keyboard is in front of the user, on what shows it; frames grant it rightly |
| `text` | 2 fields, 2 keys, 1 composed string, 1 paste, every reaction of a callback, in five mixes | the session is the focused field's, a keystroke is in one field, what is entered stays and shows, both copies agree at rest |
| `launch` | 2 views, 2 metrics, payloads of 2 members, 3 lists, 6 calls | a life knows what was told before and since, nothing is inherited but the semantics handle, every change has a frame |
| `tooltips` | one tooltip for long presses, one for taps, delays of 2 (the second lingers 0), gaps of 3, 5 inputs | one bubble for a mouse, who holds one open hears it leave, delays are kept, bubbles go |

Why these bounds are enough to be interesting. Two tasks and one worker already
give every overlap of a push, a swap, a clear and a take, since threads meet
only at `inbox`, `posted` and the poster lock; any number of workers is what
the proofs add. Three messages are needed for one running, one queued behind it
and one fed in while the queue drains. Half a microsecond is the least delay
that is rounded to nothing. Two lives are needed for a late answer. Three
images and room for two force evictions while one is drawn. Two fingers make
pinches and displaced taps; a third finger on a pinch is not covered (it takes
longer than a run may). The card and the button on it put a region in front of
another's long press and another's double tap; the photo is where a long press
is pinched. A pipeline of two (what the shell builds) is full with one frame
queued and one being drawn; two resizes hide both views, so that a frame
commits nothing. Two changes of the tree's program park an element, claim it
elsewhere and take it back, before and after its old place is reconciled. Two
dialogs can be dismissed out of order, and a page rebuilt so that the focused
field moves or goes; three moves are one of the user or the application and two
of handlers that hear of it. Two fields are needed for messages that cross a
change of fields, and one mark of each kind for a composition that the change
interrupts; `Budgets` bounds what the user and the program do separately,
because the full product takes too long: each mix favours one kind of input.
Six calls are a setting, a failed launch, a setting, a launch, a setting and a
teardown or restart. Two tooltips are one that the mouse opens and one it comes
from; delays of two are the least with a frame inside, and gaps of three the
least longer than that. Every run but `gestures`, where time always passes,
turns the check for deadlock off, because there the system may really stop:
nothing is left to do, and the user, the application and the embedder have used
up what the bounds allow them.

### What the violation shows

`frames_missed`: a frame can be stranded in the pipeline. `ProducerCommit`
(`pipeline.h:227-234`) pushes, unlocks and then signals. If the UI thread is
held up before the signal while the raster thread takes the frame before it,
draws it and, since the queue was not empty, posts another `Draw`
(`rasterizer.cc:297-304`), that one finds `available_` at zero, returns
`kPipelineEmpty` and posts nothing (267-268). The queue never becomes empty
again, so no later commit posts a `Draw` either; the pipeline fills and every
vsync ends in "PipelineFull". `animator.cc:148-150` relies on the opposite.

### Fairness

* Executor: weak for steps of a thread that is inside a call; strong for
  `PollReturns` (a poll alternates between returning and waking or sleeping),
  `RunPosted` and `RunDelayed` (the UI runner runs what is posted to it, though
  frames drain in between). `Tick` goes past `MaxTime` only while a delayed
  task is due. Nothing obliges anyone to spawn, wake or detach.
* Messenger: a handler returns and a loop goes on.
* PlatformCall: the UI thread runs posted replies, polls woken tasks (strong,
  since teardown may come between) and goes on with a teardown. The platform
  need never answer.
* ImageCache: frames that are requested are made, workers decode. Where a
  property needs frames for another reason it says so (`animating`).
* Gestures: time passes, and a requested frame begins. No finger has to move.
* FrameLoop: the UI and raster threads run what is posted to them and the
  display sends the vsync that is waited for. Handlers, resizes and textures
  are under no obligation.
* ElementTree, Focus, Launch: safety only; a pass and a frame are one step.
* TextInput: the UI thread handles its messages, the platform thread its calls
  and verdicts, the window thread what it has begun. The user and the input
  method are under no obligation.
* Tooltips: time passes, and a frame that was requested comes within an
  interval. The mouse need not move.

### Conditions in properties

* `NoLostUpdate` and `StateIsShown` except `silent` changes: a key handler that
  calls `set_state` and returns false (`app.rs:1321`), for which nothing asks
  for a frame. `ScreenSettles` of `FrameLoop` holds while no `Draw` was missed,
  which is what `frames_missed` is about, and its half about rest takes visible
  views of one size (see `app.rs:797` in section 6).
* `TimerCovered` and `SleepersWake`: a sleep of a fraction of a microsecond may
  have had its drain in the microsecond before its deadline, and then waits for
  any other drain. Sleeps of whole microseconds have no exception.
* `TapsAreAnswered` excepts a tap displaced by another finger's first tap, and
  one on a path that is not `LeftAlone`; `HighlightsEnd` regions in front of
  another's long press (`LongIsOwn`); `OneStory` a long press that is pinched
  after all.
* `OnlySemanticsIsLeft` names what of a gone application the next one has: the
  semantics handle.
* `PicturesOfFrames` is about screens that fit the cache and frames that come
  for another reason, or no worker.
* `HighlightFollowsTheKeyboard` speaks of the page's elements only, once a
  modal was put in another's layer, and lets a field be lit that heard of its
  gain after another's handler had moved the keyboard away again (`overtaken`);
  that the field with the keyboard is lit has no such exception.
  `KeyboardIsWhereTheUserIs` says where the keyboard is while every modal had a
  field and unless the application's own last move of it was outside the trap
  (`strayed`), and where Tab goes always (section 6).
* `CopiesAgree`, `EnteredStays` and `TypedIsShown` except updates that crossed
  a state (`crossed`) and texts the host was not told of (`untold`).
* `BubblesGo` excepts bubbles whose long press was cancelled, `DelaysAreKept`
  the tooltip that is pressed.

## 5. Proofs

Every theorem holds for all values of the constants that satisfy the `ASSUME`s
of the modules, which every run evaluates: names are distinct, bounds are
naturals, `None` is none of the things it stands beside. Each proof has the
same plan: an invariant that is inductive, one lemma per part of it, in it one
step per action that the part can feel; then the theorems that follow.

* `ExecutorProofs` (any workers, tasks, posts, clock and sleeps). `NoLostWake`
  is not inductive: it speaks of the moment when nobody is doing anything.
  `ExecInv` adds where the poster lock is (`LockInv`), what the UI thread's
  place says (`StackInv`, `TeardownInv`), that a raised flag is a drain on its
  way (`AskedInv`), that a task in the inbox has raised it or is about to
  (`WakeInv`), and where unpolled tasks are (`OrderInv`, `StartedInv`).
  `WakesAreNotLost`, `HostOutlivesCalls` and `StartsInSpawnOrder` follow.
  `SleepsAreCovered` has its own induction on the timers, for a clock as fine as
  one likes; what it needs of the rounding is that it takes less than a
  microsecond. `ImplementsQueue`: each step is a step of `MicrotaskQueue`
  or a stutter.
* `ControllerProofs`, of `PlatformCall` (any calls and lives): `CallInv`, whose
  `SlotMatches` ties callbacks, slots and tasks together; `CallbacksRunOnce`,
  `ParkedTasksAreHeld`, `LivesAreApart`, the action property
  `AnsweredBeforeDropped`, and `ImplementsPromise` for the steps of
  `ReplyPromise`.
* `MessengerProofs` (any messages, generations and capacities, any depth of
  handlers inside handlers). `MessengerIInv` adds two things the code never
  writes down: `LoanInv`, whose handler each call on the stack has borrowed
  (`Calls`, `TakenBefore`, `NewerInside`, `LoanIsRunning`, `EmbedderKnows`),
  which is why what `deliver` puts back is never over a newer one; and
  `AnswersInv`, that a response handle is in one place at a time (`OnePlace`,
  `Unanswered`, `HostBooks`, `Due`). `CurrentHandler` and `AnswersComeBack`
  follow.
* `FrameLoopProofs` (any views, elements, depth and caps). `FrameIInv` is the
  types, `Books` (the pipeline's semaphores count its frames, and who holds a
  slot), `Announced` (whatever must move or be shown has a frame coming, in
  whichever of the four flags it is) and `Ordered` (the pictures queued, being
  drawn and on screen go forward). `UpdatesHaveFrames`, `BooksBalance` and
  `PicturesGoForward` follow. The atomicity gap of `frames_missed` is in the
  model, so these hold in spite of it.
* `ControllerProofs`, of `Launch` (any views, settings and locales):
  `OnlySemanticsIsLeft`, `KnowsThePlatform` and `ScreenIsCurrent`
  are inductive only together, since a launch replays over what the last
  application left and is right because that is only the semantics handle, which
  no launch replays.
* `TextInputProofs` (any fields, marks, budgets and reactions). `ConnectionInv`:
  only the focused field has a connection, and it is the slot's or, inside a
  callback, what will be put back. `NumbersInv`: session numbers grow, so a
  late message is known by its number. `LiveInv`: what belongs to the session -
  the model, its updates and states - shares no keystroke with another field.
  `KeysInv`: a keystroke is in one place of the pipeline. Together they give
  `WhatIsTypedGoesToOneField`. That the two copies agree at rest says nothing of
  the steps before, so `AgreeInv` says what is true while messages are under
  way, of a session whose field is on the page: either the framework's last
  state is still in the queue, within that session or behind the call that
  begins it, and holds the field's text (`OnItsWay`); or the host has taken it,
  no call on its way ends the session, and what was entered only grows along the
  way from the field over the updates sent since (`Fresh`) to the model, whose
  text the last of them has, unless an edit is still to be reported
  (`HostAgrees`). It rests on `StatesInv`: the numbers of the states grow, so an
  update is `Fresh` exactly when it crossed none. `HostHoldsTheText` reads it at
  rest, `WhatIsEnteredStays` at the head of the queue.
* `TooltipsProofs` (any tooltips, triggers and delays). `OneRises`: of what is
  up or waits to be, at most one was not pressed. `OneUnderMouse`,
  `PressedAreUp`, `HeldOpenWillHear`, `NothingLeftBehind` and `PageIsMarked` say
  what scope, stage, router and page know of each other. `ClocksAreTrue`: what
  a clock has yet to count covers, within an interval, what is due. It rests on
  `FramesCome`, that frames never stop while a tooltip is mounted, which is
  itself a difference (section 6). `BubblesBehave` and `DelaysLast` follow.
* `ImageCacheProofs` (any images, sizes, limits and threads). Eviction and
  collection are walks, each written as a recursive function, and each is first
  shown to have a value and then to step as written, by counting; `Evict` leaves
  a cache whose totals are those of what it holds (`Balanced`), without an
  entry that could go while a limit is passed (`EvictedFrom`, `Left`), `File`
  and `Collect` keep that (`Filing`, `Collected`). `BooksAreKept` proves
  `ImageInv`. The totals are sums over the keys, and the requests under way are
  counted over channels and threads (`Flight`); that no result comes for a
  request nobody made (`Served`) is what makes it inductive, and it is why the
  `saturating_sub` of `collect` never saturates. `EvictionIsRight` proves the
  action property `EvictsTheRight`. Assumed: finitely many keys and threads.
* `InputProofs`, of `Focus` (any pages, modals, lists of fields, fields that
  ask, and any number of moves). A build is a list made by filtering and
  flattening lists, so the proof begins with what these walks give, by
  induction on their length: `Counting` (a set of naturals with 0 and every
  successor is all of them, from the well-founded order of the naturals) takes
  the place of an induction theorem. `OnlyPlaces`: a filter keeps items and
  order; `FlattenItems`: a flattened list has the items of its lists, none
  twice if they share none. `BuildList` and `BuildDistinct` then turn a build
  into the set of its nodes (`Items`), no two with one id, and `RegisterList`
  says what registering it leaves. `FocusInv` is not inductive: a frame
  registers what `show_modal` and dismissals have done since the last one.
  `BuildInv` says which modals are up and not yet built (they asked for the
  keyboard) or built and gone (they are `closed`), `OrderInv` that the former
  lie above and the built ones keep their order, and their layers unless
  `slid`, `EntriesInv` where an entry's element says it was built.
  `FocusInvHolds` and `FramesFocusWell` need only these (`StructureInv`).
  `KeyboardStaysInFront` adds `PlaceInv`: where the node with the keyboard lies
  unless it `strayed`, between builds too, so that once the modals above it are
  built or gone it is in the last one. `HighlightIsTheKeyboards` adds `LitInv`:
  what is lit, corrected by the news still to be told, is the element with the
  keyboard, and what is `overtaken` besides. Neither assumes anything of what
  handlers do or of where the application moves the keyboard.
* `InputProofs`, of `Gestures` (any fingers, regions, handlers, paths and
  times). An arena is a list of recognisers without repetition, and a verdict
  on it is `Sound` if the arena it leaves is gone or contested by two at least.
  The lemmas say what each operation makes of a sound verdict: `Accepts`,
  `Rejects`, `Sweeps`, and `RejectsAll`, by counting: those who do not give up
  are left, one alone has won, and if all give up the last of them has.
  `MemberList` and `Opens` say who is in the arena a press opens, whatever its
  path. All three theorems hold for every screen. `PinchesAreTwoFingers` is
  about the state alone. `HighlightsAreOfPresses` (`GestureInv`) adds `Lit`,
  that what is lit is what lies under a press that counts as pressing, and
  `Ruled`, that the fingers of a pinch press nothing. `EveryPressIsTold`
  (`PressesAreTold`) rests on `Tells`, which fixes what was told of a press by
  what the press is: one that has only begun still has the arena it opened
  (`Fresh`), one that slid has a drag that won (`Slid`), one that was long has
  beaten its drag (`HeldLong`), one in a pinch has no drag left (`Pinching`).
  `TapWaits` says what a tap leaves that waits: an arena it holds and, if it is
  `LeftAlone`, with only itself and the double tap in it, so that whoever
  settles it makes it win. The exceptions are those of the properties,
  `LongIsOwn`, `LeftAlone` and the pinch of a long press, each a difference of
  section 6: without any one of them TLC finds the property violated on the
  checked screen.

Model-checked only: `TreeInv`, `ChangesReachTheTree`, `HandleIsNotAStranger` and
`MovedKeepState`, because `ElementTree` is written with recursive operators,
which the prover cannot be given; all liveness, `TypedIsShown` among it, and the
fairness halves of the refinements.

## 6. Known differences without a run

Seen while modelling, each at a place the checked configurations leave out or
the properties except. The quotes are the code's own.

Executor, calls and messages

* `task.rs:138` rounds the delay of a delayed drain down to microseconds while
  `Sleep` keeps the full `Instant`, so a drain may find a sleep not yet due and
  ask for no other (534-542). The sleep then stays until a drain comes for
  another reason, which nothing promises, against 552: "It will not be missed;
  it may be late". The run has such sleeps (`MicroTicks = 2`), and
  `TimerCovered` and `SleepersWake` except them.
* `task::detach` (347-352) orders itself after `services::detach` so that a task
  "learns the platform is gone", but the woken task is dropped unpolled
  (370-371), since `rf_app_destroy` drains nothing in between.
* A handler that removes itself in its first message leaves the rest of the
  drained buffer to be dropped one by one (`services/mod.rs:573-576`, 406-407).
* A message fed in by the handler of a drained message overtakes the rest of
  the queue (`services/mod.rs:607` against 585-586).
* An executor without a poster makes progress only in frames, and a wake asks
  for none (`HasPoster = FALSE`).

Images

* A decode that ends between the two looks of one frame (`app.rs:796` and
  1156) is filed by the second, so nothing is pending and nothing asks for a
  frame (`painting.rs:1426` against 1528-1529): the placeholder stays.
* A picture larger than the cache is evicted on arrival and decoded again by
  every build (`painting.rs:1258`, 1285 against 1235-1238).

Gestures

* A long press tells only its own region that the highlight is over
  (`gestures.rs:1509`), while it may be on a button inside it (2101), which
  stays lit (against 1506-1507). `HighlightsEnd` excepts such regions.
* A region that only wants double taps never gets one: its recogniser wins
  before the up that would hold the first tap (2656, 1685-1694 against
  858-859).
* `settle_pending_tap` discards the sweep's verdict unless the holder has an
  `on_tap` (2257) where the comment (2246-2248) promises a late tap: the tap of
  another region under the finger is lost, and that of the holder too if a pinch
  is still in the arena. `TapsAreAnswered` excepts them (`LeftAlone`).
* A second finger's first tap overwrites the pending tap of another region
  (2660).
* A pinch also takes over a press that was told as a long press, so that one
  press is two gestures (`<<"long", "pinch">>` in `Stories`); if it slid in
  between, it is told of the end of a drag that never started (2360-2371
  against 2489).
* A mouse that leaves the window tells the regions (`leave_all`), but
  `dispatch` then returns `on_cancel`'s answer, so no frame is asked for and a
  hover highlight stays until the next one (1813-1817, `app.rs` 1277-1287).

Frames and tree

* Two views of different size share one `last_size` (`app.rs:797`), so every
  frame rebuilds the whole tree twice and asks for another, against "a static UI
  costs nothing" (573-575).
* `StateHandle` says that "a frame is requested" (`framework.rs:1439-1440`);
  `mark_dirty` only sets `needs_frame`, which the end of the next build reads.
* `claim_global_key` (`framework.rs:2281`) panics though a key is used once:
  the tail scan of `update_children` ignores `GlobalKey`s (557-558), so
  `[heading, item(key)]` to `[item(key), item]` finds it live under the same
  parent; so does a keyed widget that changes type and parent in one pass
  (against 2261-2263). The checked program has neither shape, so that
  `PanicsOnlyOnDuplicates` speaks of all the others.
* An update in place leaves the registry as it is, so `current_element`
  (`framework.rs:2041`) can name an element that has another key or none, and
  `[plain, K]` to `[K]` loses K's state.

Focus

* `apply_pending_autofocus` stops at the first node while anything is focused
  (`focus.rs:1367` against 1359-1361 and the test `theatre.rs` 3324-3325).
* `focus` does not look at the trap (`focus.rs:1009-1025`): a call for a field
  of the page puts the keyboard behind the modal, though "only that node and
  its descendants are reachable" while a trap is in force (1271), which is to
  prevent "a Tab out of a dialog and into the page behind it -- which a reader
  cannot see is there" (1279-1281). Tab brings it back. `strayed` excepts it.
* A handler that focuses another node when it hears that it lost the keyboard
  leaves a `gained` behind it that comes too late (`focus.rs:1041-1046`): the
  widget shows that it has the keyboard and has it not. `overtaken` excepts it.
* A modal without fields leaves the keyboard on the page behind it
  (`apply_pending_autofocus` looks for a first stop and finds none), which is
  why `KeyboardIsWhereTheUserIs` speaks of the keyboard only while every modal
  had a field. With three modals, one that slides into the layer of another
  finds its highlight there (`slid`). Both were found by TLC with such modals.
* Unkeyed pages leave ghosts in the registry (317-318); closing the inner of
  two dialogs leaves the outer without the keyboard; a field that is remounted
  in the same pass does not ask again (2106-2111).

Text input

* A `clear` inside `on_submitted` is not told to the host (`editable.rs`
  1291-1294, 1307; `text_input.rs` 714, 922), and one inside `on_changed` is
  overwritten by the update that is under way.
* `abort_composing_` is stored unconditionally (`host_win.cc:1513` against
  929-930, 857), so the next field's first composition is cancelled.
* A field that leaves inside a callback closes nothing, since the slot is empty
  (`editable.rs` 3858-3863): its session stays open.
* Half-typed text can vanish: the update that commits it at `clearClient` is
  dropped by the id check, the underline stays, and on refocus it goes out as
  the composing range, which the next text replaces (against `host_win.cc`
  1497-1499).
* A keystroke between `setClient` and `setEditingState`, or an update that
  crosses a state, leaves the two sides with different texts
  (`text_input.rs:739`).
* The window thread checks `TakeAbort` and then edits in another critical
  section: an old composition can land in the new field; a move from
  `on_changed` sends no `clearClient`, so a composition goes on in the next
  field.
* A key verdict that arrives during a composition replaces the composed text.

Launch

* Semantics, lifecycle, accessibility features and displays set before a launch
  are stored and not replayed (`runtime_controller.cc:172` against 166-168,
  "Replay everything the platform told us"), and of the settings only the last
  payload is (against `platform.rs`, `parse_settings`: "an embedder that sends
  only platformBrightness ... must not silently reset the reader's text
  scale").
* An empty list of locales is not pushed to a running application but applies
  after a restart.
* The semantics handle and the thread-locals of focus, theatre and text input
  survive `rf_app_destroy` (against "a second app on this thread must not start
  out believing ...").

Tooltips

* Every frame's settle calls the portal's `show()` or `hide()`, which marks its
  gate dirty and asks for a frame: frames never stop while a tooltip is
  mounted, against `tooltip.rs` 463-466 ("a tooltip with nothing due does not
  keep the frame loop awake"). It hides that `last_micros` would otherwise
  count a whole idle gap in the first frame after it, and it takes a new
  z-order each time, which brings a bubble above menus that opened later.
* A cancelled long press leaves its bubble up: `tooltip.rs` (about 590) has no
  `on_pointer_cancel`; so does a press that becomes a pinch.
* A host replaced by another with its id, while its old element is still
  parked (`framework.rs:2922`), is disposed after the new one registered and
  removes the new one's entry; that tooltip never shows.

## 7. Not modelled

* Tickers and animation objects, the navigator's history, snack bars, undo,
  restoration and the free-standing recognizers: sequential objects with no
  other actor, called by their unit tests and here and there by the gallery. A
  wrong result needs one call and a test of it, not an interleaving. What of
  them meets frames (advance, modals, deadlines, delays) is in `FrameLoop`,
  `Focus`, `Gestures` and `Tooltips`.
* Layout, painting, text shaping, semantics trees and the widget library:
  computations on floating-point geometry with no protocol, out of a model
  checker's reach. They are most of the repository's lines.
* Codecs and the contents of system channels: encodings; their delivery is
  modelled.
* The engine's graphics code, the hosts but for text input, the command line,
  examples and bindings: upstream code, declarations and glue.
* Of the modelled components: debug assertions, the second-source pauses of the
  vsync waiter, resubmitted frames of platform views, lost surfaces, raw
  listeners, trackpads, scroll signals and velocities, and what section 3
  leaves out of each. `PROJECT.json` gives the rest.
