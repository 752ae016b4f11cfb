-------------------------------- MODULE Launch --------------------------------
(***************************************************************************)
(* What the embedder tells an application before it exists, while it runs, *)
(* and across restarts: the platform data a RuntimeController keeps, what  *)
(* LaunchApplication replays of it, the application instance behind the C  *)
(* ABI (app.rs) and the platform state of the UI thread (platform.rs).     *)
(* Everything here runs on the UI thread, a call at a time.                *)
(***************************************************************************)
EXTENDS Naturals

CONSTANTS
  ViewIds, Metrics,
  Members, Values,  \* the members of a settings payload, and what they may be
  Default,          \* [Members -> Values], the settings of UserSettings::default
  Lists,            \* the lists of locales that may be told
  Nameless,         \* those of them in which no locale names a language
  NoLocales,        \* the empty list
  Lifecycles,       \* the lifecycle states
  Drawing,          \* those of them for which the engine asks for a frame
  Others,           \* displays, accessibility features
  None,             \* no view, a member that is missing, no state
  MaxCalls          \* bound: how many calls the embedder makes

ASSUME LaunchAssumption ==
  /\ Default \in [Members -> Values]
  /\ None \notin Metrics \union Values \union Lifecycles
  /\ NoLocales \in Lists /\ Nameless \subseteq Lists \ {NoLocales}
  /\ Drawing \subseteq Lifecycles
  /\ MaxCalls \in Nat

VARIABLES
  told,      \* platform_data_: what the embedder said last
  running,   \* app_ is not null
  views,     \* AppInstance.views
  platform,  \* PLATFORM: the settings and locales of the UI thread
  semantics, \* PLATFORM_HANDLE: whether the platform wants a semantics tree
  lifecycle, \* the lifecycle state handed to this application, or None
  frame,     \* a frame is asked for
  drawn,     \* what the last frame of this application was drawn from, or None
  calls

launchVars == <<told, running, views, platform, semantics, lifecycle, frame, drawn, calls>>
-----------------------------------------------------------------------------
NoViews == [v \in ViewIds |-> None]
NoSettings == [s \in Members |-> None]

\* PlatformData as the shell starts with it, the settings being "{}".
NothingTold ==
  [views |-> NoViews, settings |-> NoSettings, locales |-> NoLocales,
   semantics |-> FALSE, lifecycle |-> None,
   other |-> None]

Neutral == [settings |-> Default, locales |-> NoLocales]

\* What a frame reads.
Known == [views |-> views, settings |-> platform.settings,
          locales |-> platform.locales, semantics |-> semantics]

\* parse_settings: a member that is missing, or no value, keeps what it was.
Parsed(payload, was) ==
  [s \in Members |-> IF payload[s] = None THEN was[s] ELSE payload[s]]

\* rf_app_set_locales drops a locale that names no language; PushLocales says
\* nothing of an empty list.
Pushed(list, was) ==
  CASE list = NoLocales  -> was
    [] list \in Nameless -> NoLocales
    [] OTHER             -> list

\* Mutated: the locales are not replayed.
ReplayedSettings(was) ==
  [was EXCEPT !.settings = Parsed(told.settings, @)]

\* What LaunchApplication replays onto the thread's platform state.
Replayed(was) ==
  [settings |-> Parsed(told.settings, was.settings),
   locales |-> Pushed(told.locales, was.locales)]

\* Mutated: the thread keeps the platform state of the application that goes.
AfterDestroyKept == platform

\* rf_app_destroy, if there is an application, resets the platform state.
AfterDestroy == IF running THEN Neutral ELSE platform
-----------------------------------------------------------------------------
LaunchInit ==
  /\ told = NothingTold /\ running = FALSE /\ views = NoViews
  /\ platform = Neutral /\ semantics = FALSE
  /\ lifecycle = None /\ frame = FALSE /\ drawn = None /\ calls = 0

Call == calls < MaxCalls /\ calls' = calls + 1

\* A view that exists is an error that changes nothing.
AddView(v, m) ==
  /\ Call /\ told.views[v] = None
  /\ told' = [told EXCEPT !.views[v] = m]
  /\ IF running THEN views' = [views EXCEPT ![v] = m] /\ frame' = TRUE
                ELSE UNCHANGED <<views, frame>>
  /\ UNCHANGED <<running, platform, semantics, lifecycle, drawn>>

\* The picture of the view goes with it; no frame is needed for that.
RemoveView(v) ==
  /\ Call /\ told.views[v] # None
  /\ told' = [told EXCEPT !.views[v] = None]
  /\ IF running
       THEN /\ views' = [views EXCEPT ![v] = None]
            /\ drawn' = IF drawn = None THEN None ELSE [drawn EXCEPT !.views[v] = None]
       ELSE UNCHANGED <<views, drawn>>
  /\ UNCHANGED <<running, platform, semantics, lifecycle, frame>>

\* Engine::SetViewportMetrics asks for a frame whatever becomes of the metrics.
SetViewportMetrics(v, m) ==
  /\ Call /\ frame' = TRUE
  /\ IF told.views[v] = None
       THEN UNCHANGED <<told, views>>
       ELSE /\ told' = [told EXCEPT !.views[v] = m]
            /\ views' = IF running THEN [views EXCEPT ![v] = m] ELSE views
  /\ UNCHANGED <<running, platform, semantics, lifecycle, drawn>>

SetUserSettings(payload) ==
  /\ Call
  /\ told' = [told EXCEPT !.settings = payload]
  /\ IF running
       THEN /\ platform' = [platform EXCEPT !.settings = Parsed(payload, @)]
            /\ frame' = TRUE
       ELSE UNCHANGED <<platform, frame>>
  /\ UNCHANGED <<running, views, semantics, lifecycle, drawn>>

\* Mutated: nobody asks for the frame that shows the new language.
SetLocalesOnly(list) ==
  /\ Call
  /\ told' = [told EXCEPT !.locales = list]
  /\ platform' = IF running THEN [platform EXCEPT !.locales = Pushed(list, @)]
                            ELSE platform
  /\ UNCHANGED <<running, views, semantics, lifecycle, frame, drawn>>

\* A frame only for a change.
SetLocales(list) ==
  /\ Call
  /\ told' = [told EXCEPT !.locales = list]
  /\ LET locales == Pushed(list, platform.locales)
     IN  IF running /\ locales # platform.locales
           THEN platform' = [platform EXCEPT !.locales = locales] /\ frame' = TRUE
           ELSE UNCHANGED <<platform, frame>>
  /\ UNCHANGED <<running, views, semantics, lifecycle, drawn>>

SetSemanticsEnabled(on) ==
  /\ Call
  /\ told' = [told EXCEPT !.semantics = on]
  /\ IF running THEN semantics' = on /\ frame' = TRUE
                ELSE UNCHANGED <<semantics, frame>>
  /\ UNCHANGED <<running, views, platform, lifecycle, drawn>>

\* The lifecycle message is stored and goes on to an application that runs;
\* otherwise it is dropped.
SetLifecycle(state) ==
  /\ Call
  /\ told' = [told EXCEPT !.lifecycle = state]
  /\ lifecycle' = IF running THEN state ELSE lifecycle
  /\ frame' = (frame \/ state \in Drawing)
  /\ UNCHANGED <<running, views, platform, semantics, drawn>>

\* SetDisplays, SetAccessibilityFeatures: stored, and told to nobody.
StoreOnly(x) ==
  /\ Call
  /\ told' = [told EXCEPT !.other = x]
  /\ UNCHANGED <<running, views, platform, semantics, lifecycle, frame, drawn>>

\* The frame that was asked for comes: without an application it is nothing.
BeginFrame ==
  /\ frame /\ frame' = FALSE
  /\ drawn' = IF running THEN Known ELSE drawn
  /\ UNCHANGED <<told, running, views, platform, semantics, lifecycle, calls>>

\* LaunchApplication: everything is replayed, and launch asks for the first
\* frame.
Launched(was) ==
  /\ running' = TRUE /\ frame' = TRUE
  /\ views' = told.views /\ platform' = Replayed(was)
  /\ lifecycle' = None /\ drawn' = None

\* No application: none was created, or the one created was destroyed because
\* its entry point failed.
Gone == running' = FALSE /\ views' = NoViews /\ lifecycle' = None /\ drawn' = None

\* The replay may have asked for a frame that nobody will draw.
Failed(was) ==
  /\ Gone /\ platform' = Neutral
  /\ frame' = (frame \/ told.views # NoViews \/ Replayed(was) # was)

\* Engine::Run
Launch ==
  /\ Call /\ ~running
  /\ Launched(platform) \/ Failed(platform)
  /\ UNCHANGED <<told, semantics>>

\* Engine::Restart: a controller with the same data, the old one gone, and Run.
Restart ==
  /\ Call
  /\ Launched(AfterDestroy) \/ Failed(AfterDestroy)
  /\ UNCHANGED <<told, semantics>>

\* The engine goes, and another on the same thread is told everything anew.
NewEngine ==
  /\ Call
  /\ Gone /\ platform' = AfterDestroy
  /\ told' = NothingTold /\ frame' = FALSE
  /\ UNCHANGED semantics

LaunchNext ==
  \/ \E v \in ViewIds, m \in Metrics : AddView(v, m) \/ SetViewportMetrics(v, m)
  \/ \E v \in ViewIds : RemoveView(v)
  \/ \E payload \in [Members -> Values \union {None}] : SetUserSettings(payload)
  \/ \E list \in Lists : SetLocales(list)
  \/ \E on \in BOOLEAN : SetSemanticsEnabled(on)
  \/ \E state \in Lifecycles : SetLifecycle(state)
  \/ \E x \in Others : StoreOnly(x)
  \/ BeginFrame
  \/ Launch \/ Restart \/ NewEngine

LaunchSpec == LaunchInit /\ [][LaunchNext]_launchVars
-----------------------------------------------------------------------------
Views == [ViewIds -> Metrics \union {None}]
Payloads == [Members -> Values \union {None}]
Pictures == [views : Views, settings : [Members -> Values], locales : Lists,
             semantics : BOOLEAN]

ASSUME NoneIsNoPicture == None \notin Pictures

Data == [views : Views, settings : Payloads, locales : Lists, semantics : BOOLEAN,
         lifecycle : Lifecycles \union {None}, other : Others \union {None}]

LaunchTypeOK ==
  /\ told \in Data
  /\ running \in BOOLEAN /\ views \in Views
  /\ platform \in [settings : [Members -> Values], locales : Lists]
  /\ semantics \in BOOLEAN /\ lifecycle \in Lifecycles \union {None}
  /\ frame \in BOOLEAN /\ drawn \in Pictures \union {None} /\ calls \in 0..MaxCalls

\* An application that is gone, or did not come up, leaves the next one no view,
\* no setting, no locale, no lifecycle and no picture.  It does leave the handle
\* for semantics, which rf_app_destroy does not reset and a launch does not set:
\* the next one draws by what a running one was last told, though app.rs:1622
\* would have none "start out believing the first one's platform state".
OnlySemanticsIsLeft ==
  ~running =>
    /\ Known = [views |-> NoViews, settings |-> Neutral.settings,
                locales |-> Neutral.locales, semantics |-> semantics]
    /\ lifecycle = None /\ drawn = None

\* Whenever and in whatever order the embedder said it - before the launch,
\* across failed launches and restarts - the application has the views, every
\* setting of the last payload and the last locales it was told (not of semantics:
\* that is only passed on to an application that is running).
KnowsThePlatform ==
  running =>
    /\ views = told.views
    /\ \A s \in Members : told.settings[s] # None => platform.settings[s] = told.settings[s]
    /\ told.locales # NoLocales => platform.locales = Pushed(told.locales, NoLocales)

\* What the screen shows is what the application was told, or a frame is on
\* its way: after a launch, and after each call that changed something.
ScreenIsCurrent == running /\ ~frame => drawn = Known

LaunchInv == LaunchTypeOK /\ OnlySemanticsIsLeft /\ KnowsThePlatform /\ ScreenIsCurrent
=============================================================================
