------------------------------ MODULE Tooltips ------------------------------
(***************************************************************************)
(* Tooltips: the models of all of them in one scope (raw_tooltip.rs), the  *)
(* hosts that give each a clock and a portal (tooltip.rs), the mouse as    *)
(* the pointer router tracks it (gestures.rs), and the frames that count   *)
(* their delays (advance_frame in framework.rs, WidgetHost in app.rs).     *)
(*                                                                         *)
(* Time is counted in frame intervals.  A tooltip has no timer of its own: *)
(* each frame hands it the time since the last one, so its delays are only *)
(* as good as the frames.                                                  *)
(*                                                                         *)
(* The model's Forward and Completed are "up": the host finishes every     *)
(* animation at once.  Reverse is "out", which lasts from the moment a     *)
(* tooltip is dismissed by another, or by escape, to its own next frame.   *)
(* Each tooltip has a place on the page, and the mouse is over one of them *)
(* at most.                                                                *)
(***************************************************************************)
EXTENDS Integers, FiniteSets

CONSTANTS
  Tips,       \* the tooltips, by the id that is their region's and the scope's
  Mode,       \* TooltipTriggerMode of each: longPress, tap or manual
  Wait,       \* hover_delay_ms, in frame intervals
  Stay,       \* touch_delay_ms
  Linger,     \* dismiss_delay_ms
  Elsewhere,  \* a place of the page without a tooltip
  Away,       \* outside the window
  None,       \* no timer, no press, no entry in the scope
  MaxIdle,    \* bound: intervals without a frame that are told apart
  MaxInputs   \* bound: what the user and the application do

ASSUME TipsAssumption ==
  /\ Mode \in [Tips -> {"longPress", "tap", "manual"}]
  /\ Wait \in [Tips -> Nat] /\ Stay \in [Tips -> Nat] /\ Linger \in [Tips -> Nat]
ASSUME PlacesAssumption ==
  Elsewhere \notin Tips /\ Away \notin Tips \union {Elsewhere} /\ None \notin Tips

\* A timer, the model of a tooltip, and a pointer that is down.
Timers == [kind : {"show", "hide"}, left : Nat, due : Nat]
Entries == [status : {"down", "up", "out"}, timer : Timers \union {None}, over : BOOLEAN]
Presses ==
  [tip : Tips, mouse : BOOLEAN, live : BOOLEAN, slop : BOOLEAN, long : BOOLEAN]
ASSUME NoneAssumption == None \notin Timers \union Entries \union Presses

ASSUME BoundsAssumption == MaxIdle \in Nat \ {0} /\ MaxInputs \in Nat

VARIABLES
  want,     \* the tooltips the application's page has
  again,    \* those it wants in another element than they are in
  mounted,  \* the tooltips whose hosts are in the tree, and are painted
  fresh,    \* those that have not had a frame: last_micros is None
  scope,    \* SCOPE: the RawTooltipState of each, or None
  staged,   \* the bubbles that are on screen
  mouse,    \* where the mouse is
  hovered,  \* GestureRouter.hovered
  deaf,     \* those in it whose handlers are of a host that is gone
  press,    \* the pointer that is down on a tooltip, or None
  dirty,    \* something is marked for the next build
  frame,    \* a frame is asked for
  since,    \* intervals since the last frame
  pressed,  \* history: up because of a press
  left,     \* history: up because of a long press that was cancelled
  inputs    \* how many inputs there were

pageVars == <<want, again, mounted, fresh>>
ghosts == <<pressed, left>>
vars == <<pageVars, scope, staged, mouse, hovered, deaf, press, dirty, frame,
          since, ghosts, inputs>>
-----------------------------------------------------------------------------
(* The model of one tooltip.                                               *)

Timer(kind, delay) == [kind |-> kind, left |-> delay, due |-> delay]

\* RawTooltipState::new. left is what the tooltip's own clock has yet to count,
\* due what really has yet to pass.
Entry == [status |-> "down", timer |-> None, over |-> FALSE]

Showing(r) == r # None /\ r.status # "down"
Up(r) == r # None /\ r.status = "up"

\* show_now; hide is the timer of the touch delay, or None.
ShowNow(r, hide) == [r EXCEPT !.status = "up", !.timer = hide]

\* A show that waits never has a touch delay: a press does not wait.
ScheduleShow(r, delay, hide) ==
  IF r.status = "down" /\ delay > 0 THEN [r EXCEPT !.timer = Timer("show", delay)]
                                    ELSE ShowNow(r, hide)

ScheduleDismiss(r, delay) ==
  IF r.status # "up" THEN [r EXCEPT !.timer = None]
  ELSE IF delay > 0 THEN [r EXCEPT !.timer = Timer("hide", delay)]
  ELSE [r EXCEPT !.timer = None, !.status = "out"]

\* advance_ms.
Advance(r, elapsed) ==
  IF r.timer = None THEN r
  ELSE IF r.timer.left > elapsed THEN [r EXCEPT !.timer.left = @ - elapsed]
  ELSE IF r.timer.kind = "show" THEN ShowNow(r, None)
  ELSE [r EXCEPT !.timer = None, !.status = "out"]

\* settle: there is no fade, and the portal is told at once.
Settled(r) == [r EXCEPT !.status = IF @ = "out" THEN "down" ELSE @]

\* Mutated: the mouse is forgotten only when the bubble is up.
MouseExitsShown(t, r) ==
  IF ~Up(r) THEN r ELSE ScheduleDismiss([r EXCEPT !.over = FALSE], Linger[t])

MouseExits(t, r) ==
  IF ~r.over THEN r ELSE ScheduleDismiss([r EXCEPT !.over = FALSE], Linger[t])

\* handle_press_up.
PressUp(t, r) == IF r.over THEN r ELSE ScheduleDismiss(r, Stay[t])

\* handle_tap_to_dismiss.
TapToDismiss(r) == [ScheduleDismiss(r, 0) EXCEPT !.over = FALSE]

\* handle_tap.
Tap(t, r) == ScheduleShow(r, 0, IF r.over THEN None ELSE Timer("hide", Stay[t]))
-----------------------------------------------------------------------------
(* The scope of them all.                                                  *)

\* Mutated: entering a tooltip is about that tooltip only.
EnterAlone(s, t) ==
  IF s[t] = None THEN s
  ELSE [s EXCEPT ![t] = Settled(ScheduleShow([@ EXCEPT !.over = TRUE], Wait[t], None))]

\* TooltipScope::handle_mouse_enter, and the settle of the one entered: those
\* nobody holds go, and if any did there is no waiting.
Enter(s, t) ==
  LET others == {u \in Tips \ {t} : Showing(s[u]) /\ ~s[u].over}
      delay == IF others # {} THEN 0 ELSE Wait[t]
  IN [u \in Tips |->
        IF u \in others THEN ScheduleDismiss(s[u], 0)
        ELSE IF u = t /\ s[t] # None
        THEN Settled(ScheduleShow([s[t] EXCEPT !.over = TRUE], delay, None))
        ELSE s[u]]

\* The handlers that still have a host hear that the mouse has left.
Leave(s, gone) ==
  [t \in Tips |-> IF t \in gone \ deaf /\ s[t] # None
                  THEN Settled(MouseExits(t, s[t])) ELSE s[t]]

\* on_own, and settle: the tooltip of a press is told by a host that is there.
Tell(s, t, r) ==
  IF press.live /\ s[t] # None THEN [s EXCEPT ![t] = Settled(r)] ELSE s

\* What is remembered of the tooltips that are still up.
Remember(upByPress, cancelled) ==
  /\ pressed' = {t \in pressed \union upByPress : Up(scope'[t])}
  /\ left' = {t \in left \union cancelled : Up(scope'[t])}
-----------------------------------------------------------------------------
Init ==
  /\ want \in SUBSET Tips /\ again = {} /\ mounted = {} /\ fresh = {}
  /\ scope = [t \in Tips |-> None] /\ staged = {}
  /\ mouse = Elsewhere /\ hovered = {} /\ deaf = {} /\ press = None
  /\ dirty = TRUE /\ frame = TRUE /\ since = 0
  /\ pressed = {} /\ left = {} /\ inputs = 0

Input == inputs < MaxInputs /\ inputs' = inputs + 1

\* awaits_deadline: a press that may become a long one keeps frames coming.
Awaits(p) == p # None /\ ~p.long /\ ~p.slop /\ Mode[p.tip] = "longPress"

\* on_hover: what the mouse has left is told first.  A mouse that holds a button
\* down moves without hovering.
MouseMoves(place) ==
  /\ Input
  /\ press # None => ~press.mouse
  /\ mouse' = place
  /\ LET under == {place} \intersect mounted
         gone == hovered \ under
         told == under # hovered
         s == Leave(scope, gone)
     IN /\ scope' = IF under \subseteq hovered THEN s ELSE Enter(s, place)
        /\ hovered' = under /\ deaf' = {}
        /\ dirty' = (dirty \/ told)
        /\ frame' = (frame \/ told \/ Awaits(press))
  /\ Remember({}, {})
  /\ UNCHANGED <<pageVars, staged, press, since>>

\* leave_all: the mouse is over nothing.
LeaveAll ==
  /\ scope' = Leave(scope, hovered)
  /\ hovered' = {} /\ deaf' = {}
  /\ dirty' = (dirty \/ hovered # {})

\* Remove: the regions are told, but no pointer was down, so dispatch reports
\* nothing to draw.
MouseLeaves ==
  /\ Input
  /\ mouse # Away /\ (press # None => ~press.mouse)
  /\ mouse' = Away
  /\ LeaveAll
  /\ frame' = (frame \/ Awaits(press))
  /\ Remember({}, {})
  /\ UNCHANGED <<pageVars, staged, press, since>>

Down(t, byMouse) ==
  /\ Input
  /\ press = None
  /\ t \in mounted /\ Mode[t] # "manual"
  /\ byMouse => mouse = t
  /\ press' = [tip |-> t, mouse |-> byMouse, live |-> TRUE, slop |-> FALSE, long |-> FALSE]
  /\ frame' = TRUE
  /\ UNCHANGED <<pageVars, scope, staged, mouse, hovered, deaf, dirty, since, ghosts>>

\* The pointer goes too far to be a tap or a long press.
PassSlop(place) ==
  /\ Input
  /\ press # None /\ ~press.slop
  /\ press' = [press EXCEPT !.slop = TRUE]
  /\ mouse' = IF press.mouse THEN place ELSE mouse
  /\ frame' = TRUE
  /\ UNCHANGED <<pageVars, scope, staged, hovered, deaf, dirty, since, ghosts>>

\* Mutated: lifting the finger is nothing to a tooltip.
LiftIgnored(t, tapped, r) ==
  IF ~tapped THEN r ELSE IF Mode[t] = "longPress" THEN TapToDismiss(r) ELSE Tap(t, r)

\* with_pointer_up, then the tap, if the press is one the child did not take.
Lift(t, tapped, r) ==
  LET up == IF Mode[t] = "longPress" THEN Settled(PressUp(t, r)) ELSE r
  IN IF ~tapped THEN up ELSE IF Mode[t] = "longPress" THEN TapToDismiss(up) ELSE Tap(t, up)

Release ==
  /\ Input
  /\ press # None
  /\ press' = None
  /\ LET t == press.tip
     IN \E tapped \in BOOLEAN :
          /\ tapped => ~press.slop /\ ~press.long
          /\ scope' = IF scope[t] = None THEN scope
                      ELSE Tell(scope, t, Lift(t, tapped, scope[t]))
          /\ Remember(IF tapped THEN {t} ELSE {}, {})
  /\ dirty' = (dirty \/ press.live)
  /\ frame' = TRUE
  /\ UNCHANGED <<pageVars, staged, mouse, hovered, deaf, since>>

\* Cancel: the mouse, whoever was cancelled, is told to have left; the tooltip
\* is told nothing of its press.
Cancel ==
  /\ Input
  /\ press # None
  /\ press' = None
  /\ mouse' = IF press.mouse THEN Away ELSE mouse
  /\ LeaveAll
  /\ frame' = TRUE
  /\ Remember({}, IF press.long THEN {press.tip} ELSE {})
  /\ UNCHANGED <<pageVars, staged, since>>

\* Escape, dismiss_all: the hosts hear of it on their next frame.
Escape ==
  /\ Input
  /\ \E t \in Tips : Showing(scope[t])
  /\ scope' = [t \in Tips |-> IF Showing(scope[t]) THEN ScheduleDismiss(scope[t], 0)
                                                   ELSE scope[t]]
  /\ frame' = TRUE
  /\ Remember({}, {})
  /\ UNCHANGED <<pageVars, staged, mouse, hovered, deaf, press, dirty, since>>

\* A handler of the application changes the page.
TurnPage ==
  /\ Input
  /\ want' \in SUBSET Tips
  /\ again' \in SUBSET (want' \intersect mounted)
  /\ <<want', again'>> # <<want, again>>
  /\ dirty' = TRUE /\ frame' = TRUE
  /\ UNCHANGED <<mounted, fresh, scope, staged, mouse, hovered, deaf, press, since, ghosts>>
-----------------------------------------------------------------------------
(* Frames.                                                                 *)

\* Mutated: each host advances the clock of the whole scope.
ElapsedForEach(t) == IF t \in fresh THEN 0 ELSE since * Cardinality(mounted)

Elapsed(t) == IF t \in fresh THEN 0 ELSE since

\* tick: a press that is due is a long press, whoever is still there to hear it.
FireLongPress(s) ==
  IF s[press.tip] = None THEN s
  ELSE Tell(s, press.tip, ScheduleShow(s[press.tip], 0, None))

\* Mutated: only a tooltip that waits for something is settled.
SettlesTimed(s) ==
  [t \in Tips |-> IF t \in mounted /\ s[t] # None /\ s[t].timer # None
                  THEN Settled(Advance(s[t], Elapsed(t))) ELSE s[t]]

\* advance_frame: TooltipHost::advance of every host.
AdvanceAll(s) ==
  [t \in Tips |-> IF t \in mounted /\ s[t] # None
                  THEN Settled(Advance(s[t], Elapsed(t))) ELSE s[t]]

\* Mutated: dispose leaves the scope as it is.
RebuiltKeeping(s, new, gone) == [t \in Tips |-> IF t \in new THEN Entry ELSE s[t]]

\* initial_state and dispose.  An element that goes is disposed of before the
\* one in its place is made, unless a global key below it parks it, or its own
\* key left it over: then its dispose removes the entry of the new one.
Rebuilt(s, new, gone) ==
  [t \in Tips |-> IF t \in gone THEN None ELSE IF t \in new THEN Entry ELSE s[t]]

\* One frame: tick, advance, build.  Every settle tells the portal to show or to
\* hide, whether or not that is news, and the portal marks its gate.
Frame ==
  /\ frame
  /\ \E fires \in {f \in BOOLEAN : f => Awaits(press)},
        late \in SUBSET (again \intersect mounted \intersect want) :
       LET replaced == again \intersect mounted \intersect want
           gone == (mounted \ want) \union replaced
           new == (want \ mounted) \union replaced
           before == IF fires THEN FireLongPress(scope) ELSE scope
           s == AdvanceAll(before)
           held == IF fires THEN [press EXCEPT !.long = TRUE] ELSE press
       IN /\ scope' = Rebuilt(s, new, (mounted \ want) \union late)
          /\ press' = IF held # None /\ held.tip \in gone
                      THEN [held EXCEPT !.live = FALSE] ELSE held
          /\ deaf' = deaf \union (hovered \intersect gone)
          /\ fresh' = new
          /\ frame' = \/ dirty \/ (fires /\ press.live) \/ Awaits(held)
                      \/ \E t \in mounted : s[t] # None
          /\ Remember(IF fires THEN {press.tip} ELSE {}, {})
  /\ mounted' = want /\ again' = {}
  /\ staged' = {t \in want : Showing(scope'[t])}
  /\ dirty' = FALSE /\ since' = 0
  /\ UNCHANGED <<want, mouse, hovered, inputs>>

Count(r) ==
  IF r = None \/ r.timer = None THEN r
  ELSE [r EXCEPT !.timer.due = IF @ = 0 THEN 0 ELSE @ - 1]

\* A frame that is asked for comes within one interval.
Tick ==
  /\ since < MaxIdle /\ (frame => since = 0)
  /\ since' = since + 1
  /\ scope' = [t \in Tips |-> Count(scope[t])]
  /\ UNCHANGED <<pageVars, staged, mouse, hovered, deaf, press, dirty, frame, ghosts, inputs>>

Next ==
  \/ \E place \in Tips \union {Elsewhere} : MouseMoves(place) \/ PassSlop(place)
  \/ MouseLeaves
  \/ \E t \in Tips, byMouse \in BOOLEAN : Down(t, byMouse)
  \/ Release \/ Cancel \/ Escape \/ TurnPage
  \/ Frame \/ Tick

Spec == Init /\ [][Next]_vars

\* Time passes, and a frame that is asked for comes.
FairSpec == Spec /\ WF_vars(Frame) /\ WF_vars(Tick)
-----------------------------------------------------------------------------
(* Properties.                                                             *)

TypeOK ==
  /\ want \subseteq Tips /\ again \subseteq Tips /\ mounted \subseteq Tips
  /\ fresh \subseteq mounted /\ staged \subseteq Tips
  /\ scope \in [Tips -> Entries \union {None}]
  /\ mouse \in Tips \union {Elsewhere, Away}
  /\ hovered \subseteq Tips /\ deaf \subseteq hovered
  /\ press \in Presses \union {None}
  /\ dirty \in BOOLEAN /\ frame \in BOOLEAN /\ since \in 0 .. MaxIdle
  /\ pressed \subseteq Tips /\ left \subseteq Tips /\ inputs \in 0 .. MaxInputs

\* The scope and the stage outlive every tooltip, and keep none that is gone
\* (dispose; withdraw).
NothingLeftBehind ==
  \A t \in Tips \ mounted : scope[t] = None /\ t \notin staged

\* "timer must not be active when the tooltip is animating out"
\* (raw_tooltip.rs, two assertions), and one that waits to show is not showing.
OneThingAtATime ==
  \A t \in Tips : scope[t] # None /\ scope[t].timer # None =>
    scope[t].status = IF scope[t].timer.kind = "show" THEN "down" ELSE "up"

\* What a mouse holds open will hear that it has left: the router still has
\* its region, with handlers of the host that is there.
HeldOpenWillHear ==
  \A t \in Tips : scope[t] # None /\ scope[t].over => t \in hovered \ deaf

\* Of two bubbles one came by a press: a mouse never opens a second.
OneBubble ==
  \A t, u \in Tips : t # u /\ Up(scope[t]) /\ Up(scope[u]) => t \in pressed \/ u \in pressed

TooltipsInv ==
  TypeOK /\ NothingLeftBehind /\ OneThingAtATime /\ HeldOpenWillHear /\ OneBubble

\* A delay that has more than an interval to go is not over in a frame that
\* leaves its tooltip alone: the pointer rests as long as hover_delay_ms says,
\* and a bubble stays as long as touch_delay_ms and dismiss_delay_ms say.
DelaysAreKept ==
  [][\A t \in Tips :
       (/\ Frame /\ t \in (mounted \intersect want) \ again
        /\ scope[t] # None /\ scope[t].timer # None /\ scope[t].timer.due > 1
        /\ (press # None => press.tip # t))
       => scope'[t] # None /\ scope'[t].timer # None]_vars

\* A bubble goes when nobody holds it open: the mouse is not over it and no
\* pointer is down on it. Except one whose long press was cancelled.
BubblesGo ==
  \A t \in Tips :
    <>[](t \notin hovered /\ (press # None => press.tip # t) /\ t \notin left)
      => <>[](t \notin staged)
=============================================================================
