------------------------------ MODULE Gestures ------------------------------
(***************************************************************************)
(* GestureRouter: which gesture a press turns out to be (gestures.rs, and  *)
(* dispatch_pointer and rf_app_begin_frame in app.rs).                     *)
(*                                                                         *)
(* A press joins the recognisers of every region under it to an arena; the *)
(* events of the press, a second finger and the clock decide the arena.    *)
(* Only pointer events and frames move the router, and frames come only    *)
(* when they are asked for.                                                *)
(*                                                                         *)
(* Time is in ages: how long a press is down and how long a tap has        *)
(* waited, each counted no further than the code compares it.  Travel is   *)
(* one fact, whether the press has passed the slop.                        *)
(***************************************************************************)
EXTENDS Integers, Sequences, FiniteSets, SequencesExt, Lists

CONSTANTS
  Pointers,   \* fingers and mice, by pointer_id
  Regions,    \* objects with handlers
  Wants,      \* what each region has a handler for
  Paths,      \* hit-test paths, innermost first
  LongPress,  \* LONG_PRESS_TIMEOUT_MICROS
  DoubleTap,  \* DOUBLE_TAP_TIMEOUT_MICROS
  MinGap      \* DOUBLE_TAP_MIN_TIME_MICROS

Handlers == {"press", "tap", "double", "long", "secondary", "drag", "scale"}

ASSUME WantsAssumption == Wants \in [Regions -> SUBSET Handlers]
ASSUME PathsAssumption ==
  /\ Paths \subseteq Seq(Regions) \ {<<>>}
  /\ \A path \in Paths : IsInjective(path)
ASSUME TimesAssumption == {LongPress, DoubleTap, MinGap} \subseteq Nat \ {0}

NoPointer == "nobody"
NoRegion == "nowhere"

ASSUME NamesAssumption == NoPointer \notin Pointers /\ NoRegion \notin Regions

VARIABLES
  press,    \* GestureRouter::active
  arena,    \* GestureRouter::arenas
  pending,  \* GestureRouter::pending_tap
  pinch,    \* GestureRouter::scale: its two pointers
  frame,    \* a frame is requested
  told,     \* what the handlers heard of each pointer's latest press
  shown,    \* regions told they are pressed and not yet that it ended
  owed      \* taps that ended, that no handler has heard of and one should

gestureVars == <<press, arena, pending, pinch, frame, told, shown, owed>>

NoMember == [kind |-> "none", region |-> NoRegion]

NoPress == [down |-> FALSE, path |-> <<>>, button |-> "primary", past |-> FALSE,
            long |-> FALSE, second |-> FALSE, scaling |-> FALSE,
            pressed |-> FALSE, drag |-> NoRegion, winner |-> NoMember,
            dragLost |-> FALSE, age |-> 0]

NoArena == [members |-> <<>>, held |-> FALSE, sweep |-> FALSE]

NoTap == [pointer |-> NoPointer, region |-> NoRegion, up |-> 0, down |-> 0]

GestureInit ==
  /\ press = [p \in Pointers |-> NoPress]
  /\ arena = [p \in Pointers |-> NoArena]
  /\ pending = NoTap /\ pinch = {} /\ frame = FALSE
  /\ told = [p \in Pointers |-> <<>>] /\ shown = {} /\ owed = {}

(***************************************************************************)
(* Targets and members of a press                                          *)
(***************************************************************************)
Innermost(path, want) ==
  LET wanting == Only(path, {r \in Regions : want \in Wants[r]})
  IN IF wanting = <<>> THEN NoRegion ELSE Head(wanting)

\* The primary tap family joins a primary press only.
Taps(path, button) == IF button = "primary" THEN path ELSE <<>>

Double(p) == Innermost(Taps(press[p].path, press[p].button), "double")
Long(p) == Innermost(Taps(press[p].path, press[p].button), "long")

\* The recognisers a region brings: one double tap to a path.
Kinds(path, button, region) ==
  IF button = "secondary" THEN Only(<<"secondary">>, Wants[region])
  ELSE Only(<<"tap", "double", "long">>,
            {k \in Wants[region] : k = "double" => region = Innermost(path, k)})

Member(kind, region) == [kind |-> kind, region |-> region]

Family(path, button, region) ==
  [i \in DOMAIN Kinds(path, button, region) |->
     Member(Kinds(path, button, region)[i], region)]

Single(path, kind) ==
  IF Innermost(path, kind) = NoRegion THEN <<>>
  ELSE <<Member(kind, Innermost(path, kind))>>

\* open_arena: tap, double tap and long press of each region from the inside
\* out, then secondary taps, then one drag and one scale.
Members(path, button) ==
  FlattenSeq([i \in DOMAIN path |-> Family(path, button, path[i])])
  \o Single(path, "drag") \o Single(path, "scale")

(***************************************************************************)
(* The arena.  A verdict is what an operation leaves of the arena, the     *)
(* first member accepted and the kinds that were rejected: apply_verdicts  *)
(* keeps the first winner, and remembers that a drag has lost.             *)
(***************************************************************************)
Undecided(p) == [arena |-> arena[p], winner |-> press[p].winner, lost |-> {}]

Win(v, m) ==
  [arena |-> NoArena,
   winner |-> IF v.winner = NoMember THEN m ELSE v.winner,
   lost |-> v.lost \cup {x.kind : x \in Range(v.arena.members) \ {m}}]

\* Resolving a resolved arena is a no-op.
Accept(v, m) == IF v.arena.members = <<>> THEN v ELSE Win(v, m)

\* A lone survivor wins by default; an empty arena disappears.
Reject(v, m) ==
  IF v.arena.members = <<>> THEN v
  ELSE LET rest == Only(v.arena.members, Range(v.arena.members) \ {m})
           left == [v EXCEPT !.arena.members = rest, !.lost = @ \cup {m.kind}]
       IN CASE Len(rest) = 0 -> [left EXCEPT !.arena = NoArena]
            [] Len(rest) = 1 -> Win(left, Head(rest))
            [] OTHER -> left

\* One after the other, of the members that stand when it begins.
RejectAll(v, kinds) ==
  LET members == v.arena.members
      upTo[n \in 0..Len(members)] ==
        IF n = 0 THEN v
        ELSE IF members[n].kind \in kinds THEN Reject(upTo[n - 1], members[n])
             ELSE upTo[n - 1]
  IN  upTo[Len(members)]

\* The first member still standing wins, unless the arena is held.
Sweep(v) ==
  IF v.arena.members = <<>> THEN v
  ELSE IF v.arena.held THEN [v EXCEPT !.arena.sweep = TRUE]
  ELSE Win(v, Head(v.arena.members))

Has(v, kind) == \E m \in Range(v.arena.members) : m.kind = kind
The(v, kind) == CHOOSE m \in Range(v.arena.members) : m.kind = kind

\* The arena closes when the down is dispatched: a lone member has won.
Opened(path, button) ==
  LET v == [arena |-> [NoArena EXCEPT !.members = Members(path, button)],
            winner |-> NoMember, lost |-> {}]
  IN IF Len(v.arena.members) = 1 THEN Win(v, Head(v.arena.members)) ELSE v

(***************************************************************************)
(* settle_pending_tap: the double tap that held the arena wins it or gives *)
(* it up.  What arena_release answers is dropped, so that only a tap left  *)
(* alone with it is reported.                                              *)
(***************************************************************************)
Resolved(accept) ==
  LET v == [arena |-> arena[pending.pointer], winner |-> NoMember, lost |-> {}]
      m == The(v, "double")
  IN IF ~Has(v, "double") THEN v
     ELSE IF accept THEN Accept(v, m) ELSE Reject(v, m)

Released(a) == IF a.held /\ a.sweep THEN NoArena ELSE [a EXCEPT !.held = FALSE]

\* Mutated: the tap that waited is forgotten.
TellsTapNever(v) == FALSE

TellsTap(v) == v.winner.kind = "tap" /\ "tap" \in Wants[pending.region]

(* The arena, what is told and what is owed after settling, in that order. *)
Settle(accept) ==
  IF pending.pointer = NoPointer
  THEN [arena |-> arena, told |-> told, owed |-> owed]
  ELSE LET p == pending.pointer
           v == Resolved(accept)
       IN [arena |-> [arena EXCEPT ![p] = Released(v.arena)],
           told |-> IF TellsTap(v) THEN [told EXCEPT ![p] = Append(@, "tap")]
                                   ELSE told,
           owed |-> IF TellsTap(v) \/ accept THEN owed \ {p} ELSE owed]

(***************************************************************************)
(* Pointer events, each dispatched whole on the UI thread                  *)
(***************************************************************************)
\* A second tap: on the region, near, within the window that starts at the
\* first tap's lift, and not sooner than the gap after its press.
Pairs(path, button, near) ==
  /\ pending.pointer # NoPointer
  /\ pending.region \in Range(Taps(path, button))
  /\ near
  /\ pending.up <= DoubleTap
  /\ pending.down >= MinGap

\* The fingers a new press can pinch with: none while there is a pinch.
Partners(p, path) ==
  {q \in Pointers \ {p} :
     /\ pinch = {} /\ press[q].down
     /\ Innermost(path, "scale") # NoRegion
     /\ Innermost(press[q].path, "scale") = Innermost(path, "scale")}

\* end_drag_for_scale.
Pinched(pr) ==
  [pr EXCEPT !.scaling = TRUE, !.long = TRUE, !.pressed = FALSE,
             !.drag = NoRegion]

ToldOfPinch(pr, said) ==
  LET begun == IF Contains(said, "pinch") THEN said ELSE Append(said, "pinch")
  IN IF pr.past /\ pr.drag # NoRegion THEN Append(begun, "end") ELSE begun

\* Mutated: nobody is told that the press is over.
UnshownNever(p, region) == shown

\* Two pressed rows can be one region: each press is told of by itself.
Unshown(p, region) == shown \ {<<p, region>>}

Down(p, path, button, near) ==
  LET second == Pairs(path, button, near)
      settled == Settle(second)
      open == Opened(path, button)
      fresh == [NoPress EXCEPT
                  !.down = TRUE, !.path = path, !.button = button,
                  !.second = second, !.pressed = "press" \in Wants[Head(path)],
                  !.drag = Innermost(path, "drag"), !.winner = open.winner]
      pressed == [press EXCEPT ![p] = fresh]
      said == [settled.told EXCEPT ![p] = <<>>]
      lit == IF fresh.pressed THEN shown \cup {<<p, Head(path)>>} ELSE shown
  IN /\ ~press[p].down
     /\ arena' = [settled.arena EXCEPT ![p] = open.arena]
     /\ pending' = NoTap /\ owed' = settled.owed /\ frame' = TRUE
     /\ \/ /\ Partners(p, path) = {}
           /\ press' = pressed /\ told' = said /\ shown' = lit
           /\ UNCHANGED pinch
        \/ \E q \in Partners(p, path) :
             LET both == {p, q}
             IN /\ pinch' = both
                /\ press' = [x \in Pointers |->
                     IF x \in both THEN Pinched(pressed[x]) ELSE pressed[x]]
                /\ told' = [x \in Pointers |->
                     IF x \in both THEN ToldOfPinch(pressed[x], said[x])
                                   ELSE said[x]]
                /\ shown' = lit \ {<<x, Head(pressed[x].path)>> : x \in both}

TapFamily == {"tap", "secondary", "double", "long"}

\* Mutated: a drag that lost its arena is not told apart.
DragUpdatesAnyway(pr, v) == TRUE

DragUpdates(pr, v) == ~pr.dragLost /\ "drag" \notin v.lost

\* The move that passes the slop.  Later moves only update what has started.
PassSlop(p) ==
  LET pr == press[p]
      drag == Member("drag", pr.drag)
      off == RejectAll(Undecided(p), TapFamily)
      v == IF pr.drag = NoRegion THEN off ELSE Accept(off, drag)
      starts == pr.drag # NoRegion /\ v.winner.kind = "drag"
      strays == pr.drag # NoRegion /\ ~starts /\ DragUpdates(pr, v)
  IN /\ pr.down /\ ~pr.past /\ ~pr.scaling
     /\ press' = [press EXCEPT ![p] =
          [pr EXCEPT !.past = TRUE, !.pressed = FALSE, !.winner = v.winner,
                     !.dragLost = pr.dragLost \/ "drag" \in v.lost]]
     /\ arena' = [arena EXCEPT ![p] = v.arena]
     /\ shown' = Unshown(p, Head(pr.path))
     /\ told' = [told EXCEPT ![p] =
          @ \o (IF starts THEN <<"start">> ELSE <<>>)
            \o (IF strays THEN <<"update">> ELSE <<>>)]
     /\ frame' = TRUE
     /\ UNCHANGED <<pending, pinch, owed>>

\* Mutated: the other finger goes on alone.
PinchWithoutOne(p) == pinch \ {p}

\* end_scale_if_involved: the other finger stays claimed.
PinchWithout(p) == IF p \in pinch THEN {} ELSE pinch

\* A finger of a pinch leaves: what it had to say was said by the pinch.
LeavePinch(p) ==
  /\ press[p].down /\ press[p].scaling
  /\ press' = [press EXCEPT ![p] = NoPress]
  /\ pinch' = PinchWithout(p) /\ frame' = TRUE
  /\ UNCHANGED <<arena, pending, told, shown, owed>>

DragEnds(pr, v) ==
  IF pr.past /\ pr.drag # NoRegion /\ ~pr.dragLost /\ "drag" \notin v.lost
  THEN <<"end">> ELSE <<>>

Younger(age, cap) == IF age < cap THEN age ELSE cap

\* The first of what may be two taps holds the arena against the sweep.
Holds(p, v) == ~press[p].second /\ Double(p) # NoRegion /\ Has(v, "double")

\* What an ended press is told: nothing while the arena is held.
Verdict(p, v) ==
  (IF v.winner.kind \in {"tap", "secondary"} THEN <<v.winner.kind>> ELSE <<>>)
  \o (IF press[p].second THEN <<"double">> ELSE <<>>)

\* Once it is no double tap, the tap is left alone: the region that tells one
\* tap from two is the only one that wants one, and nobody pinches there.
LeftAlone(path) ==
  LET tapped == {r \in Range(path) : "tap" \in Wants[r]}
  IN  Innermost(path, "double") # NoRegion /\ tapped # {} =>
        /\ tapped = {Innermost(path, "double")}
        /\ Innermost(path, "scale") = NoRegion

Up(p) ==
  LET pr == press[p]
      still == ~pr.past /\ ~pr.long
      gone == RejectAll(Undecided(p),
                IF pr.past THEN {"long"} ELSE {"long", "drag"})
      paired == IF still /\ pr.second /\ Has(gone, "double")
                THEN Accept(gone, The(gone, "double")) ELSE gone
      holds == still /\ Holds(p, gone)
      v == Sweep([paired EXCEPT !.arena.held = @ \/ holds])
      tells == IF still /\ ~holds THEN Verdict(p, v) ELSE <<>>
      waits == still /\ tells = <<>> /\ LeftAlone(pr.path)
               /\ Innermost(Taps(pr.path, pr.button), "tap") # NoRegion
  IN /\ pr.down /\ ~pr.scaling
     /\ press' = [press EXCEPT ![p] = NoPress]
     /\ arena' = [arena EXCEPT ![p] = v.arena]
     /\ pending' = IF holds THEN [pointer |-> p, region |-> Double(p),
                                  up |-> 0,
                                  down |-> Younger(pr.age, MinGap)]
                            ELSE pending
     /\ told' = [told EXCEPT ![p] = @ \o tells \o DragEnds(pr, v)]
     /\ shown' = IF pr.pressed THEN Unshown(p, Head(pr.path)) ELSE shown
     /\ owed' = (IF holds THEN owed \ {pending.pointer} ELSE owed)
                \cup (IF waits THEN {p} ELSE {})
     /\ frame' = TRUE
     /\ UNCHANGED pinch

\* The platform takes the pointer away: everyone gives up, nothing is a tap.
Cancel(p) ==
  LET pr == press[p]
      v == RejectAll(Undecided(p), TapFamily \cup {"drag", "scale"})
  IN /\ pr.down /\ ~pr.scaling
     /\ press' = [press EXCEPT ![p] = NoPress]
     /\ arena' = [arena EXCEPT ![p] = v.arena]
     /\ told' = [told EXCEPT ![p] = @ \o DragEnds(pr, v)]
     /\ shown' = IF pr.pressed THEN Unshown(p, Head(pr.path)) ELSE shown
     /\ frame' = TRUE
     /\ UNCHANGED <<pending, pinch, owed>>

(***************************************************************************)
(* Frames and the clock                                                    *)
(***************************************************************************)
AwaitsLongPress(pr) ==
  /\ pr.down /\ ~pr.long /\ ~pr.past /\ ~pr.scaling
  /\ Innermost(Taps(pr.path, pr.button), "long") # NoRegion

\* Mutated: only the waiting tap keeps the frames coming.
AwaitsTapOnly(ps, t) == t.pointer # NoPointer /\ t.up < DoubleTap

AwaitsDeadline(ps, t) ==
  \/ \E p \in Pointers : AwaitsLongPress(ps[p])
  \/ t.pointer # NoPointer /\ t.up < DoubleTap

(* The press of p after fire_due_long_presses: if its long press is due, it *)
(* claims the arena; if it has it, the press is a long press.               *)
Claimed(p) == Accept(Undecided(p), Member("long", Long(p)))

Due ==
  {p \in Pointers : AwaitsLongPress(press[p]) /\ press[p].age >= LongPress}

Fires(p) ==
  /\ p \in Due
  /\ press[p].winner.kind = "long" \/ arena[p].members # <<>>

AfterClaim(p) ==
  [press[p] EXCEPT !.winner = Claimed(p).winner,
                   !.dragLost = @ \/ "drag" \in Claimed(p).lost,
                   !.long = Fires(p),
                   !.pressed = @ /\ ~Fires(p)]

Expired == pending.pointer # NoPointer /\ pending.up >= DoubleTap

\* rf_app_begin_frame: long presses first, then the tap that waited, then
\* whether to ask for another frame.  A frame may also come for other reasons.
Tick ==
  LET settled == Settle(FALSE)
      off == {p \in Due : Fires(p) /\ press[p].pressed}
  IN /\ press' = [p \in Pointers |->
          IF p \in Due THEN AfterClaim(p) ELSE press[p]]
     /\ arena' = [p \in Pointers |->
          IF p \in Due THEN Claimed(p).arena
          ELSE IF Expired THEN settled.arena[p] ELSE arena[p]]
     /\ pending' = IF Expired THEN NoTap ELSE pending
     /\ told' = [p \in Pointers |->
          IF Fires(p) THEN Append(told[p], "long")
          ELSE IF Expired THEN settled.told[p] ELSE told[p]]
     /\ owed' = IF Expired THEN settled.owed ELSE owed
     /\ shown' = shown \ {<<p, Long(p)>> : p \in off}
     /\ frame' = AwaitsDeadline(press', pending')
     /\ UNCHANGED pinch

Older(age, cap) == IF age < cap THEN age + 1 ELSE age

\* Time passes: each age up to the last value the code tells apart.
Clock ==
  /\ press' = [p \in Pointers |->
       IF press[p].down THEN [press[p] EXCEPT !.age = Older(@, LongPress)]
                        ELSE press[p]]
  /\ pending' = IF pending.pointer = NoPointer THEN pending
                ELSE [pending EXCEPT !.up = Older(@, DoubleTap + 1),
                                     !.down = Older(@, MinGap)]
  /\ UNCHANGED <<arena, pinch, frame, told, shown, owed>>

Pointer ==
  \E p \in Pointers :
    \/ \E path \in Paths, near \in BOOLEAN :
         \E button \in {"primary", "secondary"} : Down(p, path, button, near)
    \/ PassSlop(p) \/ Up(p) \/ Cancel(p) \/ LeavePinch(p)

GestureNext == Pointer \/ Tick \/ Clock

GestureSpec == GestureInit /\ [][GestureNext]_gestureVars

RequestedTick == frame /\ Tick

\* Time goes on and a requested frame begins; nobody has to touch anything.
GestureFairSpec == GestureSpec /\ WF_gestureVars(Clock) /\ WF_gestureVars(RequestedTick)

-----------------------------------------------------------------------------
(***************************************************************************)
(* Properties                                                              *)
(***************************************************************************)
\* The long press that a press on the region can become is its own: one of a
\* region behind it ends the press and tells nobody but that region.
LongIsOwn(region) ==
  \A path \in Paths :
    Head(path) = region => Innermost(path, "long") \in {NoRegion, region}

Recognisers == [kind : Handlers, region : Regions]

Presses ==
  [down : BOOLEAN, path : Paths \cup {<<>>}, button : {"primary", "secondary"},
   past : BOOLEAN, long : BOOLEAN, second : BOOLEAN, scaling : BOOLEAN,
   pressed : BOOLEAN, drag : Regions \cup {NoRegion},
   winner : Recognisers \cup {NoMember}, dragLost : BOOLEAN, age : 0..LongPress]

Arenas == [members : Seq(Recognisers), held : BOOLEAN, sweep : BOOLEAN]

WaitingTaps ==
  [pointer : Pointers \cup {NoPointer}, region : Regions \cup {NoRegion},
   up : 0..(DoubleTap + 1), down : 0..MinGap]

Words == {"tap", "secondary", "double", "long", "start", "update", "end", "pinch"}

(* The type of the state: an arena that is not decided is contested, and    *)
(* only a tap that waits holds one.                                         *)
GestureTypeOK ==
  /\ press \in [Pointers -> Presses]
  /\ arena \in [Pointers -> Arenas]
  /\ \A p \in Pointers :
       /\ IsInjective(arena[p].members) /\ Len(arena[p].members) # 1
       /\ arena[p].held => ~press[p].down /\ Has(Undecided(p), "double")
  /\ pending \in WaitingTaps /\ pinch \subseteq Pointers /\ frame \in BOOLEAN
  /\ told \in [Pointers -> Seq(Words)]
  /\ shown \subseteq Pointers \X Regions /\ owed \subseteq Pointers

\* A pinch takes over a drag and ends it; it takes over a long press as well,
\* which is told already.
Stories ==
  {<<>>, <<"tap">>, <<"secondary">>, <<"double">>, <<"long">>, <<"start">>,
   <<"start", "end">>, <<"pinch">>, <<"start", "pinch", "end">>,
   <<"long", "pinch">>, <<"long", "pinch", "end">>}

(* Whatever fingers and frames do, a press is reported as one gesture, unless *)
(* it is pinched after all: never a tap and a drag, never twice; a drag that  *)
(* started ends, with its press or with the pinch that takes it over.         *)
OneStory ==
  \A p \in Pointers :
    /\ told[p] \in Stories
    /\ told[p] = <<"start">> => press[p].down /\ press[p].past

(* A region that was told it is pressed is told that it is over as soon as   *)
(* the press is not a tap any more: by a slide, a long press of its own, a   *)
(* pinch, the lift or a cancel, whichever comes first.  Regions in front of  *)
(* another's long press are the exception: nobody tells them of that one.    *)
HighlightsEnd ==
  \A x \in shown : LongIsOwn(x[2]) => press[x[1]].down /\ press[x[1]].pressed

(* A tap that wanted to be told is told, or taken for half of a double tap,  *)
(* or still waits with its arena held: none gets lost, however presses and   *)
(* frames interleave.  The exceptions are a tap that another finger's first  *)
(* tap displaces, which pending_tap has no room for, and one that more than  *)
(* its region and the double tap contend for when nobody taps twice, which   *)
(* settle_pending_tap awards and does not tell.                              *)
TapsAreAnswered ==
  \A p \in owed : pending.pointer = p /\ arena[p].held

(* What becomes of a press is told, once.                                    *)
PressesAreTold == OneStory /\ TapsAreAnswered

(* A pinch is two fingers, both down and neither of them dragging, pressing  *)
(* or counting as a long press; one of them leaving ends it.                 *)
PinchHasTwoFingers ==
  pinch # {} =>
    /\ Cardinality(pinch) = 2
    /\ \A p \in pinch : /\ press[p].down /\ press[p].scaling /\ press[p].long
                        /\ ~press[p].pressed /\ press[p].drag = NoRegion

(* The state of a pinch and of what is highlighted is that of the presses.   *)
GestureInv == GestureTypeOK /\ PinchHasTwoFingers /\ HighlightsEnd

(* A press that just stays becomes a long press though nothing else asks for *)
(* a frame.                                                                  *)
LongPressFires ==
  \A p \in Pointers : AwaitsLongPress(press[p]) ~> ~AwaitsLongPress(press[p])

(* A tap does not wait forever for a second one, though nothing else asks    *)
(* for a frame.                                                              *)
PendingSettles == []<>(pending.pointer = NoPointer)

(* Both deadlines are kept though nothing else asks for a frame.             *)
DeadlinesAreKept == LongPressFires /\ PendingSettles
=============================================================================
