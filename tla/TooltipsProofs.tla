--------------------------- MODULE TooltipsProofs ---------------------------
(***************************************************************************)
(* Proofs about the tooltips: for any set of them, any trigger and any     *)
(* delays, a mouse opens one bubble at a time and what it holds open will  *)
(* hear it leave (TooltipsInv), and no delay ends early (DelaysAreKept).   *)
(*                                                                         *)
(* The first needs the invariant to speak of what is about to show as well *)
(* as of what is up: of both together, at most one was not pressed         *)
(* (OneRises). The second rests on frames that never stop while a tooltip  *)
(* is mounted (FramesCome), which keep every clock within an interval of   *)
(* the truth (the first conjunct of Sound).                                *)
(***************************************************************************)
EXTENDS Tooltips, TLAPS

USE TipsAssumption, PlacesAssumption, NoneAssumption, BoundsAssumption

Waits(r) == r # None /\ r.timer # None /\ r.timer.kind = "show"
Risen(r) == Up(r) \/ Waits(r)

\* A model whose clock counted k intervals less than it should have: what it
\* still has to count covers what is due, up to one interval; it waits for one
\* thing; and it waits to show only under the mouse.
Sound(r, k) ==
  r.timer # None =>
    /\ r.timer.left >= r.timer.due - 1 + k
    /\ r.status = IF r.timer.kind = "show" THEN "down" ELSE "up"
    /\ r.timer.kind = "show" => r.over

\* q raises nothing and holds nothing open that r did not.
Calmer(q, r) ==
  /\ q \in Entries
  /\ Risen(q) => Risen(r)
  /\ Waits(q) => Waits(r)
  /\ q.over => r.over
-----------------------------------------------------------------------------
(* What the operations on one tooltip do.                                  *)

\* The timers that are set are timers, and a timer is not None.
LEMMA TimerType ==
  ASSUME NEW kind \in {"show", "hide"}, NEW delay \in Nat
  PROVE  Timer(kind, delay) \in Timers /\ Timer(kind, delay) # None
BY DEF Timer, Timers

\* schedule_dismiss: nothing waits to show any more, and without a delay the
\* bubble is not up.
LEMMA Dismisses ==
  ASSUME NEW r \in Entries, NEW k \in 0..1, NEW d \in Nat
  PROVE  LET q == ScheduleDismiss(r, d)
         IN Calmer(q, r) /\ Sound(q, k) /\ ~Waits(q) /\ (d = 0 => ~Up(q)) /\ q.over = r.over
<1> DEFINE q == ScheduleDismiss(r, d)
<1>1. CASE r.status # "up"
  <2>1. q = [r EXCEPT !.timer = None]
    BY <1>1 DEF ScheduleDismiss
  <2> QED
    BY <1>1, <2>1 DEF Entries, Sound, Calmer, Risen, Waits, Up
<1>2. CASE r.status = "up" /\ d > 0
  <2>1. q = [r EXCEPT !.timer = Timer("hide", d)]
    BY <1>2 DEF ScheduleDismiss
  <2> QED
    BY <1>2, <2>1, TimerType DEF Entries, Sound, Calmer, Risen, Waits, Up, Timer
<1>3. CASE r.status = "up" /\ d = 0
  <2>1. q = [r EXCEPT !.timer = None, !.status = "out"]
    BY <1>3 DEF ScheduleDismiss
  <2> QED
    BY <1>3, <2>1 DEF Entries, Sound, Calmer, Risen, Waits, Up
<1> QED
  BY <1>1, <1>2, <1>3

\* settle brings what is on its way out down.
LEMMA Settles ==
  ASSUME NEW r \in Entries, NEW k \in 0..1, Sound(r, k)
  PROVE  /\ Calmer(Settled(r), r) /\ Sound(Settled(r), k)
         /\ Up(Settled(r)) = Up(r) /\ Settled(r).over = r.over
         /\ Settled(r).timer = r.timer
BY DEF Settled, Entries, Sound, Calmer, Risen, Waits, Up

\* show_now.
LEMMA Shows ==
  ASSUME NEW r \in Entries, NEW k \in 0..1, NEW hide \in Timers \union {None},
         hide # None => hide.kind = "hide" /\ hide.left >= hide.due - 1 + k
  PROVE  LET q == ShowNow(r, hide)
         IN q \in Entries /\ Sound(q, k) /\ Up(q) /\ ~Waits(q) /\ q.over = r.over
BY DEF ShowNow, Entries, Sound, Waits, Up

\* A mouse that enters: the bubble is up, or waits to be, and is held open.
LEMMA Enters ==
  ASSUME NEW r \in Entries, NEW k \in 0..1, Sound(r, k), NEW d \in Nat
  PROVE  LET q == Settled(ScheduleShow([r EXCEPT !.over = TRUE], d, None))
         IN q \in Entries /\ Sound(q, k) /\ q.over
<1> DEFINE o == [r EXCEPT !.over = TRUE]
<1>1. o \in Entries /\ o.over /\ o.status = r.status
  BY DEF Entries
<1>2. CASE o.status = "down" /\ d > 0
  <2> DEFINE w == [o EXCEPT !.timer = Timer("show", d)]
  <2>1. ScheduleShow(o, d, None) = w
    BY <1>2 DEF ScheduleShow
  <2>2. w \in Entries /\ w.over /\ w.status = "down" /\ w.timer = Timer("show", d)
    BY <1>1, <1>2, TimerType DEF Entries
  <2>3. Sound(w, k)
    BY <2>2 DEF Sound, Timer
  <2> HIDE DEF o, w
  <2> QED
    BY <2>1, <2>2, <2>3, Settles DEF Calmer, o
<1>3. CASE ~(o.status = "down" /\ d > 0)
  <2> DEFINE w == ShowNow(o, None)
  <2>1. ScheduleShow(o, d, None) = w
    BY <1>3 DEF ScheduleShow
  <2>2. w \in Entries /\ Sound(w, k) /\ w.over
    BY <1>1, Shows
  <2> HIDE DEF o, w
  <2> QED
    BY <2>1, <2>2, Settles DEF Calmer, o
<1> QED
  BY <1>2, <1>3

\* A mouse that leaves: the bubble is not held open, and waits for nothing but
\* to go.
LEMMA Exits ==
  ASSUME NEW t \in Tips, NEW r \in Entries, NEW k \in 0..1, Sound(r, k)
  PROVE  LET q == Settled(MouseExits(t, r))
         IN Calmer(q, r) /\ Sound(q, k) /\ ~q.over /\ ~Waits(q)
<1> DEFINE o == [r EXCEPT !.over = FALSE]
           w == MouseExits(t, r)
<1>1. Calmer(w, r) /\ Sound(w, k) /\ ~w.over /\ ~Waits(w)
  <2>1. CASE ~r.over
    <3>1. w = r
      BY <2>1 DEF MouseExits
    <3> QED
      BY <2>1, <3>1 DEF Calmer, Waits, Sound
  <2>2. CASE r.over
    <3>1. w = ScheduleDismiss(o, Linger[t]) /\ Linger[t] \in Nat
      BY <2>2 DEF MouseExits
    <3>2. o \in Entries /\ ~o.over /\ (Risen(o) => Risen(r)) /\ (Waits(o) => Waits(r))
      BY DEF Entries, Risen, Waits, Up
    <3> HIDE DEF o, w
    <3>3. Calmer(w, o) /\ Sound(w, k) /\ ~Waits(w) /\ w.over = o.over
      BY <3>1, <3>2, Dismisses
    <3> QED
      BY <3>2, <3>3 DEF Calmer
  <2> QED
    BY <2>1, <2>2 DEF Entries
<1> HIDE DEF w
<1>2. Calmer(Settled(w), w) /\ Sound(Settled(w), k) /\ Settled(w).over = w.over
  BY <1>1, Settles DEF Calmer
<1> QED
  BY <1>1, <1>2 DEF Calmer, w

\* A press that ends without a tap.
LEMMA Lifts ==
  ASSUME NEW t \in Tips, NEW r \in Entries, NEW k \in 0..1, Sound(r, k)
  PROVE  LET q == PressUp(t, r) IN Calmer(q, r) /\ Sound(q, k)
<1>1. Stay[t] \in Nat
  OBVIOUS
<1>2. CASE r.over
  BY <1>2 DEF PressUp, Calmer
<1>3. CASE ~r.over
  BY <1>1, <1>3, Dismisses DEF PressUp
<1> QED
  BY <1>2, <1>3

\* A tap that was not the trigger.
LEMMA TapsAway ==
  ASSUME NEW r \in Entries, NEW k \in 0..1, Sound(r, k)
  PROVE  LET q == TapToDismiss(r) IN Calmer(q, r) /\ Sound(q, k)
<1> DEFINE w == ScheduleDismiss(r, 0)
<1>1. Calmer(w, r) /\ Sound(w, k) /\ ~Waits(w)
  BY Dismisses
<1>2. TapToDismiss(r) = [w EXCEPT !.over = FALSE]
  BY DEF TapToDismiss
<1> HIDE DEF w
<1> QED
  BY <1>1, <1>2 DEF Calmer, Sound, Risen, Waits, Up, Entries

\* A tap or a long press that is the trigger: the bubble is up.
LEMMA Triggers ==
  ASSUME NEW r \in Entries, NEW k \in 0..1, NEW hide \in Timers \union {None},
         hide # None => hide.kind = "hide" /\ hide.left >= hide.due - 1 + k
  PROVE  LET q == Settled(ScheduleShow(r, 0, hide))
         IN q \in Entries /\ Sound(q, k) /\ Up(q) /\ ~Waits(q) /\ q.over = r.over
<1> DEFINE w == ShowNow(r, hide)
<1>1. ScheduleShow(r, 0, hide) = w
  BY DEF ScheduleShow
<1>2. w \in Entries /\ Sound(w, k) /\ Up(w) /\ ~Waits(w) /\ w.over = r.over
  BY Shows
<1> HIDE DEF w
<1>3. Calmer(Settled(w), w) /\ Sound(Settled(w), k) /\ Up(Settled(w)) = Up(w)
      /\ Settled(w).over = w.over
  BY <1>2, Settles
<1> QED
  BY <1>1, <1>2, <1>3 DEF Calmer

\* A frame hands a model what passed since the last one, k intervals at most:
\* afterwards its clock is true, and what was due later has not come.
LEMMA Advances ==
  ASSUME NEW r \in Entries, NEW k \in 0..1, Sound(r, k), NEW e \in 0..k
  PROVE  LET q == Settled(Advance(r, e))
         IN /\ Calmer(q, r) /\ Sound(q, 0)
            /\ r.timer # None /\ r.timer.due > 1 => q.timer # None
<1> DEFINE w == Advance(r, e)
<1>1. Calmer(w, r) /\ Sound(w, 0) /\ (r.timer # None /\ r.timer.due > 1 => w.timer # None)
  <2>1. CASE r.timer = None
    BY <2>1 DEF Advance, Calmer, Sound
  <2>2. CASE r.timer # None /\ r.timer.left > e
    <3>1. r.timer \in Timers
      BY <2>2 DEF Entries
    <3>2. w = [r EXCEPT !.timer.left = @ - e]
      BY <2>2 DEF Advance
    <3> DEFINE n == [r.timer EXCEPT !.left = @ - e]
    <3>3. n \in Timers /\ n.kind = r.timer.kind /\ n.due = r.timer.due /\ n.left = r.timer.left - e
      BY <2>2, <3>1 DEF Timers
    <3>4. w = [r EXCEPT !.timer = n]
      BY <3>2 DEF Entries
    <3>5. n # None
      BY <3>3
    <3> HIDE DEF n, w
    <3>6. w.timer = n /\ w.status = r.status /\ w.over = r.over /\ w \in Entries /\ w # None
      BY <3>3, <3>4 DEF Entries
    <3>7. Sound(w, 0)
      BY <2>2, <3>1, <3>3, <3>6 DEF Sound, Timers
    <3> QED
      BY <2>2, <3>3, <3>5, <3>6, <3>7 DEF Calmer, Risen, Waits, Up
  <2>3. CASE r.timer # None /\ ~(r.timer.left > e)
    <3>1. r.timer \in Timers /\ r.timer.due <= 1
      BY <2>3 DEF Entries, Sound, Timers
    <3>2. CASE r.timer.kind = "show"
      <4>1. w = ShowNow(r, None)
        BY <2>3, <3>2 DEF Advance
      <4>2. w \in Entries /\ Sound(w, 0) /\ ~Waits(w) /\ w.over = r.over
        BY <4>1, Shows
      <4> HIDE DEF w
      <4>3. Waits(r)
        BY <2>3, <3>2 DEF Waits
      <4>4. ~(r.timer.due > 1)
        BY <3>1 DEF Timers
      <4> QED
        BY <4>2, <4>3, <4>4 DEF Calmer, Risen
    <3>3. CASE r.timer.kind # "show"
      <4>1. w = [r EXCEPT !.timer = None, !.status = "out"]
        BY <2>3, <3>3 DEF Advance
      <4> HIDE DEF w
      <4>2. w \in Entries /\ w.timer = None /\ w.status = "out" /\ w.over = r.over
        BY <4>1 DEF Entries
      <4>3. ~(r.timer.due > 1)
        BY <3>1 DEF Timers
      <4> QED
        BY <4>2, <4>3 DEF Calmer, Sound, Risen, Waits, Up
    <3> QED
      BY <3>2, <3>3
  <2> QED
    BY <2>1, <2>2, <2>3
<1> HIDE DEF w
<1>2. Calmer(Settled(w), w) /\ Sound(Settled(w), 0) /\ Settled(w).timer = w.timer
  BY <1>1, Settles DEF Calmer
<1> QED
  BY <1>1, <1>2 DEF Calmer, w

\* An interval passes: what the clock had counted truly it now lacks once.
LEMMA Counts ==
  ASSUME NEW r \in Entries, Sound(r, 0)
  PROVE  Calmer(Count(r), r) /\ Sound(Count(r), 1) /\ Up(Count(r)) = Up(r)
<1>1. CASE r.timer = None
  BY <1>1 DEF Count, Calmer, Sound
<1>2. CASE r.timer # None
  <2>1. r.timer \in Timers
    BY <1>2 DEF Entries
  <2> DEFINE n == [r.timer EXCEPT !.due = IF @ = 0 THEN 0 ELSE @ - 1]
             w == Count(r)
  <2>2. n \in Timers /\ n.kind = r.timer.kind /\ n.left = r.timer.left
        /\ n.due = IF r.timer.due = 0 THEN 0 ELSE r.timer.due - 1
    BY <2>1 DEF Timers
  <2>3. w = [r EXCEPT !.timer = n]
    BY <1>2 DEF Count, Entries
  <2>4. n # None
    BY <2>2
  <2> HIDE DEF n, w
  <2>5. w.timer = n /\ w.status = r.status /\ w.over = r.over /\ w \in Entries /\ w # None
    BY <2>2, <2>3 DEF Entries
  <2>6. Sound(w, 1)
    BY <1>2, <2>1, <2>2, <2>5 DEF Sound, Timers
  <2> QED
    BY <1>2, <2>2, <2>4, <2>5, <2>6 DEF Calmer, Risen, Waits, Up, w
<1> QED
  BY <1>1, <1>2
-----------------------------------------------------------------------------
(* The inductive invariant.                                                *)

Scopes == [Tips -> Entries \union {None}]

\* A mouse is over one tooltip at most.
OneUnderMouse == \A t, u \in hovered : t = u

\* Of what is up or waits to be, one came without a press.
OneRises ==
  \A t, u \in Tips :
    Risen(scope[t]) /\ Risen(scope[u]) /\ t \notin pressed /\ u \notin pressed => t = u

PressedAreUp == \A t \in pressed : Up(scope[t])

\* While a tooltip is mounted a frame is on its way, and the last one was an
\* interval ago at most.
FramesCome == (\E t \in Tips : scope[t] # None) => frame /\ since <= 1

ClocksAreTrue == \A t \in Tips : scope[t] # None => Sound(scope[t], since)

\* A page that is to change has been marked.
PageIsMarked == want # mounted \/ again # {} => dirty /\ frame

IInv ==
  /\ TypeOK /\ NothingLeftBehind /\ HeldOpenWillHear /\ OneUnderMouse
  /\ OneRises /\ PressedAreUp /\ FramesCome /\ ClocksAreTrue /\ PageIsMarked

\* What is both sound and waits to show is not up.
LEMMA NotBoth ==
  ASSUME NEW r \in Entries, NEW k \in 0..1, Sound(r, k)
  PROVE  ~(Waits(r) /\ Up(r))
BY DEF Sound, Waits, Up

\* In every state a model that exists is an entry, sound by the interval that
\* has passed.
LEMMA Models ==
  ASSUME IInv, NEW t \in Tips, scope[t] # None
  PROVE  scope[t] \in Entries /\ since \in 0..1 /\ Sound(scope[t], since) /\ frame
BY DEF IInv, TypeOK, FramesCome, ClocksAreTrue

\* If what rises was pressed, one still rises without a press.
LEMMA StillOne ==
  ASSUME IInv, NEW extra \in SUBSET Tips,
         \A t \in Tips :
           \/ ~Risen(scope'[t])
           \/ scope[t] # None /\ Calmer(scope'[t], scope[t])
           \/ Up(scope'[t]) /\ t \in extra,
         pressed' = {t \in pressed \union extra : Up(scope'[t])}
  PROVE  OneRises' /\ PressedAreUp' /\ pressed' \in SUBSET Tips
<1>1. pressed \subseteq Tips
  BY DEF IInv, TypeOK
<1>2. ASSUME NEW t \in Tips, Risen(scope'[t]), t \notin pressed'
      PROVE  Risen(scope[t]) /\ t \notin pressed
  <2>1. scope[t] # None /\ Calmer(scope'[t], scope[t])
    BY <1>2
  <2>2. ~(Waits(scope[t]) /\ Up(scope[t]))
    BY <2>1, Models, NotBoth
  <2>3. ASSUME t \in pressed PROVE FALSE
    <3>1. Up(scope[t])
      BY <2>3 DEF IInv, PressedAreUp
    <3>2. Up(scope'[t])
      BY <1>2, <2>1, <2>2, <3>1 DEF Calmer, Risen
    <3> QED
      BY <1>2, <2>3, <3>2
  <2> QED
    BY <1>2, <2>1, <2>3 DEF Calmer
<1>3. OneRises'
  <2> SUFFICES ASSUME NEW t \in Tips, NEW u \in Tips, Risen(scope'[t]), Risen(scope'[u]),
                      t \notin pressed', u \notin pressed'
               PROVE  t = u
    BY DEF OneRises, Risen, Up, Waits
  <2> QED
    BY <1>2 DEF IInv, OneRises
<1> QED
  BY <1>1, <1>3 DEF PressedAreUp, Up

\* The same where nothing was pressed.
LEMMA StillOneCalm ==
  ASSUME IInv, NEW cancelled, Remember({}, cancelled),
         \A t \in Tips : ~Risen(scope'[t]) \/ (scope[t] # None /\ Calmer(scope'[t], scope[t]))
  PROVE  OneRises' /\ PressedAreUp' /\ pressed' \in SUBSET Tips
<1> DEFINE extra == {}
<1>1. extra \in SUBSET Tips
  OBVIOUS
<1>2. pressed' = {t \in pressed \union extra : Up(scope'[t])}
  BY DEF Remember
<1>3. \A t \in Tips :
        \/ ~Risen(scope'[t])
        \/ scope[t] # None /\ Calmer(scope'[t], scope[t])
        \/ Up(scope'[t]) /\ t \in extra
  OBVIOUS
<1> HIDE DEF extra
<1> QED
  BY <1>1, <1>2, <1>3, StillOne

\* What input does not disturb: it leaves the page, the stage and the clock
\* alone, and takes back no mark and no frame.
LEMMA Undisturbed ==
  ASSUME IInv, UNCHANGED <<pageVars, staged, since>>, frame => frame', dirty => dirty',
         scope' \in Scopes,
         \A t \in Tips : scope[t] = None => scope'[t] = None,
         \A t \in Tips : scope'[t] # None => Sound(scope'[t], since)
  PROVE  NothingLeftBehind' /\ FramesCome' /\ ClocksAreTrue' /\ PageIsMarked'
<1>1. NothingLeftBehind'
  BY DEF IInv, NothingLeftBehind, pageVars
<1>2. FramesCome'
  BY DEF IInv, FramesCome
<1>3. ClocksAreTrue'
  BY DEF ClocksAreTrue, Sound
<1>4. PageIsMarked'
  BY DEF IInv, PageIsMarked, pageVars
<1> QED
  BY <1>1, <1>2, <1>3, <1>4

\* Leave: those that hear of it are not held open, and nothing rises.
LEMMA Leaves ==
  ASSUME IInv, NEW gone \in SUBSET Tips
  PROVE  LET s == Leave(scope, gone)
         IN /\ s \in Scopes
            /\ \A t \in Tips :
                 /\ s[t] = None <=> scope[t] = None
                 /\ s[t] # None => Calmer(s[t], scope[t]) /\ Sound(s[t], since)
                 /\ t \in gone \ deaf /\ s[t] # None => ~s[t].over /\ ~Waits(s[t])
<1> DEFINE s == Leave(scope, gone)
<1>1. ASSUME NEW t \in Tips
      PROVE  /\ s[t] \in Entries \union {None} /\ (s[t] = None <=> scope[t] = None)
             /\ s[t] # None => Calmer(s[t], scope[t]) /\ Sound(s[t], since)
             /\ t \in gone \ deaf /\ s[t] # None => ~s[t].over /\ ~Waits(s[t])
  <2>1. CASE scope[t] = None
    BY <2>1 DEF Leave
  <2>2. CASE scope[t] # None /\ t \in gone \ deaf
    <3>1. s[t] = Settled(MouseExits(t, scope[t]))
      BY <2>2 DEF Leave
    <3>2. Calmer(s[t], scope[t]) /\ Sound(s[t], since) /\ ~s[t].over /\ ~Waits(s[t])
      BY <2>2, <3>1, Models, Exits
    <3> QED
      BY <2>2, <3>2 DEF Calmer
  <2>3. CASE scope[t] # None /\ t \notin gone \ deaf
    <3>1. s[t] = scope[t]
      BY <2>3 DEF Leave
    <3> QED
      BY <2>3, <3>1, Models DEF Calmer
  <2> QED
    BY <2>1, <2>2, <2>3
<1>2. s \in Scopes
  BY <1>1 DEF Leave, Scopes
<1> QED
  BY <1>1, <1>2
-----------------------------------------------------------------------------
(* The steps.                                                              *)

\* Nothing is held open or waits to show once what the mouse was over has been
\* told that it left.
LEMMA AllLeft ==
  ASSUME IInv
  PROVE  \A t \in Tips : LET q == Leave(scope, hovered)[t]
                          IN q # None => ~q.over /\ ~Waits(q)
<1> SUFFICES ASSUME NEW t \in Tips, Leave(scope, hovered)[t] # None
             PROVE  LET q == Leave(scope, hovered)[t] IN ~q.over /\ ~Waits(q)
  OBVIOUS
<1> DEFINE q == Leave(scope, hovered)[t]
<1>1. hovered \in SUBSET Tips
  BY DEF IInv, TypeOK
<1>2. scope[t] # None /\ Calmer(q, scope[t])
      /\ (t \in hovered \ deaf => ~q.over /\ ~Waits(q))
  BY <1>1, Leaves
<1>3. CASE t \in hovered \ deaf
  BY <1>2, <1>3
<1>4. CASE t \notin hovered \ deaf
  <2>1. ~scope[t].over
    BY <1>2, <1>4 DEF IInv, HeldOpenWillHear
  <2>2. ~Waits(scope[t])
    BY <1>2, <2>1, Models DEF Sound, Waits
  <2> QED
    BY <1>2, <2>1, <2>2 DEF Calmer, Entries
<1> QED
  BY <1>3, <1>4

\* Enter, after all that were held open have been told: of the others none
\* rises.
LEMMA EntersAlone ==
  ASSUME IInv, NEW s \in Scopes, NEW place \in Tips,
         \A t \in Tips : s[t] = None <=> scope[t] = None,
         \A t \in Tips : s[t] # None => Sound(s[t], since) /\ ~s[t].over /\ ~Waits(s[t])
  PROVE  LET q == Enter(s, place)
         IN /\ q \in Scopes
            /\ \A t \in Tips :
                 /\ q[t] = None <=> scope[t] = None
                 /\ q[t] # None => Sound(q[t], since)
                 /\ t # place => ~Risen(q[t]) /\ (q[t] # None => ~q[t].over)
<1> DEFINE q == Enter(s, place)
           others == {u \in Tips \ {place} : Showing(s[u]) /\ ~s[u].over}
           delay == IF others # {} THEN 0 ELSE Wait[place]
<1>1. delay \in Nat
  OBVIOUS
<1>2. \A t \in Tips : q[t] = IF t \in others THEN ScheduleDismiss(s[t], 0)
                             ELSE IF t = place /\ s[place] # None
                             THEN Settled(ScheduleShow([s[place] EXCEPT !.over = TRUE], delay, None))
                             ELSE s[t]
  BY DEF Enter
<1> HIDE DEF delay
<1>3. ASSUME NEW t \in Tips
      PROVE  /\ q[t] \in Entries \union {None} /\ (q[t] = None <=> scope[t] = None)
             /\ q[t] # None => Sound(q[t], since)
             /\ t # place => ~Risen(q[t]) /\ (q[t] # None => ~q[t].over)
  <2>1. CASE s[t] = None
    <3>1. q[t] = None
      BY <1>2, <2>1 DEF Showing
    <3> QED
      BY <2>1, <3>1 DEF Risen, Up, Waits
  <2>2. CASE s[t] # None
    <3>1. s[t] \in Entries /\ scope[t] # None /\ since \in 0..1 /\ Sound(s[t], since)
          /\ ~s[t].over /\ ~Waits(s[t])
      BY <2>2, Models DEF Scopes
    <3>2. CASE t \in others
      <4>1. q[t] = ScheduleDismiss(s[t], 0) /\ t # place
        BY <1>2, <3>2
      <4>2. Calmer(q[t], s[t]) /\ Sound(q[t], since) /\ ~Waits(q[t]) /\ ~Up(q[t])
            /\ q[t].over = s[t].over
        BY <3>1, <4>1, Dismisses
      <4> QED
        BY <3>1, <4>1, <4>2 DEF Calmer, Risen
    <3>3. CASE t = place
      <4>1. q[t] = Settled(ScheduleShow([s[t] EXCEPT !.over = TRUE], delay, None))
        BY <1>2, <2>2, <3>3
      <4>2. q[t] \in Entries /\ Sound(q[t], since)
        BY <1>1, <3>1, <4>1, Enters
      <4> QED
        BY <3>1, <3>3, <4>2
    <3>4. CASE t \notin others /\ t # place
      <4>1. q[t] = s[t]
        BY <1>2, <3>4
      <4>2. ~Up(s[t])
        BY <3>1, <3>4 DEF Showing, Up
      <4> QED
        BY <3>1, <4>1, <4>2 DEF Risen
    <3> QED
      BY <3>2, <3>3, <3>4
  <2> QED
    BY <2>1, <2>2
<1>4. q \in Scopes
  BY <1>3 DEF Enter, Scopes
<1> QED
  BY <1>3, <1>4

LEMMA StepMouseMoves ==
  ASSUME IInv, NEW place \in Tips \union {Elsewhere}, MouseMoves(place)
  PROVE  IInv'
<1> DEFINE under == {place} \intersect mounted
           gone == hovered \ under
           s == Leave(scope, gone)
<1>1. hovered \in SUBSET Tips /\ mounted \in SUBSET Tips /\ gone \in SUBSET Tips
  BY DEF IInv, TypeOK
<1>2. /\ scope' = IF under \subseteq hovered THEN s ELSE Enter(s, place)
      /\ hovered' = under /\ deaf' = {} /\ mouse' = place
      /\ (dirty => dirty') /\ (frame => frame')
      /\ UNCHANGED <<pageVars, staged, press, since>>
      /\ Input /\ Remember({}, {})
  BY DEF MouseMoves
<1>3. dirty' \in BOOLEAN /\ frame' \in BOOLEAN
  BY DEF MouseMoves, IInv, TypeOK, Awaits
<1>4. /\ s \in Scopes
      /\ \A t \in Tips :
           /\ s[t] = None <=> scope[t] = None
           /\ s[t] # None => Calmer(s[t], scope[t]) /\ Sound(s[t], since)
           /\ t \in gone \ deaf /\ s[t] # None => ~s[t].over /\ ~Waits(s[t])
  BY <1>1, Leaves
<1> HIDE DEF s
<1>5. /\ scope' \in Scopes
      /\ \A t \in Tips : scope'[t] # None => scope[t] # None /\ Sound(scope'[t], since)
      /\ HeldOpenWillHear' /\ OneRises' /\ PressedAreUp' /\ pressed' \in SUBSET Tips
  <2>1. CASE under \subseteq hovered
    <3>1. scope' = s
      BY <1>2, <2>1
    <3>2. HeldOpenWillHear'
      BY <1>1, <1>2, <1>4, <3>1 DEF HeldOpenWillHear, IInv, Calmer
    <3>3. OneRises' /\ PressedAreUp' /\ pressed' \in SUBSET Tips
      <4>1. \A t \in Tips : ~Risen(scope'[t]) \/ (scope[t] # None /\ Calmer(scope'[t], scope[t]))
        BY <1>4, <3>1 DEF Risen, Up, Waits
      <4>2. Remember({}, {})
        BY <1>2
      <4> QED
        BY <4>1, <4>2, StillOneCalm
    <3> QED
      BY <1>4, <3>1, <3>2, <3>3
  <2>2. CASE ~(under \subseteq hovered)
    <3>1. place \in Tips /\ gone = hovered /\ place \in under
      BY <1>1, <2>2
    <3>2. \A t \in Tips : s[t] # None => Sound(s[t], since) /\ ~s[t].over /\ ~Waits(s[t])
      BY <1>4, <3>1, AllLeft DEF s
    <3> DEFINE q == Enter(s, place)
    <3>3. scope' = q
      BY <1>2, <2>2
    <3>4. /\ q \in Scopes
          /\ \A t \in Tips :
               /\ q[t] = None <=> scope[t] = None
               /\ q[t] # None => Sound(q[t], since)
               /\ t # place => ~Risen(q[t]) /\ (q[t] # None => ~q[t].over)
      BY <1>4, <3>1, <3>2, EntersAlone
    <3> HIDE DEF q
    <3>5. HeldOpenWillHear'
      BY <1>2, <3>1, <3>3, <3>4 DEF HeldOpenWillHear
    <3>6. \A t \in Tips : Risen(scope'[t]) => t = place
      BY <3>3, <3>4
    <3>7. OneRises'
      BY <3>6 DEF OneRises, Risen, Up, Waits
    <3>8. PressedAreUp' /\ pressed' \in SUBSET Tips
      BY <1>2 DEF Remember, PressedAreUp, Up, IInv, TypeOK
    <3> QED
      BY <3>3, <3>4, <3>5, <3>7, <3>8
  <2> QED
    BY <2>1, <2>2
<1>6. NothingLeftBehind' /\ FramesCome' /\ ClocksAreTrue' /\ PageIsMarked'
  BY <1>2, <1>5, Undisturbed
<1>7. TypeOK'
  <2>1. left' \subseteq Tips
    BY <1>2 DEF Remember, IInv, TypeOK
  <2>2. inputs' \in 0..MaxInputs
    BY <1>2 DEF Input, IInv, TypeOK
  <2> QED
    BY <1>1, <1>2, <1>3, <1>5, <2>1, <2>2 DEF IInv, TypeOK, Scopes, pageVars
<1>8. OneUnderMouse'
  BY <1>2 DEF OneUnderMouse
<1> QED
  BY <1>5, <1>6, <1>7, <1>8 DEF IInv

\* The mouse is over nothing any more.
LEMMA StepLeaveAll ==
  ASSUME IInv, LeaveAll, UNCHANGED <<pageVars, staged, since>>, frame => frame',
         NEW cancelled, Remember({}, cancelled)
  PROVE  /\ NothingLeftBehind' /\ FramesCome' /\ ClocksAreTrue' /\ PageIsMarked'
         /\ HeldOpenWillHear' /\ OneUnderMouse' /\ OneRises' /\ PressedAreUp'
         /\ pressed' \in SUBSET Tips /\ scope' \in Scopes
         /\ hovered' = {} /\ deaf' = {} /\ dirty' \in BOOLEAN
<1>1. hovered \in SUBSET Tips
  BY DEF IInv, TypeOK
<1>2. scope' = Leave(scope, hovered) /\ hovered' = {} /\ deaf' = {} /\ (dirty => dirty')
  BY DEF LeaveAll
<1>3. /\ scope' \in Scopes
      /\ \A t \in Tips : scope'[t] # None => scope[t] # None /\ Calmer(scope'[t], scope[t])
                                           /\ Sound(scope'[t], since) /\ ~scope'[t].over
  BY <1>1, <1>2, Leaves, AllLeft
<1>5. \A t \in Tips : ~Risen(scope'[t]) \/ (scope[t] # None /\ Calmer(scope'[t], scope[t]))
  BY <1>3 DEF Risen, Up, Waits
<1>6. OneRises' /\ PressedAreUp' /\ pressed' \in SUBSET Tips
  BY <1>5, StillOneCalm
<1>7. NothingLeftBehind' /\ FramesCome' /\ ClocksAreTrue' /\ PageIsMarked'
  BY <1>2, <1>3, Undisturbed
<1>8. HeldOpenWillHear' /\ OneUnderMouse'
  BY <1>2, <1>3 DEF HeldOpenWillHear, OneUnderMouse
<1>9. dirty' \in BOOLEAN
  BY DEF LeaveAll, IInv, TypeOK
<1> QED
  BY <1>2, <1>3, <1>6, <1>7, <1>8, <1>9

LEMMA StepMouseLeaves ==
  ASSUME IInv, MouseLeaves
  PROVE  IInv'
<1>1. LeaveAll /\ UNCHANGED <<pageVars, staged, press, since>> /\ mouse' = Away
      /\ (frame => frame') /\ Remember({}, {}) /\ Input
  BY DEF MouseLeaves
<1>2. frame' \in BOOLEAN
  BY DEF MouseLeaves, IInv, TypeOK, Awaits
<1>3. left' \subseteq Tips /\ inputs' \in 0..MaxInputs
  BY <1>1 DEF Remember, Input, IInv, TypeOK
<1>4. TypeOK'
  BY <1>1, <1>2, <1>3, StepLeaveAll DEF IInv, TypeOK, Scopes, pageVars
<1> QED
  BY <1>1, <1>4, StepLeaveAll DEF IInv

LEMMA StepCancel ==
  ASSUME IInv, Cancel
  PROVE  IInv'
<1> DEFINE cancelled == IF press.long THEN {press.tip} ELSE {}
<1>1. LeaveAll /\ UNCHANGED <<pageVars, staged, since>> /\ press' = None
      /\ frame' = TRUE /\ Remember({}, cancelled) /\ Input
  BY DEF Cancel
<1>2. mouse' \in Tips \union {Elsewhere, Away}
  BY DEF Cancel, IInv, TypeOK
<1>3. cancelled \subseteq Tips
  BY DEF Cancel, IInv, TypeOK, Presses
<1> HIDE DEF cancelled
<1>4. left' \subseteq Tips /\ inputs' \in 0..MaxInputs
  BY <1>1, <1>3 DEF Remember, Input, IInv, TypeOK
<1>5. /\ NothingLeftBehind' /\ FramesCome' /\ ClocksAreTrue' /\ PageIsMarked'
      /\ HeldOpenWillHear' /\ OneUnderMouse' /\ OneRises' /\ PressedAreUp'
      /\ pressed' \in SUBSET Tips /\ scope' \in Scopes
      /\ hovered' = {} /\ deaf' = {} /\ dirty' \in BOOLEAN
  BY <1>1, StepLeaveAll
<1>6. TypeOK'
  BY <1>1, <1>2, <1>4, <1>5 DEF IInv, TypeOK, Scopes, pageVars
<1> QED
  BY <1>5, <1>6 DEF IInv

\* What leaves the scope and the router alone keeps what is said of them.
LEMMA Alone ==
  ASSUME IInv, UNCHANGED <<scope, hovered, deaf, ghosts, mounted, staged, since>>,
         frame => frame'
  PROVE  /\ NothingLeftBehind' /\ FramesCome' /\ ClocksAreTrue' /\ HeldOpenWillHear'
         /\ OneUnderMouse' /\ OneRises' /\ PressedAreUp'
<1> USE DEF IInv, ghosts
<1>1. NothingLeftBehind' /\ FramesCome' /\ HeldOpenWillHear' /\ OneUnderMouse'
  BY DEF NothingLeftBehind, FramesCome, HeldOpenWillHear, OneUnderMouse
<1>2. ClocksAreTrue'
  BY DEF ClocksAreTrue, Sound
<1>3. OneRises'
  BY DEF OneRises, Risen, Up, Waits
<1>4. PressedAreUp'
  BY DEF PressedAreUp, Up
<1> QED
  BY <1>1, <1>2, <1>3, <1>4

LEMMA StepDown ==
  ASSUME IInv, NEW t \in Tips, NEW byMouse \in BOOLEAN, Down(t, byMouse)
  PROVE  IInv'
<1>1. UNCHANGED <<pageVars, scope, staged, mouse, hovered, deaf, dirty, since, ghosts>>
      /\ frame' = TRUE /\ press' \in Presses
  BY DEF Down, Presses
<1>2. inputs' \in 0..MaxInputs
  BY DEF Down, Input, IInv, TypeOK
<1>3. TypeOK'
  BY <1>1, <1>2 DEF IInv, TypeOK, pageVars, ghosts
<1>4. PageIsMarked'
  BY <1>1 DEF IInv, PageIsMarked, pageVars
<1> QED
  BY <1>1, <1>3, <1>4, Alone DEF IInv, pageVars

LEMMA StepPassSlop ==
  ASSUME IInv, NEW place \in Tips \union {Elsewhere}, PassSlop(place)
  PROVE  IInv'
<1>1. UNCHANGED <<pageVars, scope, staged, hovered, deaf, dirty, since, ghosts>>
      /\ frame' = TRUE
  BY DEF PassSlop
<1>2. press' \in Presses /\ mouse' \in Tips \union {Elsewhere, Away}
  BY DEF PassSlop, Presses, IInv, TypeOK
<1>3. inputs' \in 0..MaxInputs
  BY DEF PassSlop, Input, IInv, TypeOK
<1>4. TypeOK'
  BY <1>1, <1>2, <1>3 DEF IInv, TypeOK, pageVars, ghosts
<1>5. PageIsMarked'
  BY <1>1 DEF IInv, PageIsMarked, pageVars
<1> QED
  BY <1>1, <1>4, <1>5, Alone DEF IInv, pageVars

LEMMA StepTurnPage ==
  ASSUME IInv, TurnPage
  PROVE  IInv'
<1>1. UNCHANGED <<mounted, fresh, scope, staged, mouse, hovered, deaf, press, since, ghosts>>
      /\ dirty' = TRUE /\ frame' = TRUE /\ want' \subseteq Tips /\ again' \subseteq Tips
  BY DEF TurnPage
<1>2. inputs' \in 0..MaxInputs
  BY DEF TurnPage, Input, IInv, TypeOK
<1>3. TypeOK'
  BY <1>1, <1>2 DEF IInv, TypeOK, ghosts
<1>4. PageIsMarked'
  BY <1>1 DEF PageIsMarked
<1> QED
  BY <1>1, <1>3, <1>4, Alone DEF IInv

\* Every bubble that is up is dismissed at once.
LEMMA StepEscape ==
  ASSUME IInv, Escape
  PROVE  IInv'
<1>1. /\ scope' = [t \in Tips |-> IF Showing(scope[t]) THEN ScheduleDismiss(scope[t], 0)
                                                        ELSE scope[t]]
      /\ UNCHANGED <<pageVars, staged, mouse, hovered, deaf, press, dirty, since>>
      /\ frame' = TRUE /\ Remember({}, {})
  BY DEF Escape
<1>2. ASSUME NEW t \in Tips
      PROVE  /\ scope'[t] \in Entries \union {None} /\ (scope'[t] = None <=> scope[t] = None)
             /\ scope'[t] # None => /\ Calmer(scope'[t], scope[t])
                                     /\ Sound(scope'[t], since)
  <2>1. CASE scope[t] = None
    BY <1>1, <2>1 DEF Showing
  <2>2. CASE scope[t] # None /\ Showing(scope[t])
    <3>1. scope'[t] = ScheduleDismiss(scope[t], 0)
      BY <1>1, <2>2
    <3>2. Calmer(scope'[t], scope[t]) /\ Sound(scope'[t], since)
      BY <2>2, <3>1, Models, Dismisses
    <3> QED
      BY <2>2, <3>2 DEF Calmer
  <2>3. CASE scope[t] # None /\ ~Showing(scope[t])
    <3>1. scope'[t] = scope[t]
      BY <1>1, <2>3
    <3> QED
      BY <2>3, <3>1, Models DEF Calmer
  <2> QED
    BY <2>1, <2>2, <2>3
<1>3. scope' \in Scopes
  BY <1>1, <1>2 DEF Scopes
<1>4. NothingLeftBehind' /\ FramesCome' /\ ClocksAreTrue' /\ PageIsMarked'
  BY <1>1, <1>2, <1>3, Undisturbed
<1>5. \A t \in Tips : ~Risen(scope'[t]) \/ (scope[t] # None /\ Calmer(scope'[t], scope[t]))
  BY <1>2 DEF Risen, Up, Waits
<1>6. OneRises' /\ PressedAreUp' /\ pressed' \in SUBSET Tips
  BY <1>1, <1>5, StillOneCalm
<1>7. HeldOpenWillHear' /\ OneUnderMouse'
  BY <1>1, <1>2 DEF IInv, HeldOpenWillHear, OneUnderMouse, Calmer
<1>8. left' \subseteq Tips /\ inputs' \in 0..MaxInputs
  BY <1>1 DEF Remember, Escape, Input, IInv, TypeOK
<1>9. TypeOK'
  BY <1>1, <1>3, <1>6, <1>8 DEF IInv, TypeOK, Scopes, pageVars
<1> QED
  BY <1>4, <1>6, <1>7, <1>9 DEF IInv

\* What a pointer that lifts does to its tooltip: unless it was a tap that is
\* the trigger, nothing rises.
LEMMA LiftEffect ==
  ASSUME NEW t \in Tips, NEW tapped \in BOOLEAN,
         NEW r \in Entries, NEW k \in 0..1, Sound(r, k)
  PROVE  LET q == Settled(Lift(t, tapped, r))
         IN /\ q \in Entries /\ Sound(q, k) /\ (q.over => r.over)
            /\ Calmer(q, r) \/ (Up(q) /\ tapped)
<1> DEFINE up == IF Mode[t] = "longPress" THEN Settled(PressUp(t, r)) ELSE r
           w == Lift(t, tapped, r)
<1>1. Calmer(up, r) /\ Sound(up, k)
  <2>1. CASE Mode[t] = "longPress"
    <3> DEFINE p == PressUp(t, r)
    <3>1. Calmer(p, r) /\ Sound(p, k)
      BY Lifts
    <3> HIDE DEF p
    <3>2. Calmer(Settled(p), p) /\ Sound(Settled(p), k)
      BY <3>1, Settles DEF Calmer
    <3> QED
      BY <2>1, <3>1, <3>2 DEF Calmer, p
  <2>2. CASE Mode[t] # "longPress"
    BY <2>2 DEF Calmer
  <2> QED
    BY <2>1, <2>2
<1>2. CASE ~tapped \/ Mode[t] = "longPress"
  <2>1. Calmer(w, r) /\ Sound(w, k)
    <3>1. CASE ~tapped
      BY <1>1, <3>1 DEF Lift
    <3>2. CASE tapped
      <4>1. w = TapToDismiss(up)
        BY <1>2, <3>2 DEF Lift
      <4> HIDE DEF up, w
      <4>2. Calmer(w, up) /\ Sound(w, k)
        BY <1>1, <4>1, TapsAway DEF Calmer
      <4> QED
        BY <1>1, <4>2 DEF Calmer
    <3> QED
      BY <3>1, <3>2
  <2> HIDE DEF w
  <2>2. Calmer(Settled(w), w) /\ Sound(Settled(w), k)
    BY <2>1, Settles DEF Calmer
  <2> QED
    BY <2>1, <2>2 DEF Calmer, w
<1>3. CASE tapped /\ Mode[t] # "longPress"
  <2> DEFINE hide == IF r.over THEN None ELSE Timer("hide", Stay[t])
  <2>1. w = ScheduleShow(r, 0, hide)
    BY <1>3 DEF Lift, Tap
  <2>2. hide \in Timers \union {None}
        /\ (hide # None => hide.kind = "hide" /\ hide.left >= hide.due - 1 + k)
    <3>1. Stay[t] \in Nat
      OBVIOUS
    <3> QED
      BY <3>1, TimerType DEF Timer
  <2> HIDE DEF hide
  <2>3. LET q == Settled(ScheduleShow(r, 0, hide))
        IN q \in Entries /\ Sound(q, k) /\ Up(q) /\ q.over = r.over
    BY <2>2, Triggers
  <2> HIDE DEF w
  <2> QED
    BY <1>3, <2>1, <2>3 DEF w
<1> QED
  BY <1>2, <1>3

LEMMA StepRelease ==
  ASSUME IInv, Release
  PROVE  IInv'
<1> DEFINE p == press.tip
<1>1. press \in Presses /\ p \in Tips
  BY DEF Release, IInv, TypeOK, Presses
<1>2. PICK tapped \in BOOLEAN :
        /\ scope' = IF scope[p] = None THEN scope
                    ELSE Tell(scope, p, Lift(p, tapped, scope[p]))
        /\ Remember(IF tapped THEN {p} ELSE {}, {})
  BY DEF Release
<1>3. UNCHANGED <<pageVars, staged, mouse, hovered, deaf, since>> /\ press' = None
      /\ frame' = TRUE /\ (dirty => dirty')
  BY DEF Release
<1>4. dirty' \in BOOLEAN /\ inputs' \in 0..MaxInputs
  BY <1>1 DEF Release, Input, IInv, TypeOK, Presses
<1> DEFINE extra == IF tapped THEN {p} ELSE {}
<1>5. scope \in Scopes
  BY DEF IInv, TypeOK, Scopes
<1>6. ASSUME NEW t \in Tips
      PROVE  /\ scope'[t] \in Entries \union {None} /\ (scope'[t] = None <=> scope[t] = None)
             /\ scope'[t] # None => Sound(scope'[t], since) /\ (scope'[t].over => scope[t].over)
             /\ scope[t] # None => Calmer(scope'[t], scope[t]) \/ (Up(scope'[t]) /\ t \in extra)
  <2> DEFINE w == Lift(p, tapped, scope[p])
  <2>1. CASE t = p /\ scope[p] # None /\ press.live
    <3>1. scope'[t] = Settled(w)
      BY <1>1, <1>2, <1>5, <2>1 DEF Tell, Scopes
    <3>2. /\ scope'[t] \in Entries /\ Sound(scope'[t], since) /\ (scope'[t].over => scope[t].over)
          /\ Calmer(scope'[t], scope[t]) \/ (Up(scope'[t]) /\ tapped)
      BY <1>1, <2>1, <3>1, Models, LiftEffect
    <3> QED
      BY <2>1, <3>2
  <2>2. CASE ~(t = p /\ scope[p] # None /\ press.live)
    <3>1. scope'[t] = scope[t]
      BY <1>1, <1>2, <1>5, <2>2 DEF Tell, Scopes
    <3> QED
      BY <1>5, <3>1, Models DEF Calmer, Scopes
  <2> QED
    BY <2>1, <2>2
<1>7. scope' \in Scopes
  <2>1. scope' = [t \in Tips |-> scope'[t]]
    BY <1>1, <1>2, <1>5 DEF Tell, Scopes
  <2> QED
    BY <1>6, <2>1 DEF Scopes
<1>8. NothingLeftBehind' /\ FramesCome' /\ ClocksAreTrue' /\ PageIsMarked'
  BY <1>3, <1>6, <1>7, Undisturbed
<1>9. OneRises' /\ PressedAreUp' /\ pressed' \in SUBSET Tips
  <2>1. extra \in SUBSET Tips
    BY <1>1
  <2>2. pressed' = {t \in pressed \union extra : Up(scope'[t])}
    BY <1>2 DEF Remember
  <2> HIDE DEF extra
  <2>3. \A t \in Tips :
          \/ ~Risen(scope'[t])
          \/ scope[t] # None /\ Calmer(scope'[t], scope[t])
          \/ Up(scope'[t]) /\ t \in extra
    BY <1>6 DEF Risen, Up, Waits
  <2> QED
    BY <2>1, <2>2, <2>3, StillOne
<1>10. HeldOpenWillHear' /\ OneUnderMouse'
  BY <1>3, <1>6 DEF IInv, HeldOpenWillHear, OneUnderMouse
<1>11. left' \subseteq Tips
  BY <1>2 DEF Remember, IInv, TypeOK
<1>12. TypeOK'
  BY <1>3, <1>4, <1>7, <1>9, <1>11 DEF IInv, TypeOK, Scopes, pageVars
<1> QED
  BY <1>8, <1>9, <1>10, <1>12 DEF IInv

\* Time passes only where no frame is overdue.
LEMMA StepTick ==
  ASSUME IInv, Tick
  PROVE  IInv'
<1>1. /\ since < MaxIdle /\ (frame => since = 0) /\ since' = since + 1
      /\ scope' = [t \in Tips |-> Count(scope[t])]
      /\ UNCHANGED <<pageVars, staged, mouse, hovered, deaf, press, dirty, frame, ghosts, inputs>>
  BY DEF Tick
<1>2. since \in Nat /\ since' \in 0..MaxIdle
  BY <1>1 DEF IInv, TypeOK
<1>3. ASSUME NEW t \in Tips
      PROVE  /\ scope'[t] \in Entries \union {None} /\ (scope'[t] = None <=> scope[t] = None)
             /\ scope'[t] # None => /\ Calmer(scope'[t], scope[t]) /\ Sound(scope'[t], 1)
                                     /\ since' = 1
             /\ Up(scope'[t]) = Up(scope[t])
  <2>1. CASE scope[t] = None
    BY <1>1, <2>1 DEF Count
  <2>2. CASE scope[t] # None
    <3>1. scope[t] \in Entries /\ since = 0 /\ Sound(scope[t], 0)
      BY <1>1, <2>2, Models
    <3>2. Calmer(scope'[t], scope[t]) /\ Sound(scope'[t], 1) /\ Up(scope'[t]) = Up(scope[t])
      BY <1>1, <3>1, Counts
    <3> QED
      BY <1>1, <2>2, <3>1, <3>2 DEF Calmer
  <2> QED
    BY <2>1, <2>2
<1>4. NothingLeftBehind' /\ HeldOpenWillHear' /\ OneUnderMouse' /\ PageIsMarked'
  BY <1>1, <1>3 DEF IInv, NothingLeftBehind, HeldOpenWillHear, OneUnderMouse, PageIsMarked,
                    pageVars, Calmer
<1>5. FramesCome' /\ ClocksAreTrue'
  BY <1>1, <1>3 DEF IInv, FramesCome, ClocksAreTrue, Sound
<1>6. OneRises'
  <2> SUFFICES ASSUME NEW t \in Tips, NEW u \in Tips, Risen(scope'[t]), Risen(scope'[u]),
                      t \notin pressed, u \notin pressed
               PROVE  t = u
    BY <1>1 DEF OneRises, Risen, Up, Waits, ghosts
  <2>1. Risen(scope[t]) /\ Risen(scope[u])
    <3>1. \A v \in Tips : Risen(scope'[v]) => scope'[v] # None
      BY DEF Risen, Up, Waits
    <3> QED
      BY <1>3, <3>1 DEF Calmer
  <2> QED
    BY <2>1 DEF IInv, OneRises
<1>7. PressedAreUp'
  BY <1>1, <1>3 DEF IInv, TypeOK, PressedAreUp, ghosts, Up
<1>8. TypeOK'
  BY <1>1, <1>2, <1>3 DEF IInv, TypeOK, pageVars, ghosts
<1> QED
  BY <1>4, <1>5, <1>6, <1>7, <1>8 DEF IInv

\* What the long press and the clocks of one frame make of a model.
LEMMA Frames ==
  ASSUME IInv, NEW fires \in BOOLEAN, fires => Awaits(press), NEW t \in Tips
  PROVE  LET before == IF fires THEN FireLongPress(scope) ELSE scope
             q == AdvanceAll(before)[t]
         IN /\ q = None <=> scope[t] = None
            /\ q # None =>
                 /\ q \in Entries /\ Sound(q, 0) /\ (q.over => scope[t].over)
                 /\ \/ ~Risen(q)
                    \/ Calmer(q, scope[t])
                    \/ Up(q) /\ fires /\ t = press.tip
                 /\ (press # None => press.tip # t) /\ scope[t].timer # None
                      /\ scope[t].timer.due > 1 => q.timer # None
<1> DEFINE before == IF fires THEN FireLongPress(scope) ELSE scope
           q == AdvanceAll(before)[t]
<1>1. scope \in Scopes /\ since \in Nat
  BY DEF IInv, TypeOK, Scopes
<1>2. fires => press # None /\ press \in Presses /\ press.tip \in Tips
  BY DEF Awaits, IInv, TypeOK, Presses
<1>3. /\ before[t] = None <=> scope[t] = None
      /\ scope[t] # None =>
           /\ before[t] \in Entries /\ Sound(before[t], since)
           /\ before[t].over = scope[t].over
           /\ \/ before[t] = scope[t]
              \/ ~Waits(before[t]) /\ fires /\ t = press.tip
  <2>1. CASE fires /\ t = press.tip /\ scope[t] # None /\ press.live
    <3>1. before[t] = Settled(ScheduleShow(scope[t], 0, None))
      BY <1>1, <2>1 DEF FireLongPress, Tell, Scopes
    <3>2. /\ before[t] \in Entries /\ Sound(before[t], since) /\ ~Waits(before[t])
          /\ before[t].over = scope[t].over
      BY <2>1, <3>1, Models, Triggers
    <3> QED
      BY <2>1, <3>2
  <2>2. CASE ~(fires /\ t = press.tip /\ scope[t] # None /\ press.live)
    <3>1. before[t] = scope[t]
      BY <1>1, <1>2, <2>2 DEF FireLongPress, Tell, Scopes
    <3> QED
      BY <1>1, <3>1, Models DEF Scopes
  <2> QED
    BY <2>1, <2>2
<1> HIDE DEF before
<1>4. CASE scope[t] = None
  <2>1. q = None
    BY <1>3, <1>4 DEF AdvanceAll
  <2> HIDE DEF q
  <2> QED
    BY <1>4, <2>1 DEF q, before
<1>5. CASE scope[t] # None
  <2>1. t \in mounted /\ since \in 0..1 /\ Elapsed(t) \in 0..since
    BY <1>1, <1>5, Models DEF IInv, NothingLeftBehind, Elapsed
  <2>2. q = Settled(Advance(before[t], Elapsed(t)))
    BY <1>3, <1>5, <2>1 DEF AdvanceAll
  <2> HIDE DEF q
  <2>3. /\ Calmer(q, before[t]) /\ Sound(q, 0)
        /\ before[t].timer # None /\ before[t].timer.due > 1 => q.timer # None
    BY <1>3, <1>5, <2>1, <2>2, Advances
  <2>4. \/ ~Risen(q)
        \/ Calmer(q, scope[t])
        \/ Up(q) /\ fires /\ t = press.tip
    BY <1>3, <1>5, <2>3 DEF Calmer, Risen
  <2>5. (press # None => press.tip # t) => before[t] = scope[t]
    BY <1>2, <1>3, <1>5
  <2> QED
    BY <1>3, <1>5, <2>3, <2>4, <2>5 DEF Calmer, q, before
<1> QED
  BY <1>4, <1>5

LEMMA StepFrame ==
  ASSUME IInv, Frame
  PROVE  IInv'
<1> DEFINE replaced == again \intersect mounted \intersect want
           gone == (mounted \ want) \union replaced
           new == (want \ mounted) \union replaced
<1>1. PICK fires \in {f \in BOOLEAN : f => Awaits(press)}, late \in SUBSET replaced :
        LET s == AdvanceAll(IF fires THEN FireLongPress(scope) ELSE scope)
            held == IF fires THEN [press EXCEPT !.long = TRUE] ELSE press
        IN /\ scope' = Rebuilt(s, new, (mounted \ want) \union late)
           /\ press' = IF held # None /\ held.tip \in gone
                       THEN [held EXCEPT !.live = FALSE] ELSE held
           /\ deaf' = deaf \union (hovered \intersect gone)
           /\ fresh' = new
           /\ frame' = \/ dirty \/ (fires /\ press.live) \/ Awaits(held)
                       \/ \E t \in mounted : s[t] # None
           /\ Remember(IF fires THEN {press.tip} ELSE {}, {})
  BY DEF Frame
<1> DEFINE s == AdvanceAll(IF fires THEN FireLongPress(scope) ELSE scope)
           extra == IF fires THEN {press.tip} ELSE {}
<1>2. /\ mounted' = want /\ again' = {} /\ staged' = {t \in want : Showing(scope'[t])}
      /\ dirty' = FALSE /\ since' = 0 /\ UNCHANGED <<want, mouse, hovered, inputs>>
  BY DEF Frame
<1>3. fires => press # None /\ press \in Presses /\ press.tip \in Tips /\ press.live \in BOOLEAN
  BY DEF Awaits, IInv, TypeOK, Presses
<1>4. want \subseteq Tips /\ mounted \subseteq Tips /\ replaced \subseteq Tips
      /\ dirty \in BOOLEAN
  BY DEF IInv, TypeOK
<1>5. ASSUME NEW t \in Tips
      PROVE  /\ s[t] = None <=> scope[t] = None
             /\ s[t] # None =>
                  /\ s[t] \in Entries /\ Sound(s[t], 0) /\ (s[t].over => scope[t].over)
                  /\ \/ ~Risen(s[t])
                     \/ Calmer(s[t], scope[t])
                     \/ Up(s[t]) /\ t \in extra
  BY Frames
<1>6. scope' = Rebuilt(s, new, (mounted \ want) \union late)
  BY <1>1
<1>7. frame' \in BOOLEAN /\ (dirty \/ (\E t \in mounted : s[t] # None) => frame')
  BY <1>1, <1>3, <1>4 DEF Awaits
<1> HIDE DEF s
<1>8. ASSUME NEW t \in Tips
      PROVE  \/ scope'[t] = None
             \/ scope'[t] = Entry /\ t \in new
             \/ scope'[t] = s[t] /\ scope[t] # None /\ t \in (mounted \intersect want) \ gone
  <2>1. t \notin mounted => s[t] = None
    BY <1>5 DEF IInv, NothingLeftBehind
  <2> QED
    BY <1>5, <1>6, <2>1 DEF Rebuilt
<1>9. Entry \in Entries /\ ~Risen(Entry) /\ ~Entry.over /\ Sound(Entry, 0)
  BY DEF Entry, Entries, Risen, Up, Waits, Sound
<1> HIDE DEF new, gone, replaced
<1>10. scope' \in Scopes
  <2>1. \A t \in Tips : scope'[t] \in Entries \union {None}
    BY <1>5, <1>8, <1>9
  <2> QED
    BY <1>6, <2>1 DEF Rebuilt, Scopes
<1>11. OneRises' /\ PressedAreUp' /\ pressed' \in SUBSET Tips
  <2>1. extra \in SUBSET Tips
    BY <1>3
  <2>2. pressed' = {t \in pressed \union extra : Up(scope'[t])}
    BY <1>1 DEF Remember
  <2> HIDE DEF extra
  <2>3. \A t \in Tips :
          \/ ~Risen(scope'[t])
          \/ scope[t] # None /\ Calmer(scope'[t], scope[t])
          \/ Up(scope'[t]) /\ t \in extra
    <3> SUFFICES ASSUME NEW t \in Tips, Risen(scope'[t])
                 PROVE  \/ scope[t] # None /\ Calmer(scope'[t], scope[t])
                        \/ Up(scope'[t]) /\ t \in extra
      OBVIOUS
    <3>1. scope'[t] # None
      BY DEF Risen, Up, Waits
    <3> QED
      BY <1>5, <1>8, <1>9, <3>1
  <2> QED
    BY <2>1, <2>2, <2>3, StillOne
<1>12. NothingLeftBehind'
  <2> SUFFICES ASSUME NEW t \in Tips, t \notin want
               PROVE  scope'[t] = None
    BY <1>2 DEF NothingLeftBehind
  <2> QED
    BY <1>8 DEF new, replaced
<1>13. HeldOpenWillHear' /\ OneUnderMouse'
  <2>1. deaf' = deaf \union (hovered \intersect gone)
    BY <1>1
  <2>2. ASSUME NEW t \in Tips, scope'[t] # None, scope'[t].over
        PROVE  t \in hovered \ deaf'
    BY <1>5, <1>8, <1>9, <2>1, <2>2 DEF IInv, HeldOpenWillHear
  <2> QED
    BY <1>2, <2>2 DEF IInv, HeldOpenWillHear, OneUnderMouse
<1>14. FramesCome'
  <2> SUFFICES ASSUME NEW t \in Tips, scope'[t] # None
               PROVE  frame'
    BY <1>2 DEF FramesCome
  <2>1. CASE t \in new
    BY <1>7, <2>1 DEF new, replaced, IInv, PageIsMarked
  <2>2. CASE t \notin new
    <3>1. t \in mounted /\ s[t] # None
      BY <1>8, <2>2
    <3> QED
      BY <1>7, <3>1
  <2> QED
    BY <2>1, <2>2
<1>15. ClocksAreTrue'
  <2>1. \A t \in Tips : scope'[t] # None => Sound(scope'[t], 0)
    BY <1>5, <1>8, <1>9
  <2> QED
    BY <1>2, <2>1 DEF ClocksAreTrue, Sound
<1>16. PageIsMarked'
  BY <1>2 DEF PageIsMarked
<1>17. TypeOK'
  <2>1. press' \in Presses \union {None}
    <3> DEFINE held == IF fires THEN [press EXCEPT !.long = TRUE] ELSE press
    <3>1. held \in Presses \union {None}
      BY <1>3 DEF IInv, TypeOK, Presses
    <3>2. press' = IF held # None /\ held.tip \in gone
                   THEN [held EXCEPT !.live = FALSE] ELSE held
      BY <1>1
    <3> HIDE DEF held
    <3> QED
      BY <3>1, <3>2 DEF Presses
  <2>2. fresh' \subseteq want /\ deaf' \subseteq hovered
    BY <1>1 DEF new, replaced, IInv, TypeOK
  <2>3. left' \subseteq Tips
    BY <1>1 DEF Remember, IInv, TypeOK
  <2>4. staged' \subseteq Tips /\ since' \in 0..MaxIdle
    BY <1>2, <1>4
  <2>5. scope' \in [Tips -> Entries \union {None}]
    BY <1>10 DEF Scopes
  <2> QED
    BY <1>2, <1>4, <1>7, <1>11, <2>1, <2>2, <2>3, <2>4, <2>5 DEF IInv, TypeOK
<1> QED
  BY <1>11, <1>12, <1>13, <1>14, <1>15, <1>16, <1>17 DEF IInv
-----------------------------------------------------------------------------
(* The theorems.                                                           *)

LEMMA Initial == Init => IInv
<1> SUFFICES ASSUME Init PROVE IInv
  OBVIOUS
<1> QED
  BY DEF Init, IInv, TypeOK, NothingLeftBehind, HeldOpenWillHear, OneUnderMouse, OneRises,
         PressedAreUp, FramesCome, ClocksAreTrue, PageIsMarked, Risen, Up, Waits

LEMMA Step == IInv /\ [Next]_vars => IInv'
<1> SUFFICES ASSUME IInv, [Next]_vars PROVE IInv'
  OBVIOUS
<1>1. CASE UNCHANGED vars
  <2>1. TypeOK' /\ PageIsMarked'
    BY <1>1 DEF IInv, TypeOK, PageIsMarked, vars, pageVars, ghosts
  <2> QED
    BY <1>1, <2>1, Alone DEF IInv, vars, pageVars
<1>2. CASE Next
  BY <1>2, StepMouseMoves, StepPassSlop, StepMouseLeaves, StepDown, StepRelease, StepCancel,
     StepEscape, StepTurnPage, StepFrame, StepTick DEF Next
<1> QED
  BY <1>1, <1>2

\* The inductive invariant holds in every state.
THEOREM Inductive == Spec => []IInv
BY Initial, Step, PTL DEF Spec

\* A mouse opens one bubble at a time and what it holds open will hear it leave;
\* a tooltip waits for one thing at a time, and one that is gone has left
\* nothing (raw_tooltip.rs, tooltip.rs, gestures.rs).
THEOREM BubblesBehave == Spec => []TooltipsInv
<1>1. IInv => TooltipsInv
  <2> SUFFICES ASSUME IInv PROVE OneThingAtATime /\ OneBubble
    BY DEF IInv, TooltipsInv
  <2>1. OneThingAtATime
    BY Models DEF OneThingAtATime, Sound
  <2>2. OneBubble
    BY DEF IInv, OneRises, OneBubble, Risen
  <2> QED
    BY <2>1, <2>2
<1> QED
  BY <1>1, Inductive, PTL

\* No delay ends before its time in a frame that leaves its tooltip alone
\* (advance in tooltip.rs, advance_ms in raw_tooltip.rs).
THEOREM DelaysLast == Spec => DelaysAreKept
<1> DEFINE Kept ==
      \A t \in Tips :
        (/\ Frame /\ t \in (mounted \intersect want) \ again
         /\ scope[t] # None /\ scope[t].timer # None /\ scope[t].timer.due > 1
         /\ (press # None => press.tip # t))
        => scope'[t] # None /\ scope'[t].timer # None
<1>1. IInv /\ [Next]_vars => [Kept]_vars
  <2> SUFFICES ASSUME IInv, NEW t \in Tips, Frame, t \in (mounted \intersect want) \ again,
                      scope[t] # None, scope[t].timer # None, scope[t].timer.due > 1,
                      press # None => press.tip # t
               PROVE  scope'[t] # None /\ scope'[t].timer # None
    BY DEF vars
  <2> DEFINE replaced == again \intersect mounted \intersect want
             new == (want \ mounted) \union replaced
  <2>1. PICK fires \in {f \in BOOLEAN : f => Awaits(press)}, late \in SUBSET replaced :
          scope' = Rebuilt(AdvanceAll(IF fires THEN FireLongPress(scope) ELSE scope), new,
                           (mounted \ want) \union late)
    BY DEF Frame
  <2> DEFINE s == AdvanceAll(IF fires THEN FireLongPress(scope) ELSE scope)
  <2>2. s[t] # None /\ s[t].timer # None
    BY Frames
  <2> HIDE DEF s
  <2>3. scope'[t] = s[t]
    BY <2>1 DEF Rebuilt, s
  <2> QED
    BY <2>2, <2>3
<1> QED
  BY <1>1, Inductive, PTL DEF Spec, DelaysAreKept
=============================================================================
