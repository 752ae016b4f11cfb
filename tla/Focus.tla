------------------------------- MODULE Focus -------------------------------
(***************************************************************************)
(* The keyboard's place on screen: the registry of focus nodes, the focus  *)
(* traps of modals, the autofocus requests a frame grants, and what the    *)
(* focused widget was told (focus.rs, the modals of theatre.rs, and the    *)
(* frame of app.rs that prunes, builds and grants).                        *)
(*                                                                         *)
(* The tree is what the keyboard needs of it: the page is a keyed list of  *)
(* fields, a dialog is a focus group over a list of fields.  An element is *)
(* <<layer, place>>: the page's fields keep theirs by key, an overlay      *)
(* entry has no key, so the entry shown in a layer takes over the elements *)
(* of the one it replaces there.                                           *)
(***************************************************************************)
EXTENDS Integers, FiniteSets, SequencesExt, Lists

CONSTANTS
  Fields,        \* the ids of the page's focus nodes
  Pages,         \* the lists of fields the application may build as its page
  Dialogs,       \* the modals; a dialog is also the id of its focus group
  DialogFields,  \* the fields of each dialog, in the order they are built
  Asking,        \* the fields built with autofocus
  None,          \* no node has the keyboard
  MaxMoves,      \* bound: taps, tabs and calls that move the keyboard
  MaxChanges     \* bound: pages built anew

Inside(d) == Range(DialogFields[d])
AllFields == Fields \union UNION {Inside(d) : d \in Dialogs}

ASSUME PagesAreLists ==
  \A p \in Pages : p \in Seq(Fields) /\ IsInjective(p)
ASSUME DialogsAreApart ==
  /\ \A d \in Dialogs : DialogFields[d] \in Seq(AllFields) /\ IsInjective(DialogFields[d])
  /\ \A d, e \in Dialogs : d # e => Inside(d) \intersect Inside(e) = {}
  /\ \A d \in Dialogs : Inside(d) \intersect Fields = {}
  /\ Dialogs \intersect AllFields = {} /\ None \notin Dialogs \union AllFields
ASSUME OnlyFieldsAsk == Asking \subseteq AllFields

VARIABLES
  page,        \* the page as the application wants it
  modals,      \* the modals that are up: MODALS, TRAPS and the overlay's entries
  closed,      \* the modals that were dismissed
  slid,        \* history: a modal was dismissed from under another one
  built,       \* the page and the modals of the last build
  entries,     \* FocusManager.entries: the nodes, in the order they registered
  focused,     \* FocusManager.focused
  askedTraps,  \* PENDING_AUTOFOCUS
  lit,         \* the elements whose state was last told it has the keyboard
  calls,       \* on_focus_change calls still to be made, the next one first
  strayed,     \* history: the application's own call of focus put the keyboard
               \* where it is, outside the trap in force
  overtaken,   \* history: elements that had yet to hear of a gain when another's
               \* handler moved the keyboard, and have heard of no loss since
  wake,        \* why the next frame comes: a rebuild, or only a look after one
  moves, changes

vars == <<page, modals, closed, slid, built, entries, focused, askedTraps,
          lit, calls, strayed, overtaken, wake, moves, changes>>
-----------------------------------------------------------------------------
(* What a build shows.                                                     *)

Node(id, element) == [id |-> id, element |-> element]

\* A dialog in a layer: its focus group, then its fields.
DialogNodes(d, layer) ==
  <<Node(d, <<layer, 0>>)>>
    \o [k \in DOMAIN DialogFields[d] |-> Node(DialogFields[d][k], <<layer, k>>)]

\* The focus nodes of a build, in the order they are built.
NodesOf(b) ==
  [k \in DOMAIN b.page |-> Node(b.page[k], <<0, b.page[k]>>)]
    \o FlattenSeq([layer \in DOMAIN b.modals |-> DialogNodes(b.modals[layer], layer)])

Ids(nodes) == {n.id : n \in Range(nodes)}
IsLive(element) == element \in {n.element : n \in Range(NodesOf(built))}
-----------------------------------------------------------------------------
(* The registry.                                                           *)

\* The dialog whose group a field belongs to: its only ancestor.
Group(id) == {d \in Dialogs : id \in Inside(d)}

ActiveTrap == IF modals = <<>> THEN None ELSE Last(modals)

\* Mutated: the outermost modal is the one in force.
WithinOutermostTrap(id) ==
  IF modals = <<>> THEN TRUE ELSE id = Head(modals) \/ Head(modals) \in Group(id)

WithinTrap(id) == ActiveTrap = None \/ id = ActiveTrap \/ ActiveTrap \in Group(id)

\* Mutated: an id that is known keeps the entry of its first build.
KeepFirstEntry(old, new) == old \o Only(new, {n \in Range(new) : n.id \notin Ids(old)})

\* register: an id that is known keeps its place, a new one goes last.
Register(old, new) ==
  [k \in DOMAIN old |->
     IF old[k].id \in Ids(new) THEN CHOOSE n \in Range(new) : n.id = old[k].id
                               ELSE old[k]]
    \o Only(new, {n \in Range(new) : n.id \notin Ids(old)})

\* The stops of Tab: a group stands in the page's order for its members, a
\* group itself is no stop, and a trap removes the stops outside it.
TraversalOrder(nodes) ==
  LET ids == [k \in DOMAIN nodes |-> nodes[k].id]
      Members(d) == Only(ids, Inside(d))
      Stops(id) == IF id \in Dialogs THEN Members(id)
                   ELSE IF Group(id) = {} THEN <<id>> ELSE <<>>
  IN  Only(FlattenSeq([k \in DOMAIN ids |-> Stops(ids[k])]),
           {id \in Ids(nodes) : WithinTrap(id)})

\* Mutated: the node that had the keyboard is not told.
TellTheWinnerOnly(nodes, old, new) ==
  [k \in 1..Cardinality({new} \intersect Ids(nodes) \intersect AllFields) |->
     [element |-> (CHOOSE n \in Range(nodes) : n.id = new).element, gained |-> TRUE]]

\* What a move of the keyboard from `old` to `new` tells, the loser first.  A
\* modal's group has nobody to tell.
News(nodes, old, new) ==
  LET Told(id, gained) ==
        [k \in 1..Cardinality({id} \intersect Ids(nodes) \intersect AllFields) |->
           [element |-> (CHOOSE n \in Range(nodes) : n.id = id).element,
            gained |-> gained]]
  IN  Told(old, FALSE) \o Told(new, TRUE)

\* focus(id), and unfocus() if id is None: a node that has the keyboard, and one
\* that is not registered, changes nothing; the trap in force is not looked at.
\* The handlers run next, before anything that waits.
MoveTo(id, waiting) ==
  IF id = focused \/ id \notin Ids(entries) \union {None}
    THEN focused' = focused /\ calls' = waiting
    ELSE focused' = id /\ calls' = News(entries, focused, id) \o waiting

\* What becomes of `strayed' when a move may have put the keyboard outside.
StraysIf(outside) == strayed' = IF focused' = focused THEN strayed ELSE outside

\* Mutated: a field asks again at every build.
AskAtEveryBuild(nodes, registered) ==
  Only([k \in DOMAIN nodes |-> nodes[k].id], Asking)

\* The fields that ask for the keyboard in a build, in the order they ask: those
\* of the ones built with autofocus that are not registered yet.
Asks(nodes, registered) ==
  Only([k \in DOMAIN nodes |-> nodes[k].id], Asking \ Ids(registered))

\* Mutated: a modal gets the keyboard only if nothing has it.
GrantToTheIdle(nodes, holder, nodesAsking) ==
  LET wanted == Only(nodesAsking, {id \in Asking : WithinTrap(id)})
      stops == TraversalOrder(nodes)
  IN  IF holder # None THEN holder
      ELSE IF wanted # <<>> THEN Head(wanted)
      ELSE IF ActiveTrap \in askedTraps /\ stops # <<>> THEN Head(stops) ELSE None

\* Where apply_pending_autofocus puts the keyboard: on the first node that
\* asked, if nothing has the keyboard; or in the trap in force, if it asked and
\* the keyboard is not there yet.
Granted(nodes, holder, nodesAsking) ==
  LET wanted == Only(nodesAsking, {id \in Asking : WithinTrap(id)})
      stops == TraversalOrder(nodes)
  IN  IF holder = None /\ wanted # <<>> THEN Head(wanted)
      ELSE IF ActiveTrap \in askedTraps /\ holder \notin Range(stops) /\ stops # <<>>
        THEN Head(stops)
        ELSE holder
-----------------------------------------------------------------------------
Init ==
  /\ page \in Pages
  /\ built = [page |-> <<>>, modals |-> <<>>]
  /\ modals = <<>> /\ closed = {} /\ slid = FALSE
  /\ entries = <<>> /\ focused = None
  /\ askedTraps = {}
  /\ lit = {} /\ calls = <<>> /\ strayed = FALSE /\ overtaken = {}
  /\ wake = "rebuild"
  /\ moves = 0 /\ changes = 0

\* A handler runs to its end before the next event of the view.
Idle == calls = <<>>
Moving == moves < MaxMoves /\ moves' = moves + 1

\* A tap reaches the page as it was last built, or the last modal over it; a tap
\* beside a modal's fields is a tap on its group.
Tap(id) ==
  /\ Idle /\ Moving
  /\ IF built.modals = <<>> THEN id \in Range(built.page)
                            ELSE id \in Inside(Last(built.modals)) \union {Last(built.modals)}
  /\ MoveTo(id, <<>>) /\ StraysIf(FALSE)
  /\ UNCHANGED <<page, modals, closed, slid, built, entries, askedTraps,
                 lit, overtaken, wake, changes>>

\* Tab and Shift+Tab.
Step(direction) ==
  LET stops == TraversalOrder(entries)
      at == IF focused \in Range(stops) THEN CHOOSE k \in DOMAIN stops : stops[k] = focused
            ELSE IF direction = 1 THEN 0 ELSE 1
  IN  /\ Idle /\ Moving
      /\ stops # <<>>
      /\ MoveTo(stops[((at - 1 + direction) % Len(stops)) + 1], <<>>) /\ StraysIf(FALSE)
      /\ UNCHANGED <<page, modals, closed, slid, built, entries, askedTraps,
                     lit, overtaken, wake, changes>>

\* The application calls focus, for any field.
Request(id) ==
  /\ Idle /\ Moving
  /\ MoveTo(id, <<>>) /\ StraysIf(~WithinTrap(id))
  /\ UNCHANGED <<page, modals, closed, slid, built, entries, askedTraps,
                 lit, overtaken, wake, changes>>

Unfocus ==
  /\ Idle /\ Moving
  /\ MoveTo(None, <<>>) /\ StraysIf(FALSE)
  /\ UNCHANGED <<page, modals, closed, slid, built, entries, askedTraps,
                 lit, overtaken, wake, changes>>

\* The next on_focus_change: the widget's own state hears of it, if its element
\* is still there, and the handler may move the keyboard on, whether it hears of
\* a loss or of a gain: what waits to be told then comes too late.
Tell ==
  LET news == Head(calls)
      waiting == {calls[k].element : k \in 2..Len(calls)}
      late == IF news.gained \/ news.element \in waiting THEN overtaken
                                                       ELSE overtaken \ {news.element}
  IN  /\ calls # <<>>
      /\ lit' = IF news.gained /\ IsLive(news.element) THEN lit \union {news.element}
                                                       ELSE lit \ {news.element}
      /\ wake' = IF IsLive(news.element) THEN "rebuild" ELSE wake
      /\ \/ /\ calls' = Tail(calls)
            /\ overtaken' = late
            /\ UNCHANGED <<focused, strayed, moves>>
         \/ /\ Moving
            /\ \E id \in AllFields \union {None} :
                 MoveTo(id, Tail(calls)) /\ StraysIf(~WithinTrap(id))
            /\ overtaken' = IF focused' = focused THEN late ELSE late \union waiting
      /\ UNCHANGED <<page, modals, closed, slid, built, entries, askedTraps, changes>>

\* show_modal.
Show(d) ==
  /\ Idle
  /\ d \notin Range(modals) \union closed
  /\ modals' = Append(modals, d)
  /\ askedTraps' = askedTraps \union {d}
  /\ wake' = "rebuild"
  /\ UNCHANGED <<page, closed, slid, built, entries, focused, lit, calls,
                 strayed, overtaken, moves, changes>>

\* The dismissal of a modal, by its handle, its barrier, Escape or the back
\* button: the trap, the record and the overlay's entry go together.
Dismiss(d) ==
  /\ Idle
  /\ d \in Range(modals)
  /\ modals' = Only(modals, Dialogs \ {d})
  /\ closed' = closed \union {d}
  /\ slid' = (slid \/ d # ActiveTrap)
  /\ wake' = "rebuild"
  /\ UNCHANGED <<page, built, entries, focused, askedTraps, lit, calls,
                 strayed, overtaken, moves, changes>>

ChangePage ==
  /\ Idle /\ changes < MaxChanges
  /\ \E p \in Pages \ {page} : page' = p
  /\ changes' = changes + 1
  /\ wake' = "rebuild"
  /\ UNCHANGED <<modals, closed, slid, built, entries, focused, askedTraps,
                 lit, calls, strayed, overtaken, moves>>

\* WidgetHost::build: the nodes whose elements have gone are dropped, the tree
\* is built, and the autofocus requests are granted.
Frame ==
  LET kept == Only(entries, {n \in Range(entries) : IsLive(n.element)})
      holder == IF focused \in Ids(kept) THEN focused ELSE None
      now == IF wake = "rebuild" THEN [page |-> page, modals |-> modals] ELSE built
      nodes == NodesOf(now)
      registry == IF wake = "rebuild" THEN Register(kept, nodes) ELSE kept
      winner == Granted(registry, holder, Asks(nodes, kept))
  IN  /\ Idle /\ wake # "no"
      /\ built' = now
      /\ entries' = registry
      /\ focused' = winner
      /\ calls' = IF winner = holder THEN <<>> ELSE News(registry, holder, winner)
      /\ lit' = lit \intersect {n.element : n \in Range(nodes)}
      /\ overtaken' = overtaken \intersect {n.element : n \in Range(nodes)}
      /\ StraysIf(FALSE)
      /\ askedTraps' = {}
      /\ wake' = IF wake = "rebuild" THEN "look" ELSE "no"
      /\ UNCHANGED <<page, modals, closed, slid, moves, changes>>

Next ==
  \/ \E id \in AllFields \union Dialogs : Tap(id)
  \/ \E id \in AllFields : Request(id)
  \/ \E direction \in {1, -1} : Step(direction)
  \/ Unfocus \/ Tell \/ ChangePage \/ Frame
  \/ \E d \in Dialogs : Show(d) \/ Dismiss(d)

Spec == Init /\ [][Next]_vars
-----------------------------------------------------------------------------
(* Correctness.                                                            *)

\* Nothing waits to be told and no frame is due: what the user looks at.
Settled == calls = <<>> /\ wake = "no"

\* The fields the user can use: the last modal's, or the page's.
Reachable ==
  IF modals = <<>> THEN Range(page) ELSE Inside(Last(modals))

TypeOK ==
  /\ page \in Pages
  /\ modals \in Seq(Dialogs) /\ IsInjective(modals)
  /\ closed \subseteq Dialogs \ Range(modals) /\ slid \in BOOLEAN
  /\ built.page \in Seq(Fields) /\ built.modals \in Seq(Dialogs)
  /\ Ids(entries) \subseteq AllFields \union Dialogs
  /\ focused \in AllFields \union Dialogs \union {None}
  /\ askedTraps \subseteq Dialogs
  /\ \A k \in DOMAIN calls : calls[k].gained \in BOOLEAN
  /\ strayed \in BOOLEAN
  /\ wake \in {"rebuild", "look", "no"}

\* The registry: one node an id, the keyboard only ever on a registered node,
\* and every focus node of the last build registered with its own element,
\* however often entries were put in each other's place (focus.rs, register,
\* focus and prune).
FocusInv ==
  /\ TypeOK
  /\ \A j, k \in DOMAIN entries : entries[j].id = entries[k].id => j = k
  /\ focused # None => focused \in Ids(entries)
  /\ Range(NodesOf(built)) \subseteq Range(entries)

\* Once the frames have settled, Tab visits exactly the fields in front of the
\* user; and the keyboard is on one of them, on their modal or nowhere: never on
\* a node that is gone, never on the page behind a modal (focus.rs, prune,
\* trap_focus) - as long as every modal had a field to give it to, and unless the
\* application's own last move of it was out there: focus does not look at the
\* trap, which is to keep "only that node and its descendants" reachable.
KeyboardIsWhereTheUserIs ==
  Settled =>
    /\ Range(TraversalOrder(entries)) = Reachable
    /\ ~strayed /\ (\A d \in Range(modals) \union closed : Inside(d) # {})
         => focused \in Reachable \union {ActiveTrap, None}

\* The elements of the field that has the keyboard; and those of a set whose
\* state is their own: the page's are told apart by their keys, a layer's only as
\* long as no dismissal has put a modal into another's layer.
Holding == {n.element : n \in {m \in Range(entries) : m.id = focused /\ m.id \in AllFields}}
TheirOwn(elements) == {e \in elements : slid => e[1] = 0}

\* Once the frames have settled, the focused widget shows the highlight of having
\* the keyboard, however handlers moved it on; and no other does, but for one that
\* heard of its gain after another's handler had moved the keyboard away again
\* (focus.rs, focus calls lost and then gained without looking; operable).
HighlightFollowsTheKeyboard ==
  Settled => /\ TheirOwn(Holding) \subseteq lit
             /\ TheirOwn(lit) \subseteq Holding \union overtaken

\* The frame that first builds the modal in force leaves the keyboard inside
\* it, wherever the keyboard was (theatre.rs, show_modal; focus.rs,
\* apply_pending_autofocus).
OpensWithTheKeyboard ==
  [][\A d \in Dialogs :
       (d = ActiveTrap /\ d \in Range(built'.modals) \ Range(built.modals)
          /\ Inside(d) # {})
       => focused' \in Inside(d)]_vars

\* A frame moves the keyboard only onto a field that was not on screen before
\* it, and only inside the modal in force: a field that asked once does not take
\* the keyboard back at a later build (focus.rs, autofocus_node, Focus::build).
FramesFocusOnlyTheNew ==
  [][wake' # wake /\ Idle /\ focused' \notin {focused, None}
     => focused' \notin Ids(NodesOf(built)) /\ WithinTrap(focused')]_vars

\* What a frame does with the keyboard: the modal that opens in it gets it, and
\* otherwise only a new field takes it.
FramesFocusRightly == OpensWithTheKeyboard /\ FramesFocusOnlyTheNew
=============================================================================
