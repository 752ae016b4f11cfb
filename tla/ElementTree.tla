---------------------------- MODULE ElementTree ----------------------------
(***************************************************************************)
(* The element tree of framework.rs: reconciliation of what a program      *)
(* builds against what is mounted, with local keys, elements that move     *)
(* between parents by their GlobalKey, recycled slots and the generations  *)
(* that tell occupants apart, inherited values, and state handles held     *)
(* outside the tree.                                                       *)
(*                                                                         *)
(* A program is a set of named widgets.  What a component builds is a term *)
(* [w, kids]: a widget and, if it is a render widget, its children.  Which *)
(* term it builds is application state (content) that handlers change.     *)
(* Everything runs on the UI thread, so a rebuild is one action; what is   *)
(* hard is inside it, where elements are dropped, parked, claimed and      *)
(* released while lists that name them are being walked.                   *)
(*                                                                         *)
(* The operators take the tree T (all of ElementTree and Shared) and give  *)
(* back the tree after the call, with the element it returns as id.        *)
(***************************************************************************)
EXTENDS Integers, Sequences, FiniteSets, SequencesExt, FiniteSetsExt, Functions

CONSTANTS
  Widget,      \* name -> [type, key, global, component, provides, reads, nudges]
  Shapes,      \* component name -> the terms it may build
  Starts,      \* what the components may build at first
  Root,        \* the widget of the view
  GlobalKeys,
  NoKey,
  Handlers,    \* the components whose handle somebody outside may keep
  MaxChanges,  \* bound: how often handlers change what components build
  MaxState,    \* bound: how often the handle's set_state changes a state
  MaxThemes    \* bound: how often a new value is published

Names == DOMAIN Widget
Components == {w \in Names : Widget[w].component}
Panic == [w |-> "panic", kids |-> <<>>]
Placeholder == [w |-> "error_placeholder", kids |-> <<>>]

VARIABLES
  tree,     \* ElementTree and Shared
  content,  \* what each component builds
  theme,    \* the value the program publishes
  held,     \* a StateHandle kept outside the tree
  panicked, \* a rebuild has unwound
  changes, themes

vars == <<tree, content, theme, held, panicked, changes, themes>>

None == 0
Absent == -1
Gone == [widget |-> "gone"]
NoHandle == [id |-> None, generation |-> 0]
Exists(T, id) == id # None /\ T.nodes[id] # Gone
Ids(T) == {id \in DOMAIN T.nodes : Exists(T, id)}
Of(T, id) == Widget[T.nodes[id].widget]

Empty == [nodes |-> <<>>, free |-> <<>>, root |-> None, generations |-> <<>>,
          parents |-> <<>>, provided |-> <<>>, dependents |-> {}, dirty |-> <<>>,
          pending |-> <<>>, keys |-> [g \in GlobalKeys |-> None], inactive |-> <<>>,
          panic |-> FALSE]

----------------------------------------------------------------------------
(* What a program describes *)

\* The term a component's build returns; a panic becomes a placeholder.
Built(c) == IF content[c] = Panic THEN Placeholder ELSE content[c]

\* The whole tree a term describes: what TLC compares the mounted one with.
RECURSIVE Expand(_, _)
Expand(term, what) ==
  LET kids == IF Widget[term.w].component
                THEN <<IF what[term.w] = Panic THEN Placeholder ELSE what[term.w]>>
                ELSE term.kids
  IN [w |-> term.w, kids |-> [i \in DOMAIN kids |-> Expand(kids[i], what)]]

RECURSIVE Flat(_)
Flat(term) == <<term.w>> \o FlattenSeq([i \in DOMAIN term.kids |-> Flat(term.kids[i])])

\* Each GlobalKey is on one widget at most, as GlobalKey asks.
UsesKeysOnce(what) ==
  LET names == Flat(Expand([w |-> Root, kids |-> <<>>], what)) IN
  \A g \in GlobalKeys : Len(SelectSeq(names, LAMBDA w : Widget[w].global = g)) <= 1

ASSUME ProgramAssumption ==
  /\ "error_placeholder" \in Names \ Components /\ "panic" \notin Names
  /\ Root \in Components /\ Handlers \subseteq Components
  /\ Components = DOMAIN Shapes
  /\ \A what \in Starts : UsesKeysOnce(what) /\ \A c \in Components : what[c] \in Shapes[c]
  /\ \A w \in Names : Widget[w].global \in GlobalKeys \cup {NoKey}

----------------------------------------------------------------------------
(* Shared *)

MarkDirty(T, id) == [T EXCEPT !.dirty = IF Contains(@, id) THEN @ ELSE Append(@, id)]

ClearDependencies(T, id) ==
  [T EXCEPT !.dependents = {d \in @ : d.reader # id}]

\* The nearest element at or above id that publishes a value, by the map
\* builds walk.
RECURSIVE Lookup(_, _)
Lookup(T, id) ==
  IF id \in {None, Absent} THEN None
  ELSE IF T.provided[id] # Absent THEN id ELSE Lookup(T, T.parents[id])

Depend(T, provider, reader) ==
  [T EXCEPT !.dependents = @ \cup {[provider |-> provider, reader |-> reader]}]

\* No longer a reader, a host or scheduled.
DetachFromSharedMaps(T, id) ==
  [ClearDependencies(T, id) EXCEPT
     !.parents[id] = Absent, !.provided[id] = Absent,
     !.dependents = {d \in @ : d.provider # id},
     !.dirty = SelectSeq(@, LAMBDA d : d # id),
     !.pending = SelectSeq(@, LAMBDA d : d # id)]

----------------------------------------------------------------------------
(* Slots *)

\* A slot of the free list, last freed first, or a new one; the generation of
\* a recycled slot moves on.
Allocate(T, node) ==
  IF T.free # <<>>
    THEN LET id == Last(T.free) IN
         [id |-> id, t |-> [T EXCEPT !.free = Front(@), !.nodes[id] = node,
                                     !.generations[id] = @ + 1]]
    ELSE [id |-> Len(T.nodes) + 1,
          t |-> [T EXCEPT !.nodes = Append(@, node), !.generations = Append(@, 0),
                          !.parents = Append(@, Absent), !.provided = Append(@, Absent)]]

\* The key stops naming the element, unless it names a newer one.
Unregister(T, id) ==
  IF Exists(T, id) /\ Of(T, id).global # NoKey
       /\ T.keys[Of(T, id).global] = id
    THEN [T EXCEPT !.keys[Of(T, id).global] = None]
    ELSE T

\* Mutated: the generation moves on only when the slot is used again.
FreeUnbumped(T, id) == [DetachFromSharedMaps(T, id) EXCEPT !.free = Append(@, id)]

\* The end of a release: handles to the occupant stop resolving, the maps
\* forget it, the slot is free.
FreeSlot(T, id) ==
  [DetachFromSharedMaps([T EXCEPT !.generations[id] = @ + 1], id) EXCEPT
     !.free = Append(@, id)]

RECURSIVE Release(_, _)
Release(T, id) ==
  LET kids == IF Exists(T, id) THEN T.nodes[id].children ELSE <<>>
      taken == [Unregister(T, id) EXCEPT !.nodes[id] = Gone]
  IN FreeSlot(FoldLeft(Release, taken, kids), id)

----------------------------------------------------------------------------
(* Parking for a GlobalKey, and claiming *)

\* Mutated: only the dropped child itself is asked for a key.
RECURSIVE HasGlobalKey(_, _)
HasGlobalKey(T, id) == Exists(T, id) /\ Of(T, id).global # NoKey

RECURSIVE HasGlobalKeyInSubtree(_, _)
HasGlobalKeyInSubtree(T, id) ==
  /\ Exists(T, id)
  /\ \/ Of(T, id).global # NoKey
     \/ \E child \in Range(T.nodes[id].children) : HasGlobalKeyInSubtree(T, child)

\* Off the tree with everything below; inner parent links stay.
RECURSIVE DeactivateDescendant(_, _)
DeactivateDescendant(T, id) ==
  IF ~Exists(T, id) \/ T.nodes[id].inactive THEN T
  ELSE FoldLeft(DeactivateDescendant,
                DetachFromSharedMaps([T EXCEPT !.nodes[id].inactive = TRUE], id),
                T.nodes[id].children)

DeactivateSubtree(T, id) ==
  IF ~Exists(T, id) \/ T.nodes[id].inactive THEN T
  ELSE DeactivateDescendant([T EXCEPT !.nodes[id].parent = None,
                                      !.inactive = Append(@, id)], id)

\* A dropped child goes for good, unless a key could still claim it or
\* something below it.
DeactivateChild(T, id) ==
  IF HasGlobalKeyInSubtree(T, id) THEN DeactivateSubtree(T, id) ELSE Release(T, id)

\* What the pass parked and nothing claimed is released.
FinalizeInactive(T) ==
  FoldLeft(LAMBDA t, id : IF Exists(t, id) /\ t.nodes[id].inactive
                            THEN Release(t, id) ELSE t,
           [T EXCEPT !.inactive = <<>>], T.inactive)

\* Mutated: the depths and the parents of what comes along are not rewritten.
RECURSIVE AttachRootOnly(_, _, _, _)
AttachRootOnly(T, id, parent, depth) ==
  [T EXCEPT !.nodes[id].inactive = FALSE, !.nodes[id].parent = parent,
            !.nodes[id].depth = depth, !.parents[id] = parent]

RECURSIVE AttachAtDepth(_, _, _, _)
AttachAtDepth(T, id, parent, depth) ==
  IF ~Exists(T, id) THEN T
  ELSE FoldLeft(LAMBDA t, child : AttachAtDepth(t, child, id, depth + 1),
                [T EXCEPT !.nodes[id].inactive = FALSE, !.nodes[id].parent = parent,
                          !.nodes[id].depth = depth, !.parents[id] = parent],
                T.nodes[id].children)

CanUpdate(T, id, w) ==
  Exists(T, id) /\ Of(T, id).type = Widget[w].type /\ Of(T, id).key = Widget[w].key

\* The old parent forgets the child, so that it does not drop it later.
ForgetChild(T, id) ==
  LET old == T.nodes[id].parent IN
  IF Exists(T, old)
    THEN [T EXCEPT !.nodes[old].children = SelectSeq(@, LAMBDA c : c # id)]
    ELSE T

\* The element the widget's key names, taken from wherever it is; None if the
\* widget needs a new one.  A live one that is the caller's own already, or
\* that cannot become this widget, is a panic.
ClaimGlobalKey(T, w, parent) ==
  LET key == Widget[w].global
      existing == IF key = NoKey THEN None ELSE T.keys[key]
      node == T.nodes[existing]
  IN IF ~Exists(T, existing) THEN [id |-> None, t |-> T]
     ELSE IF ~node.inactive /\ (node.parent = parent \/ ~CanUpdate(T, existing, w))
       THEN [id |-> None, t |-> [T EXCEPT !.panic = TRUE]]
     ELSE IF ~CanUpdate(T, existing, w) THEN [id |-> None, t |-> T]
     ELSE LET freed == [ForgetChild(T, existing) EXCEPT
                          !.inactive = SelectSeq(@, LAMBDA i : i # existing)]
              depth == IF Exists(T, parent) THEN T.nodes[parent].depth + 1 ELSE 0
          IN [id |-> existing, t |-> AttachAtDepth(freed, existing, parent, depth)]

----------------------------------------------------------------------------
(* Building and reconciling *)

\* Mutated: what a build reads is registered before the old is forgotten.
ReadThenClear(T, id) ==
  LET w == T.nodes[id].widget
      host == Lookup(T, id)
      read == IF ~Widget[w].reads \/ host = None THEN T
              ELSE [Depend(T, host, id) EXCEPT !.nodes[id].saw = T.provided[host]]
      cleared == ClearDependencies(read, id)
  IN IF Widget[w].nudges /\ T.nodes[id].state = 0
       THEN [MarkDirty(cleared, id) EXCEPT !.pending = Append(@, id)]
       ELSE cleared

\* Runs the component's build: what it read before is forgotten, what it reads
\* now is registered, and a build that nudges itself queues the mutation,
\* because its state is out while it builds.
BuildComponent(T, id) ==
  LET w == T.nodes[id].widget
      host == Lookup(T, id)
      cleared == ClearDependencies(T, id)
      read == IF ~Widget[w].reads THEN cleared
              ELSE IF host = None THEN [cleared EXCEPT !.nodes[id].saw = Absent]
              ELSE [Depend(cleared, host, id) EXCEPT !.nodes[id].saw = T.provided[host]]
  IN IF Widget[w].nudges /\ T.nodes[id].state = 0
       THEN [MarkDirty(read, id) EXCEPT !.pending = Append(@, id)]
       ELSE read

\* f maps the tree and one element of s to a tree and an id; s in order.
Threaded(f(_, _), T, s) ==
  FoldLeft(LAMBDA acc, x : LET r == f(acc.t, x)
                           IN [t |-> r.t, ids |-> Append(acc.ids, r.id)],
           [t |-> T, ids |-> <<>>], s)

Provides(w) == IF Widget[w].provides THEN theme ELSE Absent
SetChildren(r, id) ==
  IF Exists(r.t, id) THEN [r.t EXCEPT !.nodes[id].children = r.ids] ELSE r.t
OnlyChild(r) == [t |-> r.t, ids |-> <<r.id>>]

\* The term is put in place of the element old, or mounted where there is none.
RECURSIVE Reconcile(_, _, _, _, _)

\* A component's one child is what it built.
UpdateBuilt(T, id, depth) ==
  LET built == Built(T.nodes[id].widget)
      kids == T.nodes[id].children
      old == IF kids = <<>> THEN None ELSE kids[1]
  IN SetChildren(OnlyChild(Reconcile(T, old, built, id, depth + 1)), id)

Mount(T, term, parent, depth) ==
  LET w == term.w
      claim == ClaimGlobalKey(T, w, parent)
      fresh == [widget |-> w, children |-> <<>>, parent |-> parent, depth |-> depth,
                inactive |-> FALSE, state |-> 0, saw |-> Absent, named |-> FALSE]
      a == Allocate(claim.t, fresh)
      known == [a.t EXCEPT !.parents[a.id] = parent, !.provided[a.id] = Provides(w),
                           !.keys = IF Widget[w].global = NoKey THEN @
                                    ELSE [@ EXCEPT ![Widget[w].global] = a.id]]
      kids == Threaded(LAMBDA t, kid : Reconcile(t, None, kid, a.id, depth + 1),
                       known, term.kids)
  IN IF claim.id # None THEN Reconcile(claim.t, claim.id, term, parent, depth)
     ELSE [id |-> a.id,
           t |-> IF w \in Components THEN UpdateBuilt(BuildComponent(known, a.id), a.id, depth)
                 ELSE SetChildren(kids, a.id)]

\* The prefix that matches in place is updated at once.
RECURSIVE SyncTop(_, _, _, _, _)
SyncTop(T, old, new, parent, depth) ==
  IF old = <<>> \/ new = <<>> \/ ~CanUpdate(T, old[1], new[1].w)
    THEN [t |-> T, ids |-> <<>>]
    ELSE LET r == Reconcile(T, old[1], new[1], parent, depth)
             s == SyncTop(r.t, Tail(old), Tail(new), parent, depth)
         IN [t |-> s.t, ids |-> <<r.id>> \o s.ids]

\* How much of the tail matches; nothing is updated yet.
BottomLength(T, old, new) ==
  Max({k \in 0..Min({Len(old), Len(new)}) :
         \A i \in 0..(k - 1) : CanUpdate(T, old[Len(old) - i], new[Len(new) - i].w)})

\* The old middle: a keyed child waits for its key, others are dropped, and
\* what a claim has taken is nobody's to drop.
DropMiddle(T, old, parent) ==
  LET step(acc, id) ==
        IF ~Exists(acc.t, id) \/ acc.t.nodes[id].parent # parent THEN acc
        ELSE IF Of(acc.t, id).key # NoKey THEN [acc EXCEPT !.ids = Append(@, id)]
        ELSE [acc EXCEPT !.t = DeactivateChild(@, id)]
  IN FoldLeft(step, [t |-> T, ids |-> <<>>], old)

\* A new middle child takes the old one that waits under its type and key.
Waiting(T, waiting, w) ==
  SelectSeq(waiting, LAMBDA id : Widget[w].key # NoKey /\ CanUpdate(T, id, w))

\* Old middle children nobody took are dropped after the bottom.
Sweep(bottom, done, left, parent) ==
  [t |-> FoldLeft(LAMBDA t, id : IF Exists(t, id) /\ t.nodes[id].parent = parent
                                   THEN DeactivateChild(t, id) ELSE t,
                  bottom.t, left),
   ids |-> done \o bottom.ids]

UpdateBottom(middle, done, waiting, old, new, parent, depth) ==
  Sweep(Threaded(LAMBDA t, i : Reconcile(t, old[i], new[i], parent, depth),
                 middle.t, [i \in DOMAIN old |-> i]),
        done \o middle.ids,
        SelectSeq(waiting, LAMBDA id : id \notin Range(middle.ids)), parent)

\* dropped is what DropMiddle left: the tree, and the old ones that wait.
UpdateMiddle(dropped, done, new, oldBottom, newBottom, parent, depth) ==
  LET place(t, term) ==
        LET waits == Waiting(t, dropped.ids, term.w)
        IN Reconcile(t, IF waits = <<>> THEN None ELSE waits[1], term, parent, depth)
  IN UpdateBottom(Threaded(place, dropped.t, new), done, dropped.ids,
                  oldBottom, newBottom, parent, depth)

UpdateRest(top, old, new, parent, depth) ==
  LET rest(s) == SubSeq(s, Len(top.ids) + 1, Len(s))
      bottom == BottomLength(top.t, rest(old), rest(new))
      middle(s) == SubSeq(s, Len(top.ids) + 1, Len(s) - bottom)
      last(s) == SubSeq(s, Len(s) - bottom + 1, Len(s))
  IN UpdateMiddle(DropMiddle(top.t, middle(old), parent), top.ids, middle(new),
                  last(old), last(new), parent, depth)

UpdateChildren(T, old, new, parent, depth) ==
  UpdateRest(SyncTop(T, old, new, parent, depth), old, new, parent, depth)

\* Mutated: the walk stops at a widget that is the same as before.
UpdateChanged(T, id, term, parent, depth) ==
  LET w == term.w
      taken == [T EXCEPT !.nodes[id].widget = w, !.nodes[id].depth = depth,
                         !.parents[id] = parent, !.provided[id] = Provides(w)]
      kids == UpdateChildren(taken, taken.nodes[id].children, term.kids, id, depth + 1)
  IN IF ~Exists(T, id) \/ T.nodes[id].parent # parent THEN Mount(T, term, parent, depth)
     ELSE IF ~CanUpdate(T, id, w) THEN Mount(DeactivateChild(T, id), term, parent, depth)
     ELSE [id |-> id,
           t |-> IF T.nodes[id].widget = w /\ w \in Components THEN taken
                 ELSE IF w \in Components THEN UpdateBuilt(BuildComponent(taken, id), id, depth)
                 ELSE SetChildren(kids, id)]

\* In place if the widgets match and the child is still this parent's;
\* otherwise the old one is dropped and a new one mounted.
Update(T, id, term, parent, depth) ==
  LET w == term.w
      taken == [T EXCEPT !.nodes[id].widget = w, !.nodes[id].depth = depth,
                         !.parents[id] = parent, !.provided[id] = Provides(w)]
      kids == UpdateChildren(taken, taken.nodes[id].children, term.kids, id, depth + 1)
  IN IF ~Exists(T, id) \/ T.nodes[id].parent # parent THEN Mount(T, term, parent, depth)
     ELSE IF ~CanUpdate(T, id, w) THEN Mount(DeactivateChild(T, id), term, parent, depth)
     ELSE [id |-> id,
           t |-> IF w \in Components THEN UpdateBuilt(BuildComponent(taken, id), id, depth)
                 ELSE SetChildren(kids, id)]

Reconcile(T, old, term, parent, depth) ==
  IF old = None THEN Mount(T, term, parent, depth)
  ELSE Update(T, old, term, parent, depth)

----------------------------------------------------------------------------
(* A pass over the tree *)

\* Mutations that found their state checked out are applied now.
DrainPending(T) ==
  FoldLeft(LAMBDA t, id : IF Exists(t, id) THEN [t EXCEPT !.nodes[id].state = @ + 1] ELSE t,
           [T EXCEPT !.pending = <<>>], T.pending)

RebuildRoot(T) ==
  LET start == [DrainPending(T) EXCEPT !.dirty = <<>>]
      rooted(r) == [r.t EXCEPT !.root = r.id]
  IN FinalizeInactive(rooted(Reconcile(start, T.root, [w |-> Root, kids |-> <<>>],
                                       None, 0)))

RECURSIVE IsAncestor(_, _, _)
IsAncestor(T, ancestor, id) ==
  LET up == IF Exists(T, id) THEN T.nodes[id].parent ELSE None
  IN up # None /\ (up = ancestor \/ IsAncestor(T, ancestor, up))

\* Shallowest first, in the order they were marked.
Shallowest(T, ids) ==
  LET depths == {T.nodes[id].depth : id \in Range(ids) \cap Ids(T)}
      deepest == Max(depths \cup {0})
  IN FlattenSeq([d \in 1..(deepest + 1) |->
       SelectSeq(ids, LAMBDA id : Exists(T, id) /\ T.nodes[id].depth = d - 1)])

\* Skipping what is gone, parked, or below what has been rebuilt.
RebuildDirtyElements(T) ==
  LET start == [DrainPending(T) EXCEPT !.dirty = <<>>]
      step(acc, id) ==
        IF ~Exists(acc.t, id) \/ acc.t.nodes[id].inactive
             \/ \E above \in acc.done : IsAncestor(acc.t, above, id)
          THEN acc
          ELSE [t |-> UpdateBuilt(BuildComponent(acc.t, id), id, acc.t.nodes[id].depth),
                done |-> acc.done \cup {id}]
      worked == FoldLeft(step, [t |-> start, done |-> {}], Shallowest(start, T.dirty))
  IN FinalizeInactive(worked.t)

----------------------------------------------------------------------------
(* Actions *)

Init ==
  /\ tree = Empty
  /\ content \in Starts
  /\ theme = 0
  /\ held = NoHandle
  /\ panicked = FALSE
  /\ changes = 0 /\ themes = 0

\* A pass that unwinds leaves nothing to go on with.
Commit(T) ==
  /\ panicked' = T.panic
  /\ tree' = IF T.panic THEN tree ELSE T
  /\ UNCHANGED <<content, theme, held, changes, themes>>

\* The host rebuilds from the root: the first frame, or a new size.
Rebuild ==
  /\ ~panicked
  /\ \E T \in {RebuildRoot(tree)} : Commit(T)

RebuildDirty ==
  /\ ~panicked /\ tree.dirty # <<>>
  /\ \E T \in {RebuildDirtyElements(tree)} : Commit(T)

\* A handler has one or two components build something else: set_state on
\* those that are mounted.
ChangeContent(c, d) ==
  /\ ~panicked /\ tree.root # None /\ changes < MaxChanges
  /\ \E new \in {[content EXCEPT ![c] = sc, ![d] = sd] :
                   sc \in Shapes[c] \ {content[c]}, sd \in Shapes[d] \ {content[d]}} :
       UsesKeysOnce(new) /\ content' = new
  /\ LET mounted(w) == {id \in Ids(tree) : tree.nodes[id].widget = w}
     IN tree' = FoldSet(LAMBDA id, t : MarkDirty(t, id),
                        FoldSet(LAMBDA id, t : MarkDirty(t, id), tree, mounted(c)),
                        mounted(d))
  /\ changes' = changes + 1
  /\ UNCHANGED <<theme, held, panicked, themes>>

\* An element that moves by the clock wants another build.
AdvanceFrame(id) ==
  /\ ~panicked /\ Widget[tree.nodes[id].widget].nudges
  /\ tree' = MarkDirty(tree, id)
  /\ UNCHANGED <<content, theme, held, panicked, changes, themes>>

\* A new value for the shallowest provider, and a mark on its readers.
Publish ==
  /\ ~panicked /\ themes < MaxThemes
  /\ themes' = themes + 1 /\ theme' = 1 - theme
  /\ LET hosts == {id \in Ids(tree) : tree.provided[id] # Absent} IN
       IF hosts = {} THEN tree' = tree
       ELSE LET target == CHOOSE id \in hosts : \A other \in hosts :
                            tree.nodes[id].depth <= tree.nodes[other].depth
                readers == {d.reader : d \in {d \in tree.dependents : d.provider = target}}
            IN tree' = FoldSet(LAMBDA id, t : MarkDirty(t, id),
                               [tree EXCEPT !.provided[target] = 1 - theme], readers)
  /\ UNCHANGED <<content, held, panicked, changes>>

\* Somebody outside keeps the handle of a component.
TakeHandle(id) ==
  /\ ~panicked /\ held = NoHandle /\ tree.nodes[id].widget \in Handlers
  /\ held' = [id |-> id, generation |-> tree.generations[id]]
  /\ tree' = [tree EXCEPT !.nodes[id].named = TRUE]
  /\ UNCHANGED <<content, theme, panicked, changes, themes>>

IsValid == held # NoHandle /\ tree.generations[held.id] = held.generation

\* A callback of the one who kept it; a stale one is refused.
SetState ==
  /\ ~panicked /\ IsValid /\ Exists(tree, held.id)
  /\ tree.nodes[held.id].state < MaxState
  /\ tree' = MarkDirty([tree EXCEPT !.nodes[held.id].state = @ + 1], held.id)
  /\ UNCHANGED <<content, theme, held, panicked, changes, themes>>

Next ==
  \/ Rebuild
  \/ RebuildDirty
  \/ \E c, d \in Components : ChangeContent(c, d)
  \/ \E id \in Ids(tree) : AdvanceFrame(id)
  \/ Publish
  \/ \E id \in Ids(tree) : TakeHandle(id)
  \/ SetState

Spec == Init /\ [][Next]_vars

----------------------------------------------------------------------------
(* Properties *)

RECURSIVE Mounted(_, _)
Mounted(T, id) ==
  <<id>> \o FlattenSeq([i \in DOMAIN T.nodes[id].children |-> Mounted(T, T.nodes[id].children[i])])

RECURSIVE ShapeOf(_, _)
ShapeOf(T, id) ==
  [w |-> T.nodes[id].widget,
   kids |-> [i \in DOMAIN T.nodes[id].children |-> ShapeOf(T, T.nodes[id].children[i])]]

\* Between passes the slots are one tree and a free list: what is there is
\* reached from the root once, under the parent and at the depth it records,
\* the map builds walk says the same, nothing stays parked, and every other
\* slot is free once.  A subtree that is moved, parked or released while lists
\* naming it are walked must leave none of this behind.
OneTree ==
  LET all == IF tree.root = None THEN <<>> ELSE Mounted(tree, tree.root) IN
  /\ IsInjective(all) /\ Range(all) = Ids(tree)
  /\ IsInjective(tree.free) /\ Range(tree.free) = DOMAIN tree.nodes \ Ids(tree)
  /\ tree.inactive = <<>>
  /\ \A id \in Ids(tree) :
       /\ tree.parents[id] = tree.nodes[id].parent /\ ~tree.nodes[id].inactive
       /\ \A child \in Range(tree.nodes[id].children) :
            /\ tree.nodes[child].parent = id
            /\ tree.nodes[child].depth = tree.nodes[id].depth + 1
  /\ \A id \in DOMAIN tree.nodes \ Ids(tree) :
       tree.parents[id] = Absent /\ tree.provided[id] = Absent
  /\ Range(tree.dirty) \cup Range(tree.pending) \subseteq Ids(tree)
  /\ \A d \in tree.dependents : {d.provider, d.reader} \subseteq Ids(tree)

\* A GlobalKey names the one element whose widget carries it, and nothing when
\* there is none (ElementTree::current_element).
KeysNameTheirElements ==
  \A g \in GlobalKeys :
    {id \in Ids(tree) : Of(tree, id).global = g} = {tree.keys[g]} \ {None}

\* Once no element waits to be rebuilt, the tree is what the program describes
\* -- whatever was rebuilt alone, moved, dropped or failed to build on the way.
ShowsTheProgram ==
  tree.root # None /\ tree.dirty = <<>> =>
    ShapeOf(tree, tree.root) = Expand([w |-> Root, kids |-> <<>>], content)

\* A handle resolves exactly as long as the element it was made for exists:
\* never to a stranger in the same slot, never to an empty one, and moving the
\* element does not make it stale (StateHandle, CapturedContext).
HandleIsNotAStranger ==
  held # NoHandle =>
    IsValid = (Exists(tree, held.id) /\ tree.nodes[held.id].named)

\* Every reader has seen what the nearest provider above it publishes now, or
\* will be rebuilt: also after it moved under another provider.
ReadersAreFresh ==
  \A id \in Ids(tree) :
    Of(tree, id).reads /\ id \notin Range(tree.dirty) =>
      LET host == Lookup(tree, id) IN
      tree.nodes[id].saw = IF host = None THEN Absent ELSE tree.provided[host]

\* What a build asked for during a pass survives the pass: the element is
\* still marked and its mutation queued.
RequestsSurvive ==
  \A id \in Ids(tree) :
    Of(tree, id).nudges /\ tree.nodes[id].state = 0 =>
      id \in Range(tree.dirty) /\ id \in Range(tree.pending)

\* A rebuild panics over a GlobalKey only if it is on two widgets.
PanicsOnlyOnDuplicates == panicked => ~UsesKeysOnce(content)

\* Between passes the slots, the parents, the marks and the keys agree, and the
\* pass has got that far.
TreeInv == OneTree /\ KeysNameTheirElements /\ PanicsOnlyOnDuplicates

\* What changed reaches whoever must be rebuilt for it, a pass notwithstanding
\* that was under way when it changed, and then the tree shows it.
ChangesReachTheTree == ShowsTheProgram /\ ReadersAreFresh /\ RequestsSurvive

\* An element whose GlobalKey the program still uses, on a widget of the same
\* type and local key, is the same element after a pass, wherever it went: same
\* generation, and no mutation of its state is lost.
MovedKeepState ==
  [][\A g \in GlobalKeys :
       LET was == tree.keys[g]
           is == tree'.keys[g]
       IN was # None /\ is # None /\ Exists(tree, was) /\ Exists(tree', is)
            /\ CanUpdate(tree, was, tree'.nodes[is].widget)
          => /\ is = was /\ tree'.generations[is] = tree.generations[was]
             /\ tree'.nodes[is].state >= tree.nodes[was].state]_vars

=============================================================================
