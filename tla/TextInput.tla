------------------------------ MODULE TextInput ------------------------------
(***************************************************************************)
(* A text field and the input method.  The text is kept twice: by the      *)
(* field's state in the framework, on the UI thread (text_input.rs and the *)
(* FieldClient of editable.rs), and by the model the host types into       *)
(* (TextInputHandler of rustflutter_host_win.cc over TextInputModel),      *)
(* which the platform thread and the window thread share under a mutex.    *)
(* Three queues join them: messages to the UI thread, calls and key        *)
(* verdicts to the platform thread, and verdicts on to the window thread.  *)
(*                                                                         *)
(* A text is the set of the marks in it: each keystroke, each string of    *)
(* the input method and each paste leaves a mark of its own.  The caret    *)
(* stays behind the last one.                                              *)
(***************************************************************************)
EXTENDS Integers, FiniteSets, Sequences

CONSTANTS
  Fields,       \* the text fields of a page
  Keys,         \* keystrokes that carry a character, each pressed once
  Strings,      \* strings the input method composes, each once
  Pastes,       \* texts the program puts into a field, each once
  OnChanged,    \* what a field's on_changed may do
  OnSubmitted,  \* what its on_submitted may do
  Enter,        \* the keystroke that submits
  None,         \* no session, no model, no field
  Budgets       \* bounds: how often the user and the program act on focus and
                \* fields, how often Enter is pressed, and the marks there are

Marks == Keys \union Strings \union Pastes

ASSUME MarksAreApart ==
  /\ Keys \intersect Strings = {} /\ Keys \intersect Pastes = {}
  /\ Strings \intersect Pastes = {} /\ Enter \notin Keys
ASSUME BudgetsAreBounds ==
  \A b \in Budgets : b.acts \in Nat /\ b.enters \in Nat /\ b.marks \subseteq Marks
ASSUME NoneIsNone ==
  /\ None \notin Fields \union Nat \union [id : Nat, field : Fields]
  /\ None \notin [text : SUBSET Marks, marked : SUBSET Marks, composing : BOOLEAN]
ASSUME ReactionsAreKnown ==
  /\ OnChanged \subseteq {"stay", "next", "leave"}
  /\ OnSubmitted \subseteq {"stay", "next", "leave", "clear"}

VARIABLES
  (* The UI thread *)
  value,    \* TextFieldState.value: a text, and the part that is underlined
  session,  \* the focus, ATTACHED, each field's connection, NEXT_ID
  alive,    \* the fields that are on the page
  crossed,  \* the last update applied was read before the host took the
            \* framework's last state
  untold,   \* the text of the edited field changed - in its own callback, or
            \* after it lost the keyboard there - and the host was not told
  (* The host *)
  model,    \* TextInputHandler.model_
  client,   \* client_id_
  took,     \* the number of the last state the host took from the framework
  abort,    \* abort_composing_
  clearing, \* where the platform thread is in clearClient
  (* The window thread and the input method *)
  ime,      \* what the input method composes, or None
  todo,     \* what is left to do of the window message at hand
  used,     \* the marks that are not to be had any more
  (* The queues *)
  toUi, toHost, toWindow,
  acts, enters  \* what is left of the budget

ui == <<value, session, alive, crossed, untold>>
host == <<model, client, took, abort, clearing>>
window == <<ime, todo, used>>
bounds == <<acts, enters>>
vars == <<ui, host, window, toUi, toHost, toWindow, bounds>>
-----------------------------------------------------------------------------
(* The host's model of a text being edited.                                *)

NoText == [text |-> {}, marked |-> {}]
NewModel == [text |-> {}, marked |-> {}, composing |-> FALSE]

\* AddText: in a composition, a character replaces the composing text.
AddText(m, k) ==
  IF m.composing
    THEN [m EXCEPT !.text = (@ \ m.marked) \union {k}, !.marked = {k}]
    ELSE [m EXCEPT !.text = @ \union {k}]

BeginComposing(m) == [m EXCEPT !.composing = TRUE, !.marked = {}]

UpdateComposingText(m, s) ==
  [m EXCEPT !.text = (@ \ m.marked) \union s, !.marked = s]

CommitComposing(m) == [m EXCEPT !.marked = {}]

EndComposing(m) == [m EXCEPT !.composing = FALSE, !.marked = {}]

\* SetText: a composing range that is not empty is a composition.
SetText(v) == [text |-> v.text, marked |-> v.marked, composing |-> v.marked # {}]

\* What a state update says of the composing range.
Underlined(m) == IF m.composing THEN m.marked ELSE {}
-----------------------------------------------------------------------------
(* What the framework and the host send each other.                        *)

Update == [type |-> "update", id |-> client, text |-> model.text,
           marked |-> Underlined(model), seen |-> took]
Action == [type |-> "action", id |-> client]
KeyEvent(k) == [type |-> "key", key |-> k]

ClearClient == [type |-> "clear"]
SetClient(id) == [type |-> "client", id |-> id]
SetEditingState(v, n) == [type |-> "state", value |-> v, number |-> n]
Verdict(k) == [type |-> "verdict", key |-> k]

\* SendStateUpdate: nothing without a model.
StateUpdate == IF model = None THEN <<>> ELSE <<Update>>
-----------------------------------------------------------------------------
(* Sessions.  An operator here takes and returns the session with the      *)
(* calls it makes in `sent`.                                               *)

Attached(s, f) ==
  /\ s.slot # None
  /\ s.connection[f] = s.slot.id

\* TextInputConnection::close, by a field that drops its connection.
Closed(s, f) ==
  IF Attached(s, f)
    THEN [s EXCEPT !.connection[f] = None, !.slot = None,
                   !.sent = Append(@, ClearClient)]
    ELSE [s EXCEPT !.connection[f] = None]

\* Mutated: the host starts from an empty text.
OpenBlank(s, f) ==
  [s EXCEPT !.slot = [id |-> s.next, field |-> f], !.connection[f] = s.next,
            !.next = s.next + 1,
            !.sent = @ \o (IF s.slot = None THEN <<>> ELSE <<ClearClient>>)
                       \o <<SetClient(s.next)>>]

\* attach, and the state the field follows it with.
Opened(s, f) ==
  [s EXCEPT !.slot = [id |-> s.next, field |-> f], !.connection[f] = s.next,
            !.next = s.next + 1, !.number = s.number + 1,
            !.sent = @ \o (IF s.slot = None THEN <<>> ELSE <<ClearClient>>)
                       \o <<SetClient(s.next), SetEditingState(value[f], s.number + 1)>>]

\* on_focus_change, to the field that loses the keyboard and then to the one
\* that gains it.
Moved(s, f) ==
  LET lost == IF s.focus = None THEN s ELSE Closed(s, s.focus)
      moved == [lost EXCEPT !.focus = f]
  IN  IF f = s.focus THEN s ELSE IF f = None THEN moved ELSE Opened(moved, f)

\* set_editing_state, if this is the session the platform edits.
Pushed(s, f, v) ==
  IF Attached(s, f)
    THEN [s EXCEPT !.number = @ + 1, !.sent = Append(@, SetEditingState(v, s.number + 1))]
    ELSE s

\* focus::next, on a page of these fields.
NextField(f) == IF alive \ {f} = {} THEN f ELSE CHOOSE g \in alive \ {f} : TRUE

React(s, how) ==
  CASE how = "next"  -> Moved(s, NextField(s.focus))
    [] how = "leave" -> Moved(s, None)
    [] OTHER         -> s

\* Mutated: the client is put back over the one that replaced it.
WithClientBack(how) ==
  LET s == React([session EXCEPT !.slot = None], how)
  IN  [s EXCEPT !.slot = session.slot]

\* with_client: the client runs with the slot empty, and goes back into it
\* unless it was replaced.
WithClient(how) ==
  LET s == React([session EXCEPT !.slot = None], how)
  IN  IF s.slot = None THEN [s EXCEPT !.slot = session.slot] ELSE s

\* The session goes on, and the host was given no new state.
Undisturbed(s) == s.slot = session.slot /\ s.number = session.number

\* The host types into a copy of this field's text.
IsEdited(f) == session.slot # None /\ session.slot.field = f

\* The calls a step of the UI thread made are on their way.
Send(s) ==
  /\ toHost' = toHost \o s.sent
  /\ session' = [s EXCEPT !.sent = <<>>]
  /\ crossed' = (crossed /\ Undisturbed(s))
  /\ untold' = (untold /\ Undisturbed(s))
-----------------------------------------------------------------------------
Init ==
  /\ value = [f \in Fields |-> NoText]
  /\ session = [slot |-> None, connection |-> [f \in Fields |-> None],
                next |-> 1, number |-> 0, focus |-> None, sent |-> <<>>]
  /\ alive = Fields /\ crossed = FALSE /\ untold = FALSE
  /\ model = None /\ client = 0 /\ took = 0 /\ abort = FALSE /\ clearing = "no"
  /\ ime = None /\ todo = <<>>
  /\ toUi = <<>> /\ toHost = <<>> /\ toWindow = <<>>
  /\ \E b \in Budgets : acts = b.acts /\ enters = b.enters /\ used = Marks \ b.marks

(* The UI thread.                                                          *)

Act == acts > 0 /\ acts' = acts - 1

\* A tap, Tab or the program moves the focus.
MoveFocus(f) ==
  /\ f # session.focus
  /\ Act
  /\ Send(Moved(session, f))
  /\ UNCHANGED <<value, alive, host, window, toUi, toWindow, enters>>

\* The program edits a field: a paste, or a clear button.  What was composed
\* is not composed any more.
Edit(f, v) ==
  /\ Act
  /\ value' = [value EXCEPT ![f] = v]
  /\ LET s == Pushed(session, f, v)
     IN  /\ session' = [s EXCEPT !.sent = <<>>]
         /\ toHost' = toHost \o s.sent
         /\ crossed' = (crossed /\ Undisturbed(s))
         /\ untold' = ((untold /\ Undisturbed(s)) \/ (IsEdited(f) /\ session.focus # f))
  /\ UNCHANGED <<alive, host, ime, todo, toUi, toWindow, enters>>

Paste(f, p) ==
  /\ p \notin used /\ used' = used \union {p}
  /\ Edit(f, [text |-> value[f].text \union {p}, marked |-> {}])

Clear(f) ==
  /\ value[f] # NoText
  /\ Edit(f, NoText)
  /\ UNCHANGED used

\* dispose: the field closes its session.  Its focus node keeps the keyboard until
\* the next frame prunes it, in name only: it has no connection left that a move of
\* the keyboard would close, so that nobody has it from now on.
Dispose(f) ==
  /\ Act
  /\ alive' = alive \ {f}
  /\ LET s == Closed(session, f)
         focus == IF s.focus = f THEN None ELSE s.focus
     IN  /\ session' = [s EXCEPT !.focus = focus, !.sent = <<>>]
         /\ toHost' = toHost \o s.sent
  /\ UNCHANGED <<value, crossed, untold, host, window, toUi, toWindow, enters>>

\* Mutated: whoever is attached takes the message.
IsForAnyone(m) == session.slot # None

\* dispatch drops what is not for the client that is attached.
IsForClient(m) == session.slot # None /\ session.slot.id = m.id

DropMessage(m) ==
  /\ ~IsForClient(m)
  /\ UNCHANGED <<value, session, alive, crossed, untold, toHost>>

\* update_editing_value: on_changed runs first, then the state takes the value.
HandleUpdate(m, how) ==
  /\ IsForClient(m)
  /\ LET f == session.slot.field
         s == WithClient(how)
     IN  /\ value' = IF f \in alive
                       THEN [value EXCEPT ![f] = [text |-> m.text, marked |-> m.marked]]
                       ELSE value
         /\ session' = [s EXCEPT !.sent = <<>>]
         /\ toHost' = toHost \o s.sent
         /\ crossed' = (s.slot = session.slot /\ m.seen # session.number)
         /\ untold' = (s.slot # session.slot /\ s.slot.field = f)
  /\ UNCHANGED alive

\* perform_action: on_submitted, or the keys that walk the form.
HandleAction(m, how) ==
  /\ IsForClient(m)
  /\ LET f == session.slot.field
         s == WithClient(how)
         empties == how = "clear" /\ f \in alive
     IN  /\ value' = IF empties THEN [value EXCEPT ![f] = NoText] ELSE value
         /\ session' = [s EXCEPT !.sent = <<>>]
         /\ toHost' = toHost \o s.sent
         /\ crossed' = (crossed /\ Undisturbed(s))
         /\ untold' = ((untold \/ (empties /\ value[f].text # {})) /\ Undisturbed(s))
  /\ UNCHANGED alive

\* The framework declines a key, which types it.
DeclineKey(m) ==
  /\ toHost' = Append(toHost, Verdict(m.key))
  /\ UNCHANGED <<value, session, alive, crossed, untold>>

HandleMessage ==
  /\ toUi # <<>> /\ toUi' = Tail(toUi)
  /\ LET m == Head(toUi)
     IN  \/ m.type = "key" /\ DeclineKey(m)
         \/ m.type \in {"update", "action"} /\ DropMessage(m)
         \/ m.type = "update" /\ \E how \in OnChanged : HandleUpdate(m, how)
         \/ m.type = "action" /\ \E how \in OnSubmitted : HandleAction(m, how)
  /\ UNCHANGED <<host, window, toWindow, bounds>>
-----------------------------------------------------------------------------
(* The platform thread.                                                    *)

Taken == toHost' = Tail(toHost)

HostSetsClient(m) ==
  /\ m.type = "client" /\ Taken
  /\ client' = m.id /\ model' = NewModel
  /\ UNCHANGED <<took, abort, clearing, toUi, toWindow>>

\* setEditingState: an error without a client.
HostSetsState(m) ==
  /\ m.type = "state" /\ Taken
  /\ IF model = None THEN UNCHANGED <<model, took>>
                     ELSE model' = SetText(m.value) /\ took' = m.number
  /\ UNCHANGED <<client, abort, clearing, toUi, toWindow>>

\* The verdict on a key goes on to the window thread.
PassVerdict(m) ==
  /\ m.type = "verdict" /\ Taken
  /\ toWindow' = Append(toWindow, m.key)
  /\ UNCHANGED <<model, client, took, abort, clearing, toUi>>

\* clearClient, under the mutex only where it reads or writes the model: the
\* composition is committed, the framework is told, the window thread is told
\* to abort, and the model goes.
BeginClear(m) ==
  /\ m.type = "clear"
  /\ LET composing == model # None /\ model.composing
     IN  /\ model' = IF composing THEN EndComposing(CommitComposing(model)) ELSE model
         /\ clearing' = IF composing THEN "tell" ELSE "abort"
  /\ UNCHANGED <<client, took, abort, toUi, toHost, toWindow>>

TellCommitted ==
  /\ clearing = "tell" /\ clearing' = "abort"
  /\ toUi' = toUi \o StateUpdate
  /\ UNCHANGED <<model, client, took, abort, toHost, toWindow>>

AskAbort ==
  /\ clearing = "abort" /\ clearing' = "drop"
  /\ abort' = TRUE
  /\ UNCHANGED <<model, client, took, toUi, toHost, toWindow>>

DropModel ==
  /\ clearing = "drop" /\ clearing' = "no" /\ Taken
  /\ model' = None
  /\ UNCHANGED <<client, took, abort, toUi, toWindow>>

HandleCall ==
  /\ \/ /\ clearing = "no" /\ toHost # <<>>
        /\ LET m == Head(toHost)
           IN  HostSetsClient(m) \/ HostSetsState(m) \/ PassVerdict(m) \/ BeginClear(m)
     \/ TellCommitted \/ AskAbort \/ DropModel
  /\ UNCHANGED <<ui, window, bounds>>
-----------------------------------------------------------------------------
(* The window thread.  A window message is a list of steps: an edit under  *)
(* the mutex, then the update that reads the model under the mutex again.  *)

EditStep(op, s) == [op |-> op, string |-> s, then |-> <<>>]
SendStep == EditStep("send", {})
\* The head of WM_IME_COMPOSITION, and what the message carries.
CompositionMessage(steps) == [op |-> "composition", string |-> {}, then |-> steps]

WindowIdle == todo = <<>>

\* A character or Enter is held until the framework has given its verdict.
\* With no field attached there is no text to hold.
Press(k) ==
  /\ WindowIdle /\ ime = None
  /\ IF k = Enter THEN enters > 0 ELSE model # None /\ k \notin used
  /\ enters' = IF k = Enter THEN enters - 1 ELSE enters
  /\ used' = IF k = Enter THEN used ELSE used \union {k}
  /\ toUi' = Append(toUi, KeyEvent(k))
  /\ UNCHANGED <<ui, host, ime, todo, toHost, toWindow, acts>>

\* ApplyDeclinedKey.
TakeVerdict ==
  /\ WindowIdle /\ toWindow # <<>>
  /\ toWindow' = Tail(toWindow)
  /\ todo' = <<IF Head(toWindow) = Enter THEN EditStep("enter", {})
                                         ELSE EditStep("add", {Head(toWindow)})>>
  /\ UNCHANGED <<ui, host, ime, used, toUi, toHost, bounds>>

\* WM_IME_STARTCOMPOSITION
ImeStarts ==
  /\ WindowIdle /\ ime = None /\ ~(Strings \subseteq used)
  /\ ime' = {} /\ todo' = <<EditStep("begin", {})>>
  /\ UNCHANGED <<ui, host, used, toUi, toHost, toWindow, bounds>>

\* WM_IME_COMPOSITION with GCS_COMPSTR
ImeComposes(c) ==
  /\ WindowIdle /\ ime # None /\ c \notin used
  /\ ime' = {c} /\ used' = used \union {c}
  /\ todo' = <<CompositionMessage(<<EditStep("change", {c})>>)>>
  /\ UNCHANGED <<ui, host, toUi, toHost, toWindow, bounds>>

EndMessage == <<EditStep("end", {})>>
CancelMessages ==
  <<CompositionMessage(<<EditStep("change", {}), EditStep("commit", {})>>)>> \o EndMessage

\* WM_IME_COMPOSITION with GCS_RESULTSTR, then WM_IME_ENDCOMPOSITION
ImeCommits ==
  /\ WindowIdle /\ ime # None /\ ime # {}
  /\ ime' = None
  /\ todo' = <<CompositionMessage(<<EditStep("change", ime), EditStep("commit", {})>>)>>
               \o EndMessage
  /\ UNCHANGED <<ui, host, used, toUi, toHost, toWindow, bounds>>

\* The composition is given up: WM_IME_COMPOSITION that carries nothing.
ImeCancels ==
  /\ WindowIdle /\ ime # None /\ ime # {}
  /\ ime' = None /\ todo' = CancelMessages
  /\ UNCHANGED <<ui, host, used, toUi, toHost, toWindow, bounds>>

\* A composition message first looks whether the client it composes for is
\* gone, and then gives up the composition under way, if there is one.
LookForAbort(step) ==
  /\ abort' = FALSE
  /\ IF ~abort THEN todo' = step.then \o Tail(todo) /\ UNCHANGED ime
     ELSE IF ime # None THEN todo' = CancelMessages \o Tail(todo) /\ ime' = None
     ELSE todo' = Tail(todo) /\ UNCHANGED ime
  /\ UNCHANGED <<model, toUi>>

Edited(step) ==
  CASE step.op = "add"    -> AddText(model, CHOOSE k \in step.string : TRUE)
    [] step.op = "begin"  -> BeginComposing(model)
    [] step.op = "change" -> UpdateComposingText(model, step.string)
    [] step.op = "commit" -> CommitComposing(model)
    [] step.op = "end"    -> EndComposing(model)

\* Mutated: the edit is not reported.
EditSilently(step) ==
  /\ todo' = Tail(todo)
  /\ IF model = None THEN UNCHANGED model ELSE model' = Edited(step)
  /\ UNCHANGED <<abort, ime, toUi>>

\* Edit: without a model nothing is edited and nothing is sent.
EditModel(step) ==
  /\ IF model = None
       THEN todo' = Tail(todo) /\ UNCHANGED model
       ELSE /\ model' = Edited(step)
            /\ todo' = (IF step.op = "begin" THEN <<>> ELSE <<SendStep>>) \o Tail(todo)
  /\ UNCHANGED <<abort, ime, toUi>>

SendUpdate ==
  /\ toUi' = toUi \o StateUpdate /\ todo' = Tail(todo)
  /\ UNCHANGED <<model, abort, ime>>

\* OnAction
SendAction ==
  /\ toUi' = toUi \o (IF model = None THEN <<>> ELSE <<Action>>)
  /\ todo' = Tail(todo)
  /\ UNCHANGED <<model, abort, ime>>

WindowStep ==
  /\ todo # <<>>
  /\ LET step == Head(todo)
     IN  \/ step.op = "composition" /\ LookForAbort(step)
         \/ step.op = "send" /\ SendUpdate
         \/ step.op = "enter" /\ SendAction
         \/ step.op \notin {"composition", "send", "enter"} /\ EditModel(step)
  /\ UNCHANGED <<ui, client, took, clearing, used, toHost, toWindow, bounds>>
-----------------------------------------------------------------------------
Next ==
  \/ \E f \in alive \union {None} : MoveFocus(f)
  \/ \E f \in alive, p \in Pastes : Paste(f, p)
  \/ \E f \in alive : Clear(f)
  \/ \E f \in alive : Dispose(f)
  \/ HandleMessage
  \/ HandleCall
  \/ \E k \in Keys \union {Enter} : Press(k)
  \/ TakeVerdict \/ WindowStep
  \/ ImeStarts \/ (\E c \in Strings : ImeComposes(c)) \/ ImeCommits \/ ImeCancels

Fairness ==
  /\ WF_vars(HandleMessage)
  /\ WF_vars(HandleCall)
  /\ WF_vars(TakeVerdict)
  /\ WF_vars(WindowStep)

Spec == Init /\ [][Next]_vars /\ Fairness
-----------------------------------------------------------------------------
Texts == [text : SUBSET Marks, marked : SUBSET Marks]

TypeOK ==
  /\ value \in [Fields -> Texts]
  /\ session.connection \in [Fields -> Nat \union {None}]
  /\ session.focus \in Fields \union {None}
  /\ session.sent = <<>>
  /\ alive \subseteq Fields /\ crossed \in BOOLEAN /\ untold \in BOOLEAN
  /\ \/ model = None
     \/ model \in [text : SUBSET Marks, marked : SUBSET Marks, composing : BOOLEAN]
  /\ clearing \in {"no", "tell", "abort", "drop"} /\ abort \in BOOLEAN
  /\ ime = None \/ ime \in SUBSET Strings
  /\ used \subseteq Marks

AtRest ==
  toUi = <<>> /\ toHost = <<>> /\ toWindow = <<>> /\ todo = <<>>

\* Wherever the keyboard moves - out of a callback of the field that is left,
\* too - the field that has it is the one the framework edits, and no other
\* field keeps a connection.
KeyboardHasTheSession ==
  \A f \in Fields :
    session.connection[f] # None <=> session.focus = f /\ Attached(session, f)

\* At rest the host types into a copy of the text of the field that has the
\* keyboard, unless the last update crossed a state.
CopiesAgree ==
  AtRest /\ session.focus # None /\ ~crossed /\ ~untold =>
    /\ model # None /\ client = session.slot.id
    /\ model.text = value[session.focus].text

\* A keystroke is typed into one field: no other field ever shows it, however
\* late its verdict, its update or the move to another field.
OneFieldEach ==
  \A k \in Keys : Cardinality({f \in Fields : k \in value[f].text}) <= 1

\* The keyboard is where the platform types, and what is typed goes to one
\* field.
TextInputInv == TypeOK /\ KeyboardHasTheSession /\ OneFieldEach

\* The next message is an update the host sent before it took the last state.
Crosses ==
  toUi # <<>> /\ Head(toUi).type = "update" /\ Head(toUi).seen # session.number

\* A keystroke or a paste that is not underlined goes only when the program
\* empties the field, or with an update that crossed a state.
EnteredStays ==
  [][\A f \in Fields : \A m \in (value[f].text \ value[f].marked) \ Strings :
       m \in value'[f].text \/ value'[f] = NoText \/ crossed \/ untold \/ Crosses]_vars

\* What the host holds for the attached field comes to be shown there, unless
\* it is taken back or the session ends first.
Holds(m, f) ==
  /\ model # None /\ m \in model.text
  /\ session.slot # None /\ session.slot = [id |-> client, field |-> f]

TypedIsShown ==
  \A m \in Keys, f \in Fields :
    Holds(m, f) ~> (m \in value[f].text \/ ~Holds(m, f) \/ crossed \/ untold \/ f \notin alive)
=============================================================================
