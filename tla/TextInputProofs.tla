--------------------------- MODULE TextInputProofs ---------------------------
(***************************************************************************)
(* Proofs about TextInput, for any fields, marks and callbacks.  The field *)
(* with the keyboard is the one that is attached to the platform, no other *)
(* field keeps a connection, and what is typed goes to one field.  At rest *)
(* the host holds the text of that field, and what was entered stays.      *)
(***************************************************************************)
EXTENDS TextInput, TLAPS, SequenceTheorems, FiniteSetTheorems

(***************************************************************************)
(* Types, those of the queues included.                                    *)
(***************************************************************************)

Slots == [id : Nat, field : Fields]
Models == [text : SUBSET Marks, marked : SUBSET Marks, composing : BOOLEAN]

UiMessages ==
  [type : {"update"}, id : Nat, text : SUBSET Marks, marked : SUBSET Marks, seen : Nat]
    \union [type : {"action"}, id : Nat]
    \union [type : {"key"}, key : Keys \union {Enter}]

HostMessages ==
  [type : {"clear"}] \union [type : {"client"}, id : Nat]
    \union [type : {"state"}, value : Texts, number : Nat]
    \union [type : {"verdict"}, key : Keys \union {Enter}]

PlainSteps ==
  [op : {"begin", "change", "commit", "end", "send", "enter"},
   string : SUBSET Strings, then : {<<>>}]
Compositions == [op : {"composition"}, string : {{}}, then : Seq(PlainSteps)]

\* A keystroke is the one step of its window message.
Adds(k) == todo = <<EditStep("add", {k})>>

SessionType(s) ==
  s \in [slot : Slots \union {None}, connection : [Fields -> Nat \union {None}],
         next : Nat, number : Nat, focus : Fields \union {None},
         sent : Seq(HostMessages)]

TypeInv ==
  /\ TypeOK
  /\ SessionType(session)
  /\ client \in Nat /\ took \in Nat
  /\ toUi \in Seq(UiMessages)
  /\ toHost \in Seq(HostMessages)
  /\ toWindow \in Seq(Keys \union {Enter})
  /\ todo \in Seq(PlainSteps \union Compositions) \/ \E k \in Keys : Adds(k)
  /\ clearing # "no" => toHost # <<>>

(***************************************************************************)
(* The keyboard and the connections.                                       *)
(***************************************************************************)

\* The field with the keyboard has a connection, and it alone: this holds
\* inside a callback too, when the slot is empty.
OnlyTheFocused(s) ==
  \A f \in Fields : s.connection[f] # None <=> s.focus = f

FocusedIsAttached(s) ==
  s.focus # None => Attached(s, s.focus) /\ s.slot.field = s.focus

\* What the callbacks of a field may find.
InCallback(s) == SessionType(s) /\ OnlyTheFocused(s)

ConnectionInv == OnlyTheFocused(session) /\ FocusedIsAttached(session)

(***************************************************************************)
(* The numbers of sessions only grow, and in this order: the host's, those *)
(* on the way to it, the one in the slot.                                  *)
(***************************************************************************)

Numbered(q) ==
  /\ \A i \in DOMAIN q : q[i].type = "client" => client < q[i].id /\ q[i].id < session.next
  /\ \A i, j \in DOMAIN q :
       i < j /\ q[i].type = "client" /\ q[j].type = "client" => q[i].id < q[j].id

NumbersInv ==
  /\ client < session.next
  /\ session.slot # None => session.slot.id + 1 = session.next
  /\ Numbered(toHost)
  /\ \A i \in DOMAIN toUi : toUi[i].type = "update" => toUi[i].id < session.next

(***************************************************************************)
(* What will be text of the field in the slot - the host's model, what is  *)
(* on the way from it, what is on the way to it - has no keystroke that    *)
(* another field shows.                                                    *)
(***************************************************************************)

Apart(text, f) ==
  \A k \in Keys, g \in Fields : k \in text /\ g # f => k \notin value[g].text

OneField == \A f \in Fields : Apart(value[f].text, f)

\* No other session starts after this message.
NoneBeginsAfter(q, i) == \A j \in DOMAIN q : i < j => q[j].type # "client"

LiveModel(s) == model # None /\ client = s.id => Apart(model.text, s.field)

LiveUpdates(s) ==
  \A i \in DOMAIN toUi :
    toUi[i].type = "update" /\ toUi[i].id = s.id => Apart(toUi[i].text, s.field)

LiveStates(q, s) ==
  \A i \in DOMAIN q :
    q[i].type = "state" /\ NoneBeginsAfter(q, i) => Apart(q[i].value.text, s.field)

Live(s) == LiveModel(s) /\ LiveUpdates(s) /\ LiveStates(toHost, s)

LiveInv == OneField /\ (session.slot # None => Live(session.slot))

(***************************************************************************)
(* A keystroke is in one place at most until it is typed, and is then in   *)
(* no queue as a keystroke.                                                *)
(***************************************************************************)

Has(q, x) == \E i \in DOMAIN q : q[i] = x
Once(q, x) == \A i, j \in DOMAIN q : q[i] = x /\ q[j] = x => i = j

InUpdates(q, k) == \E i \in DOMAIN q : q[i].type = "update" /\ k \in q[i].text
InStates(q, k) == \E i \in DOMAIN q : q[i].type = "state" /\ k \in q[i].value.text
InModel(k) == model # None /\ k \in model.text
InFields(k) == \E f \in Fields : k \in value[f].text

Typed(k) == InFields(k) \/ InModel(k) \/ InUpdates(toUi, k) \/ InStates(toHost, k)

Pressed(k) == Has(toUi, KeyEvent(k))
Answered(k) == Has(toHost, Verdict(k))
Declined(k) == Has(toWindow, k)

KeyOnce(k) ==
  /\ Once(toUi, KeyEvent(k)) /\ Once(toHost, Verdict(k)) /\ Once(toWindow, k)
  /\ Pressed(k) => ~Answered(k) /\ ~Declined(k) /\ ~Adds(k) /\ ~Typed(k)
  /\ Answered(k) => ~Declined(k) /\ ~Adds(k) /\ ~Typed(k)
  /\ Declined(k) => ~Adds(k) /\ ~Typed(k)
  /\ Adds(k) => ~Typed(k)
  /\ k \notin used => ~Pressed(k) /\ ~Answered(k) /\ ~Declined(k) /\ ~Adds(k) /\ ~Typed(k)

KeysInv == \A k \in Keys : KeyOnce(k)

IInv == TypeInv /\ ConnectionInv /\ NumbersInv /\ LiveInv /\ KeysInv

(***************************************************************************)
(* Queues.                                                                 *)
(***************************************************************************)

\* What is at the head of a queue, and what stays behind it.
LEMMA TailFacts ==
  ASSUME NEW S, NEW q \in Seq(S), q # <<>>
  PROVE  /\ Head(q) \in S /\ Tail(q) \in Seq(S)
         /\ 1 \in DOMAIN q /\ q[1] = Head(q)
         /\ \A i \in DOMAIN Tail(q) :
              i \in Int /\ i >= 1 /\ i + 1 \in DOMAIN q /\ Tail(q)[i] = q[i + 1]
         /\ \A i \in DOMAIN q :
              i \in Int /\ (i # 1 => i - 1 \in DOMAIN Tail(q) /\ Tail(q)[i - 1] = q[i])
<1>1. /\ Head(q) \in S /\ Tail(q) \in Seq(S) /\ Len(Tail(q)) = Len(q) - 1
      /\ \A i \in 1..Len(Tail(q)) : Tail(q)[i] = q[i + 1]
  BY HeadTailProperties
<1>2. DOMAIN q = 1..Len(q) /\ Len(q) \in Nat /\ Len(q) # 0
  BY LenProperties, EmptySeq
<1>3. DOMAIN Tail(q) = 1..Len(Tail(q))
  BY <1>1, LenProperties
<1>4. q[1] = Head(q)
  BY <1>2
<1> QED
  BY <1>1, <1>2, <1>3, <1>4

\* Two queues, one behind the other.
LEMMA ConcatFacts ==
  ASSUME NEW S, NEW q \in Seq(S), NEW r \in Seq(S)
  PROVE  /\ q \o r \in Seq(S)
         /\ \A i \in DOMAIN q : i \in DOMAIN (q \o r) /\ (q \o r)[i] = q[i]
         /\ \A i \in DOMAIN r :
              Len(q) + i \in DOMAIN (q \o r) /\ (q \o r)[Len(q) + i] = r[i]
         /\ \A i \in DOMAIN (q \o r) :
              i \in DOMAIN q \/ \E j \in DOMAIN r : i = Len(q) + j
         /\ Len(q) \in Nat
         /\ \A i \in DOMAIN q : i \in Int /\ 1 <= i /\ i <= Len(q)
         /\ \A i \in DOMAIN r : i \in Int /\ 1 <= i
<1>1. /\ q \o r \in Seq(S) /\ Len(q \o r) = Len(q) + Len(r)
      /\ \A i \in 1..(Len(q) + Len(r)) :
           (q \o r)[i] = IF i <= Len(q) THEN q[i] ELSE r[i - Len(q)]
  BY ConcatProperties
<1>2. /\ DOMAIN q = 1..Len(q) /\ Len(q) \in Nat
      /\ DOMAIN r = 1..Len(r) /\ Len(r) \in Nat
  BY LenProperties
<1>3. DOMAIN (q \o r) = 1..(Len(q) + Len(r))
  BY <1>1, LenProperties
<1>4. ASSUME NEW i \in DOMAIN (q \o r), i \notin DOMAIN q
      PROVE  \E j \in DOMAIN r : i = Len(q) + j
  <2>1. i - Len(q) \in DOMAIN r /\ i = Len(q) + (i - Len(q))
    BY <1>2, <1>3, <1>4
  <2> QED
    BY <2>1
<1> QED
  BY <1>1, <1>2, <1>3, <1>4

\* One message behind a queue.
LEMMA AppendFacts ==
  ASSUME NEW S, NEW q \in Seq(S), NEW x \in S
  PROVE  /\ Append(q, x) \in Seq(S) /\ Append(q, x) # <<>>
         /\ Len(q) \in Nat
         /\ DOMAIN Append(q, x) = DOMAIN q \union {Len(q) + 1}
         /\ \A i \in DOMAIN q : i \in Int /\ i <= Len(q) /\ Append(q, x)[i] = q[i]
         /\ Append(q, x)[Len(q) + 1] = x
<1>1. DOMAIN q = 1..Len(q) /\ Len(q) \in Nat
  BY LenProperties
<1>2. DOMAIN Append(q, x) = 1..(Len(q) + 1)
  BY AppendProperties, LenProperties
<1> QED
  BY <1>1, <1>2, AppendProperties

\* What is taken from a queue is not in it any more, if it was there once.
LEMMA TailHas ==
  ASSUME NEW S, NEW q \in Seq(S), q # <<>>, NEW x
  PROVE  /\ Head(q) = x => Has(q, x)
         /\ Has(Tail(q), x) => Has(q, x)
         /\ Once(q, x) => Once(Tail(q), x)
         /\ Once(q, x) /\ Head(q) = x => ~Has(Tail(q), x)
<1>1. /\ 1 \in DOMAIN q /\ q[1] = Head(q)
      /\ \A i \in DOMAIN Tail(q) :
           i \in Int /\ i >= 1 /\ i + 1 \in DOMAIN q /\ Tail(q)[i] = q[i + 1]
  BY TailFacts
<1>2. Head(q) = x => Has(q, x)
  BY <1>1 DEF Has
<1>3. Has(Tail(q), x) => Has(q, x)
  BY <1>1 DEF Has
<1>4. Once(q, x) => Once(Tail(q), x)
  BY <1>1 DEF Once
<1>5. Once(q, x) /\ Head(q) = x => ~Has(Tail(q), x)
  BY <1>1 DEF Has, Once
<1> QED
  BY <1>2, <1>3, <1>4, <1>5

\* What is put behind a queue is in it.
LEMMA AppendHas ==
  ASSUME NEW S, NEW q \in Seq(S), NEW y \in S, NEW x
  PROVE  /\ Has(Append(q, y), x) <=> Has(q, x) \/ y = x
         /\ Once(q, x) /\ (y # x \/ ~Has(q, x)) => Once(Append(q, y), x)
<1>1. /\ Len(q) \in Nat /\ DOMAIN Append(q, y) = DOMAIN q \union {Len(q) + 1}
      /\ \A i \in DOMAIN q : Append(q, y)[i] = q[i]
      /\ Append(q, y)[Len(q) + 1] = y
  BY AppendFacts
<1>2. Has(Append(q, y), x) <=> Has(q, x) \/ y = x
  BY <1>1 DEF Has
<1>3. Once(q, x) /\ (y # x \/ ~Has(q, x)) => Once(Append(q, y), x)
  BY <1>1 DEF Has, Once
<1> QED
  BY <1>2, <1>3

\* What is not in what is put behind a queue was in the queue.
LEMMA ConcatHas ==
  ASSUME NEW S, NEW q \in Seq(S), NEW r \in Seq(S), NEW x,
         \A i \in DOMAIN r : r[i] # x
  PROVE  /\ Has(q \o r, x) => Has(q, x)
         /\ Once(q, x) => Once(q \o r, x)
<1>1. /\ \A i \in DOMAIN q : (q \o r)[i] = q[i]
      /\ \A i \in DOMAIN r : (q \o r)[Len(q) + i] = r[i]
      /\ \A i \in DOMAIN (q \o r) :
           i \in DOMAIN q \/ \E j \in DOMAIN r : i = Len(q) + j
  BY ConcatFacts
<1>2. \A i \in DOMAIN (q \o r) : (q \o r)[i] = x => i \in DOMAIN q /\ q[i] = x
  BY <1>1
<1>3. Has(q \o r, x) => Has(q, x)
  BY <1>2 DEF Has
<1>4. Once(q, x) => Once(q \o r, x)
  BY <1>2 DEF Once
<1> QED
  BY <1>3, <1>4

(***************************************************************************)
(* The operators on sessions.                                              *)
(***************************************************************************)

\* A step of the session that starts no other one, and tells the host only of
\* its end.
Ends(s) ==
  /\ s.slot \in {session.slot, None} /\ s.next = session.next
  /\ s.number = session.number
  /\ s.slot # None => s.sent = <<>>
  /\ \A i \in DOMAIN s.sent : s.sent[i].type = "clear"

\* A step that starts one, for a field whose text follows to the host.
BeginsFor(s, f) ==
  /\ s.slot = [id |-> session.next, field |-> f] /\ s.next = session.next + 1
  /\ \A i \in DOMAIN s.sent :
       /\ s.sent[i].type \in {"clear", "client", "state"}
       /\ s.sent[i].type = "client" => s.sent[i].id = session.next
       /\ s.sent[i].type = "state" => s.sent[i].value = value[f]
  /\ \A i, j \in DOMAIN s.sent :
       s.sent[i].type = "client" /\ s.sent[j].type = "client" => i = j
  /\ s.number = session.number + 1
  /\ \E i \in DOMAIN s.sent :
       /\ i + 1 \in DOMAIN s.sent
       /\ s.sent[i] = SetClient(session.next)
       /\ s.sent[i + 1] = SetEditingState(value[f], s.number)
       /\ \A j \in DOMAIN s.sent : j \in {i, i + 1} \/ (j < i /\ s.sent[j].type = "clear")

Begins(s) == \E f \in Fields : BeginsFor(s, f)

SentAtMostClear(s) == s.sent = <<>> \/ s.sent = <<ClearClient>>

\* What is sent are messages for the host.
LEMMA MessageTypes ==
  /\ ClearClient \in HostMessages
  /\ \A n \in Nat : SetClient(n) \in HostMessages
  /\ \A v \in Texts, n \in Nat : SetEditingState(v, n) \in HostMessages
  /\ \A k \in Keys \union {Enter} : Verdict(k) \in HostMessages
BY DEF ClearClient, SetClient, SetEditingState, Verdict, HostMessages

\* A field that loses the keyboard drops its connection, whether or not it is
\* still the one the platform edits (TextInputConnection::close).
LEMMA ClosedLeavesNone ==
  ASSUME NEW s, InCallback(s), NEW f \in Fields, s.focus = f, s.sent = <<>>
  PROVE  /\ SessionType(Closed(s, f)) /\ SentAtMostClear(Closed(s, f))
         /\ \A g \in Fields : Closed(s, f).connection[g] = None
         /\ Closed(s, f).focus = f /\ Closed(s, f).next = s.next
         /\ Closed(s, f).slot \in {s.slot, None} /\ Closed(s, f).number = s.number
         /\ s.slot = None \/ Closed(s, f).slot # None => Closed(s, f).sent = <<>>
<1> DEFINE c == Closed(s, f)
           calls == IF Attached(s, f) THEN <<ClearClient>> ELSE <<>>
<1>0. Append(s.sent, ClearClient) = <<ClearClient>>
  BY MessageTypes
<1>1. c \in [slot : {s.slot, None}, connection : {[s.connection EXCEPT ![f] = None]},
             next : {s.next}, number : {s.number}, focus : {s.focus}, sent : {calls}]
  BY <1>0 DEF Closed, InCallback, SessionType
<1>a. s.slot = None \/ c.slot # None => calls = <<>>
  <2>1. CASE Attached(s, f)
    <3>1. c.slot = None /\ s.slot # None
      BY <2>1 DEF Closed, InCallback, SessionType, Attached
    <3> QED
      BY <3>1
  <2> QED
    BY <2>1
<1>2. calls \in Seq(HostMessages) /\ SentAtMostClear(c)
  BY <1>1, MessageTypes DEF SentAtMostClear
<1>3. [s.connection EXCEPT ![f] = None] \in [Fields -> Nat \union {None}]
  BY DEF InCallback, SessionType
<1>4. \A g \in Fields : [s.connection EXCEPT ![f] = None][g] = None
  BY DEF InCallback, SessionType, OnlyTheFocused
<1>5. s.slot \in Slots \union {None} /\ s.next \in Nat /\ s.number \in Nat
        /\ s.focus \in Fields \union {None}
  BY DEF InCallback, SessionType
<1> HIDE DEF c, calls
<1>6. SessionType(c)
  BY <1>1, <1>2, <1>3, <1>5 DEF SessionType
<1>7. /\ \A g \in Fields : c.connection[g] = None
      /\ c.focus = f /\ c.next = s.next /\ c.slot \in {s.slot, None}
      /\ c.number = s.number /\ c.sent = calls
  BY <1>1, <1>4
<1> QED
  BY <1>2, <1>6, <1>7, <1>a DEF c

\* A field that gains the keyboard, when no field has a connection, is attached
\* with one that no other field has (attach).
LEMMA OpenedHasIt ==
  ASSUME NEW s, SessionType(s), \A g \in Fields : s.connection[g] = None,
         NEW f \in Fields, s.focus = f, SentAtMostClear(s), s.next = session.next,
         s.number = session.number, TypeOK
  PROVE  /\ InCallback(Opened(s, f)) /\ FocusedIsAttached(Opened(s, f))
         /\ Begins(Opened(s, f)) /\ Opened(s, f).focus = f
<1> DEFINE o == Opened(s, f)
           slot == [id |-> s.next, field |-> f]
           C == SetClient(s.next)
           E == SetEditingState(value[f], s.number + 1)
           calls == s.sent \o (IF s.slot = None THEN <<>> ELSE <<ClearClient>>) \o <<C, E>>
<1>1. o \in [slot : {slot}, connection : {[s.connection EXCEPT ![f] = s.next]},
             next : {s.next + 1}, number : {s.number + 1}, focus : {s.focus},
             sent : {calls}]
  BY DEF Opened, SessionType
<1>2. /\ s.next \in Nat /\ s.next # None /\ slot \in Slots /\ slot # None /\ f # None
      /\ s.number \in Nat /\ s.next + 1 \in Nat /\ s.number + 1 \in Nat
  BY NoneIsNone DEF SessionType, Slots
<1>3. [s.connection EXCEPT ![f] = s.next] \in [Fields -> Nat \union {None}]
  BY <1>2 DEF SessionType
<1>4. \A g \in Fields : [s.connection EXCEPT ![f] = s.next][g] =
                          IF g = f THEN s.next ELSE None
  BY DEF SessionType
<1>5. C \in HostMessages /\ E \in HostMessages /\ ClearClient \in HostMessages
  BY <1>2, MessageTypes DEF TypeOK
<1> DEFINE more == IF s.slot = None THEN <<>> ELSE <<ClearClient>>
           clears == s.sent \o more
           opens == <<C, E>>
<1>6. C.type = "client" /\ C.id = s.next /\ E.type = "state" /\ E.value = value[f]
        /\ ClearClient.type = "clear"
  BY DEF SetClient, SetEditingState, ClearClient
<1> HIDE DEF C, E
<1>7. /\ s.sent \in Seq(HostMessages) /\ \A i \in DOMAIN s.sent : s.sent[i] = ClearClient
      /\ more \in Seq(HostMessages) /\ \A i \in DOMAIN more : more[i] = ClearClient
      /\ opens \in Seq(HostMessages)
      /\ DOMAIN opens = 1..2 /\ opens[1] = C /\ opens[2] = E
  <2>1. ASSUME NEW q, q \in {<<>>, <<ClearClient>>}
        PROVE  q \in Seq(HostMessages) /\ \A i \in DOMAIN q : q[i] = ClearClient
    <3>1. CASE q = <<>>
      BY <3>1
    <3>2. CASE q = <<ClearClient>>
      <4>1. DOMAIN q = 1..1 /\ q[1] = ClearClient /\ q \in Seq(HostMessages)
        BY <1>5, <3>2
      <4> QED
        BY <4>1
    <3> QED
      BY <2>1, <3>1, <3>2
  <2>2. s.sent \in {<<>>, <<ClearClient>>} /\ more \in {<<>>, <<ClearClient>>}
    BY DEF SentAtMostClear
  <2>3. opens \in Seq(HostMessages)
    BY <1>5
  <2>4. DOMAIN opens = 1..2 /\ opens[1] = C /\ opens[2] = E
    OBVIOUS
  <2> QED
    BY <2>1, <2>2, <2>3, <2>4
<1> HIDE DEF more, opens
<1>8. clears \in Seq(HostMessages) /\ \A i \in DOMAIN clears : clears[i] = ClearClient
  BY <1>7, ConcatFacts
<1> HIDE DEF clears
<1>9. /\ calls \in Seq(HostMessages)
      /\ \A i \in DOMAIN calls :
           \/ calls[i] = ClearClient
           \/ i = Len(clears) + 1 /\ calls[i] = C
           \/ i = Len(clears) + 2 /\ calls[i] = E
      /\ Len(clears) + 1 \in DOMAIN calls /\ calls[Len(clears) + 1] = C
      /\ Len(clears) + 2 \in DOMAIN calls /\ calls[Len(clears) + 2] = E
      /\ \A i \in DOMAIN calls :
           \/ i < Len(clears) + 1 /\ calls[i] = ClearClient
           \/ i = Len(clears) + 1 \/ i = Len(clears) + 2
      /\ Len(clears) \in Nat
  <2>1. calls = clears \o opens
    BY DEF clears, more, opens, C, E
  <2>2. /\ clears \o opens \in Seq(HostMessages)
        /\ \A i \in DOMAIN clears : (clears \o opens)[i] = clears[i]
        /\ \A i \in DOMAIN opens :
             /\ Len(clears) + i \in DOMAIN (clears \o opens)
             /\ (clears \o opens)[Len(clears) + i] = opens[i]
        /\ \A i \in DOMAIN (clears \o opens) :
             i \in DOMAIN clears \/ \E j \in DOMAIN opens : i = Len(clears) + j
        /\ Len(clears) \in Nat /\ \A i \in DOMAIN clears : i \in Int /\ i <= Len(clears)
    <3>1. clears \in Seq(HostMessages) /\ opens \in Seq(HostMessages)
      BY <1>7, <1>8
    <3> QED
      BY <3>1, ConcatFacts
  <2> HIDE DEF calls
  <2>3. 1 \in DOMAIN opens /\ 2 \in DOMAIN opens /\ \A j \in DOMAIN opens : j = 1 \/ j = 2
    BY <1>7
  <2>4. /\ calls \in Seq(HostMessages)
        /\ \A i \in DOMAIN calls :
             \/ i < Len(clears) + 1 /\ calls[i] = ClearClient
             \/ i = Len(clears) + 1 /\ calls[i] = C
             \/ i = Len(clears) + 2 /\ calls[i] = E
    BY <1>7, <1>8, <2>1, <2>2, <2>3
  <2>5. /\ Len(clears) + 1 \in DOMAIN calls /\ calls[Len(clears) + 1] = C
        /\ Len(clears) + 2 \in DOMAIN calls /\ calls[Len(clears) + 2] = E
    BY <1>7, <2>1, <2>2, <2>3
  <2> QED
    BY <2>2, <2>4, <2>5
<1> HIDE DEF o, slot, calls
<1>10. SessionType(o)
  BY <1>1, <1>2, <1>3, <1>9 DEF SessionType
<1>11. /\ o.slot = slot /\ o.next = s.next + 1 /\ o.focus = f /\ o.sent = calls
       /\ \A g \in Fields : o.connection[g] = IF g = f THEN s.next ELSE None
  BY <1>1, <1>4
<1>12. OnlyTheFocused(o)
  BY <1>2, <1>11 DEF OnlyTheFocused
<1>13. FocusedIsAttached(o)
  BY <1>2, <1>11 DEF FocusedIsAttached, Attached, slot
<1>14. BeginsFor(o, f)
  <2>1. /\ \A i \in DOMAIN o.sent :
             /\ o.sent[i].type \in {"clear", "client", "state"}
             /\ o.sent[i].type = "client" => o.sent[i] = C /\ i = Len(clears) + 1
             /\ o.sent[i].type = "state" => o.sent[i] = E
    BY <1>6, <1>9, <1>11
  <2>2. /\ o.number = session.number + 1
        /\ \E i \in DOMAIN o.sent :
             /\ i + 1 \in DOMAIN o.sent
             /\ o.sent[i] = SetClient(session.next)
             /\ o.sent[i + 1] = SetEditingState(value[f], o.number)
             /\ \A j \in DOMAIN o.sent : j \in {i, i + 1} \/ (j < i /\ o.sent[j].type = "clear")
    <3> DEFINE n == Len(clears) + 1
    <3>1. n \in DOMAIN calls /\ calls[n] = C /\ n + 1 \in DOMAIN calls /\ calls[n + 1] = E
      <4>1. n + 1 = Len(clears) + 2
        BY <1>9
      <4> QED
        BY <1>9, <4>1
    <3>2. \A j \in DOMAIN calls : j \in {n, n + 1} \/ (j < n /\ calls[j] = ClearClient)
      <4>1. n = Len(clears) + 1 /\ n + 1 = Len(clears) + 2
        BY <1>9
      <4>2. \A j \in DOMAIN calls :
              \/ j < Len(clears) + 1 /\ calls[j] = ClearClient
              \/ j = Len(clears) + 1
              \/ j = Len(clears) + 2
        BY <1>9
      <4> HIDE DEF n, clears
      <4> QED
        BY <4>1, <4>2
    <3>3. o.number = session.number + 1
      BY <1>1
    <3> HIDE DEF n
    <3> QED
      BY <1>6, <1>11, <3>1, <3>2, <3>3 DEF C, E
  <2>3. o.slot = [id |-> session.next, field |-> f] /\ o.next = session.next + 1
    BY <1>11 DEF slot
  <2> QED
    BY <1>6, <2>1, <2>2, <2>3 DEF BeginsFor
<1> QED
  BY <1>10, <1>11, <1>12, <1>13, <1>14 DEF InCallback, Begins, o

\* A move of the focus, from a callback as well, leaves the field that gains
\* the keyboard attached.
LEMMA MovedHasIt ==
  ASSUME NEW s, InCallback(s), s.sent = <<>>, s.next = session.next,
         s.number = session.number, s.slot \in {session.slot, None},
         NEW f \in Fields \union {None}, f # s.focus, TypeOK
  PROVE  /\ InCallback(Moved(s, f)) /\ FocusedIsAttached(Moved(s, f))
         /\ Moved(s, f).focus = f
         /\ \/ Ends(Moved(s, f)) /\ (s.slot = None => Moved(s, f).sent = <<>>)
            \/ Begins(Moved(s, f))
<1> DEFINE lost == IF s.focus = None THEN s ELSE Closed(s, s.focus)
           moved == [lost EXCEPT !.focus = f]
<1>1. /\ SessionType(lost) /\ \A g \in Fields : lost.connection[g] = None
      /\ SentAtMostClear(lost) /\ lost.next = session.next
      /\ lost.slot \in {session.slot, None} /\ lost.number = session.number
      /\ s.slot = None \/ lost.slot # None => lost.sent = <<>>
  <2>1. CASE s.focus = None
    BY <2>1, NoneIsNone DEF InCallback, OnlyTheFocused, SentAtMostClear
  <2>2. CASE s.focus # None
    <3>1. s.focus \in Fields
      BY <2>2 DEF InCallback, SessionType
    <3> QED
      BY <2>2, <3>1, ClosedLeavesNone
  <2> QED
    BY <2>1, <2>2
<1> HIDE DEF lost
<1>2. moved \in [slot : {lost.slot}, connection : {lost.connection},
                 next : {lost.next}, number : {lost.number}, focus : {f},
                 sent : {lost.sent}]
  BY <1>1 DEF SessionType
<1> HIDE DEF moved
<1>3. /\ SessionType(moved) /\ moved.focus = f
      /\ \A g \in Fields : moved.connection[g] = None
      /\ moved.sent = lost.sent /\ moved.slot = lost.slot /\ moved.next = lost.next
      /\ moved.number = lost.number
  BY <1>1, <1>2 DEF SessionType
<1>4. SentAtMostClear(moved)
  BY <1>1, <1>3 DEF SentAtMostClear
<1>5. CASE f = None
  <2>1. Moved(s, f) = moved
    BY <1>5 DEF Moved, lost, moved
  <2>2. OnlyTheFocused(moved) /\ FocusedIsAttached(moved)
    BY <1>3, <1>5, NoneIsNone DEF OnlyTheFocused, FocusedIsAttached
  <2>3. \A i \in DOMAIN moved.sent : moved.sent[i].type = "clear"
    <3>1. CASE moved.sent = <<>>
      BY <3>1
    <3>2. CASE moved.sent = <<ClearClient>>
      <4>1. DOMAIN moved.sent = 1..1 /\ moved.sent[1] = ClearClient
        BY <3>2
      <4> QED
        BY <4>1 DEF ClearClient
    <3> QED
      BY <1>4, <3>1, <3>2 DEF SentAtMostClear
  <2>4. Ends(moved)
    BY <1>1, <1>3, <2>3 DEF Ends
  <2> QED
    BY <1>1, <1>3, <1>5, <2>1, <2>2, <2>4 DEF InCallback
<1>6. CASE f # None
  <2>1. Moved(s, f) = Opened(moved, f)
    BY <1>6 DEF Moved, lost, moved
  <2>2. f \in Fields /\ moved.next = session.next /\ moved.number = session.number
    BY <1>1, <1>3, <1>6
  <2>3. InCallback(Opened(moved, f)) /\ FocusedIsAttached(Opened(moved, f))
          /\ Begins(Opened(moved, f)) /\ Opened(moved, f).focus = f
    BY <1>3, <1>4, <2>2, OpenedHasIt
  <2> QED
    BY <2>1, <2>3
<1> QED
  BY <1>5, <1>6

\* A client that runs with the slot empty leaves the field with the keyboard
\* attached: by the session that is put back, or by the one a callback opened
\* (with_client).
LEMMA ClientKeeps ==
  ASSUME TypeInv, ConnectionInv, NEW how
  PROVE  LET s == WithClient(how)
         IN  /\ InCallback(s) /\ FocusedIsAttached(s)
             /\ Ends(s) \/ Begins(s)
             /\ s.focus \in {session.focus, NextField(session.focus), None}
<1> DEFINE empty == [session EXCEPT !.slot = None]
           s == React(empty, how)
<1>1. /\ InCallback(empty) /\ empty.focus = session.focus /\ empty.slot = None
      /\ empty.sent = <<>> /\ empty.next = session.next /\ empty.number = session.number
      /\ empty.connection = session.connection
  BY DEF TypeInv, TypeOK, ConnectionInv, InCallback, SessionType, OnlyTheFocused
<1>2. NextField(empty.focus) \in Fields \union {None}
  BY <1>1 DEF NextField, TypeInv, TypeOK
<1>e. Ends(empty)
  BY <1>1 DEF Ends
<1>3. /\ InCallback(s)
      /\ (Ends(s) /\ s.sent = <<>>) \/ Begins(s)
      /\ s = empty \/ FocusedIsAttached(s)
      /\ s.focus \in {session.focus, NextField(session.focus), None}
  <2>1. ASSUME NEW f \in Fields \union {None}
        PROVE  /\ InCallback(Moved(empty, f))
               /\ \/ Ends(Moved(empty, f)) /\ Moved(empty, f).sent = <<>>
                  \/ Begins(Moved(empty, f))
               /\ Moved(empty, f) = empty \/ FocusedIsAttached(Moved(empty, f))
               /\ Moved(empty, f).focus \in {session.focus, f}
    <3>1. CASE f = empty.focus
      <4>1. Moved(empty, f) = empty
        BY <3>1 DEF Moved
      <4> QED
        BY <1>1, <1>e, <4>1
    <3>2. CASE f # empty.focus
      <4> HIDE DEF empty
      <4> QED
        BY <1>1, <3>2, MovedHasIt DEF TypeInv
    <3> QED
      BY <3>1, <3>2
  <2>2. s \in {empty, Moved(empty, NextField(empty.focus)), Moved(empty, None)}
    BY DEF React
  <2> QED
    BY <1>1, <1>2, <1>e, <2>1, <2>2
<1> HIDE DEF empty, s
<1>4. CASE s.slot # None
  <2>1. WithClient(how) = s
    BY <1>4 DEF WithClient, s, empty
  <2> QED
    BY <1>1, <1>3, <1>4, <2>1
<1>5. CASE s.slot = None
  <2> DEFINE back == [s EXCEPT !.slot = session.slot]
  <2>1. WithClient(how) = back
    BY <1>5 DEF WithClient, s, empty
  <2>2. /\ back.slot = session.slot /\ back.connection = s.connection
        /\ back.focus = s.focus /\ back.next = s.next /\ back.sent = s.sent
        /\ back.number = s.number /\ SessionType(back)
    BY <1>3 DEF InCallback, SessionType, TypeInv
  <2> HIDE DEF back
  <2>3. OnlyTheFocused(back)
    BY <1>3, <2>2 DEF InCallback, OnlyTheFocused
  <2>4. FocusedIsAttached(back)
    <3>1. CASE s = empty
      BY <1>1, <2>2, <3>1 DEF ConnectionInv, FocusedIsAttached, Attached
    <3>2. CASE FocusedIsAttached(s)
      BY <1>5, <2>2, <3>2 DEF FocusedIsAttached, Attached
    <3> QED
      BY <1>3, <3>1, <3>2
  <2>5. Ends(s) /\ s.sent = <<>>
    BY <1>3, <1>5, NoneIsNone DEF Begins, BeginsFor, TypeInv, SessionType, Slots
  <2>6. Ends(back)
    BY <2>2, <2>5 DEF Ends
  <2> QED
    BY <1>3, <2>1, <2>2, <2>3, <2>4, <2>6 DEF InCallback
<1> QED
  BY <1>4, <1>5

\* A field that goes closes its session, and no other field's (dispose).
LEMMA DisposedKeeps ==
  ASSUME TypeInv, ConnectionInv, NEW f \in Fields,
         NEW s, s = [Closed(session, f) EXCEPT
                       !.focus = IF session.focus = f THEN None ELSE session.focus]
  PROVE  InCallback(s) /\ FocusedIsAttached(s) /\ Ends(s)
<1> DEFINE c == Closed(session, f)
<1>1. CASE session.focus = f
  <2>1. /\ SessionType(c) /\ \A g \in Fields : c.connection[g] = None
        /\ SentAtMostClear(c) /\ c.next = session.next
        /\ c.slot \in {session.slot, None} /\ c.number = session.number
        /\ c.slot # None => c.sent = <<>>
    BY <1>1, ClosedLeavesNone DEF TypeInv, TypeOK, ConnectionInv, InCallback
  <2>2. s = [c EXCEPT !.focus = None]
    BY <1>1
  <2> HIDE DEF c
  <2>3. /\ SessionType(s) /\ s.focus = None /\ \A g \in Fields : s.connection[g] = None
        /\ s.sent = c.sent /\ s.next = session.next /\ s.slot \in {session.slot, None}
        /\ s.number = session.number /\ (s.slot # None => s.sent = <<>>)
    BY <2>1, <2>2 DEF SessionType
  <2>4. \A i \in DOMAIN s.sent : s.sent[i].type = "clear"
    <3>1. CASE s.sent = <<>>
      BY <3>1
    <3>2. CASE s.sent = <<ClearClient>>
      <4>1. DOMAIN s.sent = 1..1 /\ s.sent[1] = ClearClient
        BY <3>2
      <4> QED
        BY <4>1 DEF ClearClient
    <3> QED
      BY <2>1, <2>3, <3>1, <3>2 DEF SentAtMostClear
  <2> QED
    BY <2>3, <2>4, NoneIsNone
       DEF InCallback, OnlyTheFocused, FocusedIsAttached, Ends
<1>2. CASE session.focus # f
  <2>1. session.connection[f] = None
    BY <1>2 DEF ConnectionInv, OnlyTheFocused
  <2>2. ~Attached(session, f)
    BY <2>1, NoneIsNone DEF Attached, TypeInv, SessionType, Slots
  <2>3. c = [session EXCEPT !.connection[f] = None]
    BY <2>2 DEF Closed
  <2>4. [session.connection EXCEPT ![f] = None] = session.connection
    BY <2>1 DEF TypeInv, SessionType
  <2>5. c = session
    BY <2>3, <2>4 DEF TypeInv, SessionType
  <2>6. s = session
    BY <1>2, <2>5 DEF TypeInv, SessionType
  <2>7. session.sent = <<>> /\ \A i \in DOMAIN session.sent : FALSE
    <3>1. session.sent = <<>>
      BY DEF TypeInv, TypeOK
    <3> QED
      BY <3>1
  <2> QED
    BY <2>6, <2>7 DEF TypeInv, ConnectionInv, InCallback, Ends
<1> QED
  BY <1>1, <1>2

\* A push goes to the host from the field in the slot, and changes nothing of
\* who is attached (push_to_platform).
LEMMA PushedKeeps ==
  ASSUME TypeInv, ConnectionInv, NEW f \in Fields, NEW v \in Texts
  PROVE  LET s == Pushed(session, f, v)
         IN  /\ InCallback(s) /\ FocusedIsAttached(s)
             /\ s.slot = session.slot /\ s.next = session.next /\ s.focus = session.focus
             /\ IF Attached(session, f)
                  THEN /\ s.number = session.number + 1
                       /\ s.sent = <<SetEditingState(v, s.number)>>
                  ELSE s.number = session.number /\ s.sent = <<>>
             /\ \A i \in DOMAIN s.sent :
                  /\ s.sent[i].type = "state" /\ s.sent[i].value = v
                  /\ session.slot # None /\ session.slot.field = f
<1> DEFINE s == Pushed(session, f, v)
           E == SetEditingState(v, session.number + 1)
<1>0. session.sent = <<>>
  BY DEF TypeInv, TypeOK
<1>1. CASE ~Attached(session, f)
  <2>1. Pushed(session, f, v) = session
    BY <1>1 DEF Pushed
  <2>2. InCallback(session) /\ FocusedIsAttached(session) /\ \A i \in DOMAIN session.sent : FALSE
    BY <1>0 DEF TypeInv, ConnectionInv, InCallback
  <2> QED
    BY <1>0, <1>1, <2>1, <2>2
<1>2. CASE Attached(session, f)
  <2>1. session.slot # None /\ session.connection[f] = session.slot.id
    BY <1>2 DEF Attached
  <2>2. session.focus = f
    BY <2>1, NoneIsNone DEF ConnectionInv, OnlyTheFocused, TypeInv, SessionType, Slots
  <2>3. session.slot.field = f
    BY <2>2, NoneIsNone DEF ConnectionInv, FocusedIsAttached
  <2>4. E \in HostMessages
    BY MessageTypes DEF TypeInv, SessionType
  <2>5. Append(session.sent, E) = <<E>> /\ <<E>> \in Seq(HostMessages)
    <3> HIDE DEF E
    <3> QED
      BY <1>0, <2>4
  <2>6. s \in [slot : {session.slot}, connection : {session.connection},
               next : {session.next}, number : {session.number + 1},
               focus : {session.focus}, sent : {<<E>>}]
    BY <1>2, <2>5 DEF Pushed, TypeInv, SessionType
  <2> HIDE DEF s
  <2>7. SessionType(s)
    <3>1. session.number \in Nat /\ session.number + 1 \in Nat
      BY DEF TypeInv, SessionType
    <3> HIDE DEF E
    <3> QED
      BY <2>5, <2>6, <3>1 DEF TypeInv, SessionType
  <2>8. DOMAIN <<E>> = 1..1 /\ <<E>>[1] = E /\ E.type = "state" /\ E.value = v
    BY DEF SetEditingState
  <2>9. \A i \in DOMAIN s.sent : s.sent[i].type = "state" /\ s.sent[i].value = v
    <3> HIDE DEF E
    <3> QED
      BY <2>6, <2>8
  <2> QED
    BY <2>1, <2>3, <2>6, <2>7, <2>9
       DEF InCallback, ConnectionInv, OnlyTheFocused, FocusedIsAttached, Attached, s
<1> QED
  BY <1>1, <1>2

(***************************************************************************)
(* What a step of the session does to the invariant.                       *)
(***************************************************************************)

\* The calls are on their way, and the session has none left.
Sends(s) ==
  /\ session' = [s EXCEPT !.sent = <<>>]
  /\ toHost' = toHost \o s.sent

\* A step that begins no session, and sends states of the field in the slot.
Goes(s) ==
  /\ s.slot \in {session.slot, None} /\ s.next = session.next
  /\ \A i \in DOMAIN s.sent :
       /\ s.sent[i].type \in {"clear", "state"}
       /\ s.sent[i].type = "state" =>
            /\ session.slot # None
            /\ \A k \in Keys : k \in s.sent[i].value.text => k \in value[session.slot.field].text

\* A field comes to show a keystroke only out of an update of its session.
FieldsTake ==
  \A g \in Fields, k \in Keys :
    k \in value'[g].text =>
      \/ k \in value[g].text
      \/ /\ session.slot # None /\ g = session.slot.field
         /\ \E i \in DOMAIN toUi :
              /\ toUi[i].type = "update" /\ toUi[i].id = session.slot.id
              /\ k \in toUi[i].text

\* Who is attached is the same once the calls are on their way.
LEMMA SentKeeps ==
  ASSUME NEW s, InCallback(s), FocusedIsAttached(s), Sends(s), TypeInv
  PROVE  /\ SessionType(session') /\ session'.sent = <<>>
         /\ session'.slot = s.slot /\ session'.next = s.next
         /\ toHost' \in Seq(HostMessages) /\ s.sent \in Seq(HostMessages)
         /\ ConnectionInv'
<1>1. /\ session'.slot = s.slot /\ session'.connection = s.connection
      /\ session'.next = s.next /\ session'.focus = s.focus
      /\ session'.sent = <<>> /\ SessionType(session')
  <2>1. session' \in [slot : {s.slot}, connection : {s.connection}, next : {s.next},
                     number : {s.number}, focus : {s.focus}, sent : {<<>>}]
    BY DEF InCallback, SessionType, Sends
  <2>2. <<>> \in Seq(HostMessages)
    OBVIOUS
  <2> QED
    BY <2>1, <2>2 DEF InCallback, SessionType
<1>2. OnlyTheFocused(session')
  BY <1>1 DEF InCallback, OnlyTheFocused
<1>3. FocusedIsAttached(session')
  BY <1>1 DEF FocusedIsAttached, Attached
<1>4. toHost \in Seq(HostMessages) /\ s.sent \in Seq(HostMessages)
  BY DEF TypeInv, InCallback, SessionType
<1>5. toHost' \in Seq(HostMessages)
  BY <1>4, ConcatFacts DEF Sends
<1> QED
  BY <1>1, <1>2, <1>3, <1>4, <1>5 DEF ConnectionInv

\* Numbers grow with a session that begins, and stay with one that goes on.
LEMMA SessionNumbers ==
  ASSUME NEW s, TypeInv, NumbersInv, Sends(s), InCallback(s), FocusedIsAttached(s),
         Goes(s) \/ Begins(s), UNCHANGED client,
         toUi' = toUi \/ (toUi # <<>> /\ toUi' = Tail(toUi))
  PROVE  NumbersInv'
<1>1. /\ session'.slot = s.slot /\ session'.next = s.next
      /\ s.sent \in Seq(HostMessages) /\ toHost \in Seq(HostMessages)
  BY SentKeeps DEF TypeInv
<1>2. session.next \in Nat /\ client \in Nat
        /\ (session.slot # None => session.slot.id \in Nat)
  BY DEF TypeInv, SessionType, Slots
<1>3. /\ \A i \in DOMAIN toHost : toHost'[i] = toHost[i]
      /\ \A i \in DOMAIN s.sent : toHost'[Len(toHost) + i] = s.sent[i]
      /\ \A i \in DOMAIN toHost' :
           i \in DOMAIN toHost \/ \E j \in DOMAIN s.sent : i = Len(toHost) + j
      /\ Len(toHost) \in Nat
      /\ \A i \in DOMAIN toHost : i \in Int /\ 1 <= i /\ i <= Len(toHost)
      /\ \A i \in DOMAIN s.sent : i \in Int /\ 1 <= i
  BY <1>1, ConcatFacts DEF Sends
<1>4. \A i \in DOMAIN toUi' : \E j \in DOMAIN toUi : toUi'[i] = toUi[j]
  <2>1. CASE toUi # <<>> /\ toUi' = Tail(toUi)
    <3>1. \A i \in DOMAIN Tail(toUi) : i + 1 \in DOMAIN toUi /\ Tail(toUi)[i] = toUi[i + 1]
      BY <2>1, TailFacts DEF TypeInv
    <3> QED
      BY <2>1, <3>1
  <2> QED
    BY <2>1
<1>5. CASE Goes(s)
  <2>1. \A i \in DOMAIN toHost' :
          toHost'[i].type = "client" => i \in DOMAIN toHost /\ toHost'[i] = toHost[i]
    BY <1>3, <1>5 DEF Goes
  <2>2. Numbered(toHost)'
    BY <1>1, <1>5, <2>1 DEF Numbered, NumbersInv, Goes
  <2>3. \A i \in DOMAIN toUi' : toUi'[i].type = "update" => toUi'[i].id < session'.next
    BY <1>1, <1>4, <1>5 DEF NumbersInv, Goes
  <2> QED
    BY <1>1, <1>5, <2>2, <2>3 DEF NumbersInv, Goes
<1>6. CASE Begins(s)
  <2> PICK f \in Fields : BeginsFor(s, f)
    BY <1>6 DEF Begins
  <2>1. s.slot = [id |-> session.next, field |-> f] /\ s.next = session.next + 1
    BY DEF BeginsFor
  <2>2. \A i \in DOMAIN toHost' :
          toHost'[i].type = "client" =>
            \/ i \in DOMAIN toHost /\ toHost'[i] = toHost[i]
            \/ \E j \in DOMAIN s.sent : /\ i = Len(toHost) + j /\ s.sent[j].type = "client"
                                        /\ toHost'[i].id = session.next
    BY <1>3 DEF BeginsFor
  <2>3. \A i \in DOMAIN toHost' :
          toHost'[i].type = "client" => client < toHost'[i].id /\ toHost'[i].id < session.next + 1
    <3> SUFFICES ASSUME NEW i \in DOMAIN toHost', toHost'[i].type = "client"
                 PROVE  client < toHost'[i].id /\ toHost'[i].id < session.next + 1
      OBVIOUS
    <3>1. CASE i \in DOMAIN toHost /\ toHost'[i] = toHost[i]
      <4>1. toHost[i] \in HostMessages /\ toHost[i].type = "client"
        BY <1>1, <3>1
      <4>2. toHost[i].id \in Nat
        BY <4>1 DEF HostMessages
      <4> QED
        BY <1>2, <3>1, <4>1, <4>2 DEF NumbersInv, Numbered
    <3>2. CASE toHost'[i].id = session.next
      BY <1>2, <3>2 DEF NumbersInv
    <3> QED
      BY <2>2, <3>1, <3>2
  <2>4. ASSUME NEW i \in DOMAIN toHost', NEW j \in DOMAIN toHost', i < j,
               toHost'[i].type = "client", toHost'[j].type = "client"
        PROVE  toHost'[i].id < toHost'[j].id
    <3>1. CASE j \in DOMAIN toHost /\ toHost'[j] = toHost[j]
      <4>1. i \in DOMAIN toHost /\ toHost'[i] = toHost[i]
        BY <1>3, <2>2, <2>4, <3>1
      <4> QED
        BY <2>4, <3>1, <4>1 DEF NumbersInv, Numbered
    <3>2. CASE i \in DOMAIN toHost /\ toHost'[i] = toHost[i] /\ toHost'[j].id = session.next
      BY <2>4, <3>2 DEF NumbersInv, Numbered
    <3>3. ASSUME NEW a \in DOMAIN s.sent, i = Len(toHost) + a, s.sent[a].type = "client",
                 NEW b \in DOMAIN s.sent, j = Len(toHost) + b, s.sent[b].type = "client"
          PROVE  FALSE
      <4>1. a = b
        BY <3>3 DEF BeginsFor
      <4>2. a \in Int /\ b \in Int /\ Len(toHost) \in Nat
        BY <1>3
      <4> QED
        BY <2>4, <3>3, <4>1, <4>2
    <3> QED
      BY <2>2, <2>4, <3>1, <3>2, <3>3
  <2>5. Numbered(toHost)'
    BY <1>1, <2>1, <2>3, <2>4 DEF Numbered
  <2>6. \A i \in DOMAIN toUi' : toUi'[i].type = "update" => toUi'[i].id < session'.next
    <3> SUFFICES ASSUME NEW i \in DOMAIN toUi', toUi'[i].type = "update"
                 PROVE  toUi'[i].id < session'.next
      OBVIOUS
    <3>1. PICK j \in DOMAIN toUi : toUi'[i] = toUi[j]
      BY <1>4
    <3>2. toUi[j] \in UiMessages
      BY DEF TypeInv
    <3>3. toUi[j].id \in Nat
      BY <3>1, <3>2 DEF UiMessages
    <3> QED
      BY <1>1, <1>2, <2>1, <3>1, <3>3 DEF NumbersInv
  <2>7. (session.slot # None => session.slot.id + 1 = session.next)'
    BY <1>1, <2>1
  <2> QED
    BY <1>1, <1>2, <2>1, <2>5, <2>6, <2>7 DEF NumbersInv
<1> QED
  BY <1>5, <1>6

\* Two fields show no keystroke in common, after any step of the session.
LEMMA FieldsStayApart ==
  ASSUME TypeInv, LiveInv, FieldsTake
  PROVE  /\ \A f, g \in Fields, k \in Keys :
              k \in value'[f].text /\ k \in value'[g].text => f = g
         /\ \A f, g \in Fields, k \in Keys :
              k \in value[f].text /\ k \in value'[g].text => f = g
         /\ session.slot # None =>
              \A g \in Fields, k \in Keys :
                k \in value'[g].text /\ g # session.slot.field => k \in value[g].text
<1>1. \A f, g \in Fields, k \in Keys : k \in value[f].text /\ k \in value[g].text => f = g
  BY DEF LiveInv, OneField, Apart
<1>2. ASSUME NEW f \in Fields, NEW k \in Keys, k \in value'[f].text, k \notin value[f].text
      PROVE  /\ session.slot # None /\ f = session.slot.field
             /\ \A g \in Fields : k \in value[g].text => g = f
  <2>1. /\ session.slot # None /\ f = session.slot.field
        /\ \E i \in DOMAIN toUi :
             /\ toUi[i].type = "update" /\ toUi[i].id = session.slot.id
             /\ k \in toUi[i].text
    BY <1>2 DEF FieldsTake
  <2>2. PICK i \in DOMAIN toUi : /\ toUi[i].type = "update" /\ toUi[i].id = session.slot.id
                               /\ k \in toUi[i].text
    BY <2>1
  <2>3. Apart(toUi[i].text, f)
    BY <2>1, <2>2 DEF LiveInv, Live, LiveUpdates
  <2> QED
    BY <2>1, <2>2, <2>3 DEF Apart
<1>3. ASSUME NEW f \in Fields, NEW g \in Fields, NEW k \in Keys,
             k \in value'[f].text, k \in value'[g].text
      PROVE  f = g
  BY <1>1, <1>2, <1>3
<1>4. ASSUME NEW f \in Fields, NEW g \in Fields, NEW k \in Keys,
             k \in value[f].text, k \in value'[g].text
      PROVE  f = g
  BY <1>1, <1>2, <1>4
<1> QED
  BY <1>2, <1>3, <1>4

\* What will be text of the field in the slot stays apart from the others.
LEMMA SessionLive ==
  ASSUME NEW s, TypeInv, NumbersInv, LiveInv, FieldsTake,
         Sends(s), InCallback(s), FocusedIsAttached(s),
         Goes(s) \/ Begins(s), UNCHANGED <<client, model>>,
         toUi' = toUi \/ (toUi # <<>> /\ toUi' = Tail(toUi))
  PROVE  LiveInv'
<1>1. /\ session'.slot = s.slot /\ session'.next = s.next
      /\ s.sent \in Seq(HostMessages) /\ toHost \in Seq(HostMessages)
  BY SentKeeps DEF TypeInv
<1>2. /\ session.next \in Nat /\ client \in Nat
      /\ session.slot # None => session.slot.id \in Nat /\ session.slot.field \in Fields
  BY DEF TypeInv, SessionType, Slots
<1>3. /\ \A i \in DOMAIN toHost : i \in DOMAIN toHost' /\ toHost'[i] = toHost[i]
      /\ \A i \in DOMAIN s.sent :
           Len(toHost) + i \in DOMAIN toHost' /\ toHost'[Len(toHost) + i] = s.sent[i]
      /\ \A i \in DOMAIN toHost' :
           i \in DOMAIN toHost \/ \E j \in DOMAIN s.sent : i = Len(toHost) + j
      /\ Len(toHost) \in Nat
      /\ \A i \in DOMAIN toHost : i \in Int /\ 1 <= i /\ i <= Len(toHost)
      /\ \A i \in DOMAIN s.sent : i \in Int /\ 1 <= i
  BY <1>1, ConcatFacts DEF Sends
<1>4. \A i \in DOMAIN toUi' : \E j \in DOMAIN toUi : toUi'[i] = toUi[j]
  <2>1. CASE toUi # <<>> /\ toUi' = Tail(toUi)
    <3>1. \A i \in DOMAIN Tail(toUi) : i + 1 \in DOMAIN toUi /\ Tail(toUi)[i] = toUi[i + 1]
      BY <2>1, TailFacts DEF TypeInv
    <3> QED
      BY <2>1, <3>1
  <2> QED
    BY <2>1
<1>5. /\ \A f, g \in Fields, k \in Keys :
           k \in value'[f].text /\ k \in value'[g].text => f = g
      /\ \A f, g \in Fields, k \in Keys :
           k \in value[f].text /\ k \in value'[g].text => f = g
      /\ session.slot # None =>
           \A g \in Fields, k \in Keys :
             k \in value'[g].text /\ g # session.slot.field => k \in value[g].text
  BY FieldsStayApart
<1>6. OneField'
  BY <1>5 DEF OneField, Apart
<1>7. \A i \in DOMAIN toHost : NoneBeginsAfter(toHost', i) => NoneBeginsAfter(toHost, i)
  BY <1>3 DEF NoneBeginsAfter
<1>8. CASE Goes(s) /\ s.slot # None
  <2> DEFINE f == session.slot.field
  <2>1. s.slot = session.slot /\ session.slot # None /\ f \in Fields
    BY <1>2, <1>8 DEF Goes
  <2>2. LiveModel(session.slot) /\ LiveUpdates(session.slot) /\ LiveStates(toHost, session.slot)
    BY <2>1 DEF LiveInv, Live
  <2>3. \A text : Apart(text, f) => \A k \in Keys, g \in Fields :
                                     k \in text /\ g # f => k \notin value'[g].text
    BY <1>5, <2>1 DEF Apart
  <2>4. LiveModel(session.slot)'
    BY <1>1, <2>1, <2>2, <2>3 DEF LiveModel, Apart
  <2>5. LiveUpdates(session.slot)'
    <3>1. ASSUME NEW i \in DOMAIN toUi', toUi'[i].type = "update",
                 toUi'[i].id = session.slot.id
          PROVE  \A k \in Keys, g \in Fields :
                   k \in toUi'[i].text /\ g # f => k \notin value'[g].text
      <4>1. PICK j \in DOMAIN toUi : toUi'[i] = toUi[j]
        BY <1>4
      <4>2. Apart(toUi[j].text, f)
        BY <2>2, <3>1, <4>1 DEF LiveUpdates
      <4> QED
        BY <2>3, <4>1, <4>2
    <3>2. session'.slot = session.slot
      BY <1>1, <2>1
    <3> HIDE DEF f
    <3> QED
      BY <3>1, <3>2 DEF LiveUpdates, Apart, f
  <2>6. ASSUME NEW i \in DOMAIN toHost', toHost'[i].type = "state", NoneBeginsAfter(toHost', i)
        PROVE  \A k \in Keys, g \in Fields :
                 k \in toHost'[i].value.text /\ g # f => k \notin value'[g].text
    <3>1. CASE i \in DOMAIN toHost
      BY <1>3, <1>7, <2>2, <2>3, <2>6, <3>1 DEF LiveStates
    <3>2. CASE \E j \in DOMAIN s.sent : i = Len(toHost) + j
      <4> PICK j \in DOMAIN s.sent : i = Len(toHost) + j
        BY <3>2
      <4>1. toHost'[i] = s.sent[j] /\ s.sent[j].type = "state"
        BY <1>3, <2>6
      <4>2. \A k \in Keys : k \in toHost'[i].value.text => k \in value[f].text
        BY <1>8, <4>1 DEF Goes
      <4> QED
        BY <1>5, <2>1, <4>2
    <3> QED
      BY <1>3, <3>1, <3>2
  <2>7. LiveStates(toHost, session.slot)'
    BY <1>1, <2>1, <2>6 DEF LiveStates, Apart
  <2> QED
    BY <1>6, <2>4, <2>5, <2>7 DEF LiveInv, Live
<1>9. CASE s.slot = None
  BY <1>1, <1>6, <1>9 DEF LiveInv
<1>10. CASE Begins(s)
  <2> PICK f \in Fields : BeginsFor(s, f)
    BY <1>10 DEF Begins
  <2>1. s.slot = [id |-> session.next, field |-> f]
    BY DEF BeginsFor
  <2>2. session'.slot.id = session.next /\ session'.slot.field = f
    BY <1>1, <2>1
  <2>3. LiveModel(session.slot)'
    BY <1>2, <2>2 DEF LiveModel, NumbersInv
  <2>4. LiveUpdates(session.slot)'
    <3>1. \A i \in DOMAIN toUi' : toUi'[i].type = "update" => toUi'[i].id # session.next
      <4> SUFFICES ASSUME NEW i \in DOMAIN toUi', toUi'[i].type = "update"
                   PROVE  toUi'[i].id # session.next
        OBVIOUS
      <4>1. PICK j \in DOMAIN toUi : toUi'[i] = toUi[j]
        BY <1>4
      <4>2. toUi[j] \in UiMessages
        BY DEF TypeInv
      <4>3. toUi[j].id \in Nat
        BY <4>1, <4>2 DEF UiMessages
      <4> QED
        BY <1>2, <4>1, <4>3 DEF NumbersInv
    <3> QED
      BY <2>2, <3>1 DEF LiveUpdates
  <2>5. ASSUME NEW i \in DOMAIN toHost', toHost'[i].type = "state", NoneBeginsAfter(toHost', i)
        PROVE  \A k \in Keys, g \in Fields :
                 k \in toHost'[i].value.text /\ g # f => k \notin value'[g].text
    <3>1. i \notin DOMAIN toHost
      <4>1. PICK j \in DOMAIN s.sent : s.sent[j].type = "client"
        BY DEF BeginsFor, SetClient
      <4>2. Len(toHost) + j \in DOMAIN toHost' /\ toHost'[Len(toHost) + j].type = "client"
        BY <1>3, <4>1
      <4>3. i \in DOMAIN toHost => i < Len(toHost) + j
        BY <1>3
      <4> QED
        BY <2>5, <4>2, <4>3 DEF NoneBeginsAfter
    <3>2. PICK j \in DOMAIN s.sent : i = Len(toHost) + j
      BY <1>3, <3>1
    <3>3. toHost'[i] = s.sent[j] /\ s.sent[j].type = "state"
      BY <1>3, <2>5, <3>2
    <3>4. toHost'[i].value = value[f]
      BY <3>3 DEF BeginsFor
    <3> QED
      BY <1>5, <3>4
  <2>6. LiveStates(toHost, session.slot)'
    BY <2>2, <2>5 DEF LiveStates, Apart
  <2> QED
    BY <1>6, <2>3, <2>4, <2>6 DEF LiveInv, Live
<1> QED
  BY <1>8, <1>9, <1>10

\* A keystroke that moves on nowhere stays in one place at most.
LEMMA KeyKept ==
  ASSUME NEW k \in Keys, KeyOnce(k),
         Once(toUi', KeyEvent(k)), Once(toHost', Verdict(k)), Once(toWindow', k),
         Pressed(k)' => Pressed(k), Answered(k)' => Answered(k),
         Declined(k)' => Declined(k), Adds(k)' => Adds(k), Typed(k)' => Typed(k),
         used \subseteq used'
  PROVE  KeyOnce(k)'
<1>1. /\ Pressed(k) => ~Answered(k) /\ ~Declined(k) /\ ~Adds(k) /\ ~Typed(k)
      /\ Answered(k) => ~Declined(k) /\ ~Adds(k) /\ ~Typed(k)
      /\ Declined(k) => ~Adds(k) /\ ~Typed(k)
      /\ Adds(k) => ~Typed(k)
  BY DEF KeyOnce
<1>2. k \notin used' => ~Pressed(k) /\ ~Answered(k) /\ ~Declined(k) /\ ~Adds(k) /\ ~Typed(k)
  BY DEF KeyOnce
<1>3. KeyEvent(k)' = KeyEvent(k) /\ Verdict(k)' = Verdict(k)
  BY DEF KeyEvent, Verdict
<1> QED
  BY <1>1, <1>2, <1>3 DEF KeyOnce

\* The updates and states left in a queue were in it.
LEMMA TailHolds ==
  ASSUME NEW S, NEW q \in Seq(S), q # <<>>, NEW k
  PROVE  /\ InUpdates(Tail(q), k) => InUpdates(q, k)
         /\ InStates(Tail(q), k) => InStates(q, k)
<1>1. \A i \in DOMAIN Tail(q) : i + 1 \in DOMAIN q /\ Tail(q)[i] = q[i + 1]
  BY TailFacts
<1> QED
  BY <1>1 DEF InUpdates, InStates

\* A step of the session types nothing and moves no keystroke.
LEMMA SessionKeys ==
  ASSUME NEW s, TypeInv, KeysInv, FieldsTake,
         Sends(s), InCallback(s), FocusedIsAttached(s), Goes(s) \/ Begins(s),
         UNCHANGED <<model, todo, toWindow>>, used \subseteq used',
         toUi' = toUi \/ (toUi # <<>> /\ toUi' = Tail(toUi))
  PROVE  KeysInv'
<1> SUFFICES ASSUME NEW k \in Keys PROVE KeyOnce(k)'
  BY DEF KeysInv
<1>0. KeyOnce(k)
  BY DEF KeysInv
<1>1. s.sent \in Seq(HostMessages) /\ toHost \in Seq(HostMessages) /\ toUi \in Seq(UiMessages)
  BY SentKeeps DEF TypeInv
<1>2. /\ \A i \in DOMAIN toHost : toHost'[i] = toHost[i]
      /\ \A i \in DOMAIN s.sent : toHost'[Len(toHost) + i] = s.sent[i]
      /\ \A i \in DOMAIN toHost' :
           i \in DOMAIN toHost \/ \E j \in DOMAIN s.sent : i = Len(toHost) + j
  BY <1>1, ConcatFacts DEF Sends
<1>3. \A i \in DOMAIN s.sent :
        /\ s.sent[i].type \in {"clear", "client", "state"}
        /\ s.sent[i].type = "state" /\ k \in s.sent[i].value.text => InFields(k)
  <2>1. CASE Goes(s)
    <3>1. session.slot # None => session.slot.field \in Fields
      BY DEF TypeInv, SessionType, Slots
    <3> QED
      BY <2>1, <3>1 DEF Goes, InFields
  <2>2. CASE Begins(s)
    BY <2>2 DEF Begins, BeginsFor, InFields
  <2> QED
    BY <2>1, <2>2
<1>4. \A i \in DOMAIN s.sent : s.sent[i] # Verdict(k)
  BY <1>3 DEF Verdict
<1>5. (Answered(k)' => Answered(k)) /\ Once(toHost', Verdict(k))
  <2>1. Has(toHost \o s.sent, Verdict(k)) => Has(toHost, Verdict(k))
    BY <1>1, <1>4, ConcatHas
  <2>2. Once(toHost \o s.sent, Verdict(k))
    BY <1>0, <1>1, <1>4, ConcatHas DEF KeyOnce
  <2>3. Verdict(k)' = Verdict(k)
    BY DEF Verdict
  <2> QED
    BY <2>1, <2>2, <2>3 DEF Answered, Sends
<1>6. /\ Pressed(k)' => Pressed(k)
      /\ Once(toUi', KeyEvent(k))
      /\ InUpdates(toUi', k) => InUpdates(toUi, k)
  <2>1. KeyEvent(k)' = KeyEvent(k)
    BY DEF KeyEvent
  <2>2. CASE toUi' = toUi
    BY <1>0, <2>1, <2>2 DEF Pressed, KeyOnce
  <2>3. CASE toUi # <<>> /\ toUi' = Tail(toUi)
    BY <1>0, <1>1, <2>1, <2>3, TailHas, TailHolds DEF Pressed, KeyOnce
  <2> QED
    BY <2>2, <2>3
<1>7. InStates(toHost', k) => InStates(toHost, k) \/ InFields(k)
  BY <1>2, <1>3 DEF InStates
<1>8. InFields(k)' => InFields(k) \/ InUpdates(toUi, k)
  BY DEF FieldsTake, InFields, InUpdates
<1>9. Typed(k)' => Typed(k)
  BY <1>6, <1>7, <1>8 DEF Typed, InModel
<1>10. (Declined(k)' => Declined(k)) /\ (Adds(k)' => Adds(k)) /\ Once(toWindow', k)
  BY <1>0 DEF Declined, Adds, EditStep, KeyOnce
<1> QED
  BY <1>0, <1>5, <1>6, <1>9, <1>10, KeyKept

\* A step of the session keeps the invariant.
LEMMA SessionStep ==
  ASSUME NEW s, IInv, FieldsTake,
         Sends(s), InCallback(s), FocusedIsAttached(s), Goes(s) \/ Begins(s),
         value' \in [Fields -> Texts], alive' \subseteq Fields,
         crossed' \in BOOLEAN, untold' \in BOOLEAN,
         used \subseteq used', used' \subseteq Marks,
         UNCHANGED <<host, ime, todo, toWindow>>,
         toUi' = toUi \/ (toUi # <<>> /\ toUi' = Tail(toUi))
  PROVE  IInv'
<1> USE DEF IInv, host
<1>1. /\ SessionType(session') /\ session'.sent = <<>> /\ ConnectionInv'
      /\ toHost' \in Seq(HostMessages) /\ s.sent \in Seq(HostMessages)
  BY SentKeeps
<1>2. NumbersInv' /\ LiveInv' /\ KeysInv'
  BY SessionNumbers, SessionLive, SessionKeys
<1>3. toUi' \in Seq(UiMessages)
  BY TailFacts DEF TypeInv
<1>4. clearing' # "no" => toHost' # <<>>
  BY <1>1, ConcatEqualIffEmpty DEF TypeInv, Sends
<1>5. TypeOK'
  <2>1. session'.connection \in [Fields -> Nat \union {None}]
          /\ session'.focus \in Fields \union {None}
    BY <1>1 DEF SessionType
  <2> QED
    BY <1>1, <2>1 DEF TypeInv, TypeOK
<1>6. (todo \in Seq(PlainSteps \union Compositions) \/ \E k \in Keys : Adds(k))'
  BY DEF TypeInv, Adds, EditStep
<1>7. TypeInv'
  BY <1>1, <1>3, <1>4, <1>5, <1>6 DEF TypeInv
<1> QED
  BY <1>1, <1>2, <1>7

\* A session that ends or goes on sends nothing of a text.
LEMMA EndsGoes ==
  ASSUME NEW s, Ends(s)
  PROVE  Goes(s)
BY DEF Ends, Goes

\* Nothing is sent, and nothing of the session changes.
LEMMA Idle ==
  ASSUME IInv, UNCHANGED <<session, toHost>>
  PROVE  /\ Sends(session) /\ Goes(session)
         /\ InCallback(session) /\ FocusedIsAttached(session)
<1>1. session.sent = <<>> /\ toHost \in Seq(HostMessages)
  BY DEF IInv, TypeInv, TypeOK
<1>2. toHost \o <<>> = toHost
  BY <1>1, ConcatEmptySeq
<1>3. session = [session EXCEPT !.sent = <<>>]
  BY <1>1 DEF IInv, TypeInv, SessionType
<1>4. \A i \in DOMAIN session.sent : FALSE
  BY <1>1
<1> QED
  BY <1>1, <1>2, <1>3, <1>4
     DEF Sends, Goes, InCallback, IInv, TypeInv, ConnectionInv

(***************************************************************************)
(* The steps of the UI thread.                                             *)
(***************************************************************************)

\* The focus moves.
LEMMA MoveFocusStep ==
  ASSUME IInv, NEW f \in alive \union {None}, MoveFocus(f)
  PROVE  IInv'
<1> DEFINE s == Moved(session, f)
<1>1. f \in Fields \union {None} /\ session.sent = <<>> /\ TypeOK
  BY DEF IInv, TypeInv, TypeOK
<1>2. InCallback(s) /\ FocusedIsAttached(s) /\ (Ends(s) \/ Begins(s))
  BY <1>1, MovedHasIt DEF MoveFocus, IInv, TypeInv, ConnectionInv, InCallback
<1> HIDE DEF s
<1>3. Sends(s) /\ UNCHANGED <<value, alive, host, ime, todo, used, toUi, toWindow>>
  BY DEF MoveFocus, Send, Sends, s, window
<1>4. crossed' \in BOOLEAN /\ untold' \in BOOLEAN
  BY DEF MoveFocus, Send, IInv, TypeInv, TypeOK, Undisturbed
<1>5. FieldsTake /\ value' \in [Fields -> Texts] /\ alive' \subseteq Fields
  BY <1>3 DEF FieldsTake, IInv, TypeInv, TypeOK
<1>6. used \subseteq used' /\ used' \subseteq Marks
  BY <1>3 DEF IInv, TypeInv, TypeOK
<1> QED
  BY <1>2, <1>3, <1>4, <1>5, <1>6, EndsGoes, SessionStep

\* The program changes a text, by no keystroke.
LEMMA EditStepKeeps ==
  ASSUME IInv, NEW f \in alive, NEW v \in Texts, Edit(f, v),
         \A k \in Keys : k \in v.text => k \in value[f].text,
         used \subseteq used', used' \subseteq Marks
  PROVE  IInv'
<1> DEFINE s == Pushed(session, f, v)
<1>1. f \in Fields /\ value \in [Fields -> Texts]
  BY DEF IInv, TypeInv, TypeOK
<1>2. /\ InCallback(s) /\ FocusedIsAttached(s)
      /\ s.slot = session.slot /\ s.next = session.next
      /\ \A i \in DOMAIN s.sent :
           /\ s.sent[i].type = "state" /\ s.sent[i].value = v
           /\ session.slot # None /\ session.slot.field = f
  BY <1>1, PushedKeeps DEF IInv
<1> HIDE DEF s
<1>3. /\ Sends(s) /\ UNCHANGED <<alive, host, ime, todo, toUi, toWindow>>
      /\ value' = [value EXCEPT ![f] = v]
  BY DEF Edit, Sends, s
<1>4. crossed' \in BOOLEAN /\ untold' \in BOOLEAN
  BY DEF Edit, IInv, TypeInv, TypeOK, Undisturbed, IsEdited
<1>5. value' \in [Fields -> Texts]
  BY <1>1, <1>3
<1>6. FieldsTake
  BY <1>1, <1>3 DEF FieldsTake
<1>7. Goes(s)
  BY <1>2 DEF Goes
<1>8. alive' \subseteq Fields
  BY <1>3 DEF IInv, TypeInv, TypeOK
<1> QED
  BY <1>2, <1>3, <1>4, <1>5, <1>6, <1>7, <1>8, SessionStep

\* A paste adds a text that no key types.
LEMMA PasteStep ==
  ASSUME IInv, NEW f \in alive, NEW p \in Pastes, Paste(f, p)
  PROVE  IInv'
<1> DEFINE v == [text |-> value[f].text \union {p}, marked |-> {}]
<1>1. f \in Fields /\ value[f] \in Texts /\ used \subseteq Marks /\ p \in Marks
  BY DEF IInv, TypeInv, TypeOK, Marks
<1>2. v \in Texts /\ used \subseteq used' /\ used' \subseteq Marks /\ Edit(f, v)
  BY <1>1 DEF Paste, Texts
<1>3. \A k \in Keys : k \in v.text => k \in value[f].text
  BY MarksAreApart
<1> QED
  BY <1>2, <1>3, EditStepKeeps

\* A cleared field shows nothing.
LEMMA ClearStep ==
  ASSUME IInv, NEW f \in alive, Clear(f)
  PROVE  IInv'
<1>1. NoText \in Texts /\ \A k \in Keys : k \notin NoText.text
  BY DEF NoText, Texts
<1>2. used \subseteq used' /\ used' \subseteq Marks /\ Edit(f, NoText)
  BY DEF Clear, IInv, TypeInv, TypeOK
<1> QED
  BY <1>1, <1>2, EditStepKeeps

\* A field goes from the page.
LEMMA DisposeStep ==
  ASSUME IInv, NEW f \in alive, Dispose(f)
  PROVE  IInv'
<1> DEFINE c == Closed(session, f)
           focus == IF c.focus = f THEN None ELSE c.focus
           s == [c EXCEPT !.focus = IF session.focus = f THEN None ELSE session.focus]
<1>1. f \in Fields
  BY DEF IInv, TypeInv, TypeOK
<1>2. InCallback(s) /\ FocusedIsAttached(s) /\ Ends(s)
  BY <1>1, DisposedKeeps DEF IInv
<1>3. c.focus = session.focus /\ c \in [slot : {c.slot}, connection : {c.connection},
         next : {c.next}, number : {c.number}, focus : {c.focus}, sent : {c.sent}]
  BY DEF Closed, IInv, TypeInv, SessionType
<1>4. session' = [c EXCEPT !.focus = focus, !.sent = <<>>] /\ toHost' = toHost \o c.sent
  BY DEF Dispose
<1> HIDE DEF c
<1>5. Sends(s)
  BY <1>3, <1>4 DEF Sends
<1> HIDE DEF s
<1>6. UNCHANGED <<value, crossed, untold, host, ime, todo, used, toUi, toWindow>>
        /\ alive' \subseteq Fields
  BY DEF Dispose, window, IInv, TypeInv, TypeOK
<1>7. FieldsTake /\ value' \in [Fields -> Texts]
  BY <1>6 DEF FieldsTake, IInv, TypeInv, TypeOK
<1>8. used \subseteq used' /\ used' \subseteq Marks /\ crossed' \in BOOLEAN /\ untold' \in BOOLEAN
  BY <1>6 DEF IInv, TypeInv, TypeOK
<1> QED
  BY <1>2, <1>5, <1>6, <1>7, <1>8, EndsGoes, SessionStep

\* A message is dropped, or given to the client it is for.
LEMMA MessageStep ==
  ASSUME IInv, NEW m, toUi # <<>>, m = Head(toUi), toUi' = Tail(toUi),
         UNCHANGED <<host, window, toWindow>>, NEW how,
         \/ DropMessage(m)
         \/ m.type = "update" /\ HandleUpdate(m, how)
         \/ m.type = "action" /\ HandleAction(m, how)
  PROVE  IInv'
<1>1. UNCHANGED <<host, ime, todo, used, toWindow>> /\ used \subseteq used' /\ used' \subseteq Marks
  BY DEF window, IInv, TypeInv, TypeOK
<1>2. CASE DropMessage(m)
  <2>1. UNCHANGED <<value, session, alive, crossed, untold, toHost>>
    BY <1>2 DEF DropMessage
  <2>2. /\ Sends(session) /\ Goes(session)
        /\ InCallback(session) /\ FocusedIsAttached(session)
    BY <2>1, Idle
  <2>3. FieldsTake /\ value' \in [Fields -> Texts] /\ alive' \subseteq Fields
          /\ crossed' \in BOOLEAN /\ untold' \in BOOLEAN
    BY <2>1 DEF FieldsTake, IInv, TypeInv, TypeOK
  <2> QED
    BY <1>1, <2>2, <2>3, SessionStep
<1>3. CASE (m.type = "update" /\ HandleUpdate(m, how)) \/ (m.type = "action" /\ HandleAction(m, how))
  <2> DEFINE s == WithClient(how)
             f == session.slot.field
  <2>1. InCallback(s) /\ FocusedIsAttached(s) /\ (Ends(s) \/ Begins(s))
    BY ClientKeeps DEF IInv
  <2>2. session.slot # None /\ session.slot.id = m.id /\ f \in Fields
    BY <1>3 DEF HandleUpdate, HandleAction, IsForClient, IInv, TypeInv, SessionType, Slots
  <2>3. m \in UiMessages /\ 1 \in DOMAIN toUi /\ toUi[1] = m /\ value \in [Fields -> Texts]
    BY TailFacts DEF IInv, TypeInv, TypeOK
  <2> HIDE DEF s
  <2>4. CASE m.type = "update" /\ HandleUpdate(m, how)
    <3>1. m.text \in SUBSET Marks /\ m.marked \in SUBSET Marks
      BY <2>3, <2>4 DEF UiMessages
    <3> DEFINE v == [text |-> m.text, marked |-> m.marked]
    <3>2. /\ value' = (IF f \in alive THEN [value EXCEPT ![f] = v] ELSE value)
          /\ Sends(s) /\ alive' = alive
          /\ crossed' \in BOOLEAN /\ untold' \in BOOLEAN
      BY <2>4 DEF HandleUpdate, Sends, s
    <3>3. v \in Texts /\ v.text = m.text
      BY <3>1 DEF Texts
    <3> HIDE DEF v
    <3>4. value' \in [Fields -> Texts] /\ alive' \subseteq Fields
      BY <2>2, <2>3, <3>2, <3>3 DEF IInv, TypeInv, TypeOK
    <3>5. FieldsTake
      <4> SUFFICES ASSUME NEW g \in Fields, NEW k \in Keys,
                          k \in value'[g].text, k \notin value[g].text
                   PROVE  /\ g = f
                          /\ \E i \in DOMAIN toUi :
                               /\ toUi[i].type = "update" /\ toUi[i].id = session.slot.id
                               /\ k \in toUi[i].text
        BY <2>2 DEF FieldsTake
      <4>1. g = f /\ k \in m.text
        BY <2>2, <2>3, <3>2, <3>3
      <4> QED
        BY <2>2, <2>3, <2>4, <4>1
    <3> QED
      BY <1>1, <2>1, <3>2, <3>4, <3>5, EndsGoes, SessionStep
  <2>5. CASE m.type = "action" /\ HandleAction(m, how)
    <3>1. /\ value' \in {value, [value EXCEPT ![f] = NoText]}
          /\ Sends(s) /\ alive' = alive
      BY <2>5 DEF HandleAction, Sends, s
    <3>2. crossed' \in BOOLEAN /\ untold' \in BOOLEAN
      BY <2>5 DEF HandleAction, Undisturbed, IInv, TypeInv, TypeOK
    <3>3. NoText \in Texts /\ \A k \in Keys : k \notin NoText.text
      BY DEF NoText, Texts
    <3>4. value' \in [Fields -> Texts] /\ alive' \subseteq Fields
      BY <2>3, <3>1, <3>3 DEF IInv, TypeInv, TypeOK
    <3>5. FieldsTake
      BY <2>2, <2>3, <3>1, <3>3 DEF FieldsTake
    <3> QED
      BY <1>1, <2>1, <3>1, <3>2, <3>4, <3>5, EndsGoes, SessionStep
  <2> QED
    BY <1>3, <2>4, <2>5
<1> QED
  BY <1>2, <1>3

\* What is taken from the host's queue leaves numbers and states in order.
LEMMA TailInOrder ==
  ASSUME NEW q \in Seq(HostMessages), q # <<>>
  PROVE  /\ Numbered(q) => Numbered(Tail(q))
         /\ \A s : LiveStates(q, s) => LiveStates(Tail(q), s)
<1>1. /\ \A i \in DOMAIN Tail(q) :
           i \in Int /\ i >= 1 /\ i + 1 \in DOMAIN q /\ Tail(q)[i] = q[i + 1]
      /\ \A i \in DOMAIN q :
           i \in Int /\ (i # 1 => i - 1 \in DOMAIN Tail(q) /\ Tail(q)[i - 1] = q[i])
  BY TailFacts
<1>2. Numbered(q) => Numbered(Tail(q))
  BY <1>1 DEF Numbered
<1>3. \A i \in DOMAIN Tail(q) : NoneBeginsAfter(Tail(q), i) => NoneBeginsAfter(q, i + 1)
  <2> SUFFICES ASSUME NEW i \in DOMAIN Tail(q), NoneBeginsAfter(Tail(q), i),
                      NEW j \in DOMAIN q, i + 1 < j
               PROVE  q[j].type # "client"
    BY DEF NoneBeginsAfter
  <2>1. j # 1 /\ i < j - 1 /\ j - 1 \in DOMAIN Tail(q) /\ Tail(q)[j - 1] = q[j]
    BY <1>1
  <2> QED
    BY <2>1 DEF NoneBeginsAfter
<1>4. ASSUME NEW s, LiveStates(q, s) PROVE LiveStates(Tail(q), s)
  BY <1>1, <1>3, <1>4 DEF LiveStates
<1> QED
  BY <1>2, <1>4

\* So does a verdict that is put behind it.
LEMMA VerdictInOrder ==
  ASSUME NEW q \in Seq(HostMessages), NEW x \in HostMessages, x.type = "verdict"
  PROVE  /\ Numbered(q) => Numbered(Append(q, x))
         /\ \A s : LiveStates(q, s) => LiveStates(Append(q, x), s)
         /\ \A k : InStates(Append(q, x), k) => InStates(q, k)
<1>1. /\ Len(q) \in Nat /\ DOMAIN Append(q, x) = DOMAIN q \union {Len(q) + 1}
      /\ \A i \in DOMAIN q : i \in Int /\ i <= Len(q) /\ Append(q, x)[i] = q[i]
      /\ Append(q, x)[Len(q) + 1] = x
  BY AppendFacts
<1>2. Numbered(q) => Numbered(Append(q, x))
  BY <1>1 DEF Numbered
<1>3. \A i \in DOMAIN q : NoneBeginsAfter(Append(q, x), i) => NoneBeginsAfter(q, i)
  BY <1>1 DEF NoneBeginsAfter
<1>4. ASSUME NEW s, LiveStates(q, s) PROVE LiveStates(Append(q, x), s)
  BY <1>1, <1>3, <1>4 DEF LiveStates
<1>5. ASSUME NEW k, InStates(Append(q, x), k) PROVE InStates(q, k)
  BY <1>1, <1>5 DEF InStates
<1> QED
  BY <1>2, <1>4, <1>5

\* The head of a queue is taken: updates and keystrokes that stay were there.
LEMMA UiTail ==
  ASSUME TypeInv, toUi # <<>>, toUi' = Tail(toUi)
  PROVE  /\ toUi' \in Seq(UiMessages) /\ Head(toUi) \in UiMessages
         /\ \A i \in DOMAIN toUi' : \E j \in DOMAIN toUi : toUi'[i] = toUi[j]
         /\ \A k : InUpdates(toUi', k) => InUpdates(toUi, k)
BY TailFacts, TailHolds DEF TypeInv

\* The model takes no keystroke that a field shows.
ModelTakesNothingShown ==
  \/ model' = None
  \/ model # None /\ \A k \in Keys : k \in model'.text => k \in model.text \/ ~InFields(k)

\* Every update on its way was, or is of the model and its client.
UpdatesAreOfTheModel ==
  \A i \in DOMAIN toUi' :
    toUi'[i].type = "update" =>
      \/ \E j \in DOMAIN toUi : toUi'[i] = toUi[j]
      \/ model # None /\ toUi'[i].id = client /\ toUi'[i].text = model.text

\* Where the session, the fields and the host's client stay, and the model and
\* what it sends hold no new keystroke, what holds of the session holds.
LEMMA HostKeeps ==
  ASSUME IInv, UNCHANGED <<session, value, client>>,
         ModelTakesNothingShown, UpdatesAreOfTheModel,
         Numbered(toHost'), \A s : LiveStates(toHost, s) => LiveStates(toHost', s)
  PROVE  ConnectionInv' /\ NumbersInv' /\ LiveInv'
<1>1. ConnectionInv'
  BY DEF IInv, ConnectionInv, OnlyTheFocused, FocusedIsAttached, Attached
<1>2. NumbersInv'
  <2>1. Numbered(toHost)'
    BY DEF Numbered
  <2>2. \A i \in DOMAIN toUi' : toUi'[i].type = "update" => toUi'[i].id < session'.next
    BY DEF IInv, NumbersInv, UpdatesAreOfTheModel
  <2> QED
    BY <2>1, <2>2 DEF IInv, NumbersInv
<1>3. LiveInv'
  <2>1. OneField'
    BY DEF IInv, LiveInv, OneField, Apart
  <2>2. ASSUME session.slot # None PROVE Live(session.slot)'
    <3>1. LiveModel(session.slot) /\ LiveUpdates(session.slot) /\ LiveStates(toHost', session.slot)
      BY <2>2 DEF IInv, LiveInv, Live
    <3>2. LiveModel(session.slot)'
      BY <3>1 DEF LiveModel, Apart, ModelTakesNothingShown, InFields
    <3>3. LiveUpdates(session.slot)'
      <4>1. ASSUME NEW i \in DOMAIN toUi', toUi'[i].type = "update",
                   toUi'[i].id = session.slot.id
            PROVE  Apart(toUi'[i].text, session.slot.field)
        BY <3>1, <4>1 DEF LiveUpdates, LiveModel, UpdatesAreOfTheModel
      <4> QED
        BY <4>1 DEF LiveUpdates, Apart
    <3>4. LiveStates(toHost, session.slot)'
      BY <3>1 DEF LiveStates, Apart
    <3> QED
      BY <3>2, <3>3, <3>4 DEF Live
  <2> QED
    BY <2>1, <2>2 DEF LiveInv
<1> QED
  BY <1>1, <1>2, <1>3

\* The framework declines a key: the keystroke goes from one queue to the next.
LEMMA DeclineKeyStep ==
  ASSUME IInv, NEW m, toUi # <<>>, m = Head(toUi), toUi' = Tail(toUi),
         m.type = "key", DeclineKey(m), UNCHANGED <<host, window, toWindow, bounds>>
  PROVE  IInv'
<1> USE DEF IInv, host, window
<1>1. UNCHANGED <<value, session, alive, crossed, untold>> /\ toHost' = Append(toHost, Verdict(m.key))
  BY DEF DeclineKey
<1>2. /\ toUi' \in Seq(UiMessages) /\ m \in UiMessages
      /\ \A i \in DOMAIN toUi' : \E j \in DOMAIN toUi : toUi'[i] = toUi[j]
      /\ \A k : InUpdates(toUi', k) => InUpdates(toUi, k)
  BY UiTail
<1>3. m.key \in Keys \union {Enter} /\ m = KeyEvent(m.key)
  BY <1>2 DEF UiMessages, KeyEvent
<1>4. /\ Verdict(m.key) \in HostMessages /\ Verdict(m.key).type = "verdict"
      /\ toHost \in Seq(HostMessages)
  BY <1>3, MessageTypes DEF Verdict, TypeInv
<1>5. /\ Numbered(toHost') /\ \A s : LiveStates(toHost, s) => LiveStates(toHost', s)
      /\ \A k : InStates(toHost', k) => InStates(toHost, k)
  BY <1>1, <1>4, VerdictInOrder DEF NumbersInv
<1>6. ConnectionInv' /\ NumbersInv' /\ LiveInv'
  <2>1. ModelTakesNothingShown /\ UpdatesAreOfTheModel
    BY <1>2 DEF ModelTakesNothingShown, UpdatesAreOfTheModel
  <2> QED
    BY <1>1, <1>5, <2>1, HostKeeps
<1>7. TypeInv'
  <2>1. toHost' \in Seq(HostMessages) /\ toHost' # <<>>
    BY <1>1, <1>4, AppendFacts
  <2>2. TypeOK'
    BY <1>1 DEF TypeInv, TypeOK
  <2>3. SessionType(session')
    BY <1>1 DEF TypeInv
  <2>4. (todo \in Seq(PlainSteps \union Compositions) \/ \E k \in Keys : Adds(k))'
    BY DEF TypeInv, Adds, EditStep
  <2> QED
    BY <1>1, <1>2, <2>1, <2>2, <2>3, <2>4 DEF TypeInv
<1>8. ASSUME NEW k \in Keys PROVE KeyOnce(k)'
  <2>1. KeyOnce(k) /\ toUi \in Seq(UiMessages)
    BY DEF KeysInv, TypeInv
  <2>2. /\ Once(toUi', KeyEvent(k))
        /\ Pressed(k)' => Pressed(k)
        /\ m.key = k => Pressed(k) /\ ~Pressed(k)'
    <3>1. KeyEvent(k)' = KeyEvent(k)
      BY DEF KeyEvent
    <3>2. Once(toUi, KeyEvent(k))
      BY <2>1 DEF KeyOnce
    <3> QED
      BY <1>3, <2>1, <3>1, <3>2, TailHas DEF Pressed
  <2>3. Typed(k)' => Typed(k)
    BY <1>1, <1>2, <1>5 DEF Typed, InFields, InModel
  <2>4. /\ Declined(k)' <=> Declined(k)
        /\ Adds(k)' <=> Adds(k)
        /\ Once(toWindow', k)
        /\ Verdict(k)' = Verdict(k) /\ KeyEvent(k)' = KeyEvent(k)
    BY <2>1 DEF Declined, Adds, EditStep, KeyOnce, Verdict, KeyEvent
  <2>5. CASE m.key = k
    <3>1. ~Answered(k) /\ ~Declined(k) /\ ~Adds(k) /\ ~Typed(k) /\ k \in used
      BY <2>1, <2>2, <2>5 DEF KeyOnce
    <3>2. Once(toHost', Verdict(k))
      BY <1>1, <1>4, <2>1, <3>1, AppendHas DEF Answered, KeyOnce
    <3> QED
      BY <2>2, <2>3, <2>4, <2>5, <3>1, <3>2 DEF KeyOnce
  <2>6. CASE m.key # k
    <3>1. Verdict(m.key) # Verdict(k)
      BY <2>6 DEF Verdict
    <3>2. Once(toHost', Verdict(k)) /\ (Answered(k)' => Answered(k))
      BY <1>1, <1>4, <2>1, <2>4, <3>1, AppendHas DEF Answered, KeyOnce
    <3> QED
      BY <2>1, <2>2, <2>3, <2>4, <3>2, KeyKept
  <2> QED
    BY <2>5, <2>6
<1> QED
  BY <1>6, <1>7, <1>8 DEF KeysInv

\* The UI thread takes a message.
LEMMA HandleMessageStep == IInv /\ HandleMessage => IInv'
<1> SUFFICES ASSUME IInv, HandleMessage PROVE IInv'
  OBVIOUS
<1> DEFINE m == Head(toUi)
<1>1. toUi # <<>> /\ toUi' = Tail(toUi) /\ UNCHANGED <<host, window, toWindow, bounds>>
  BY DEF HandleMessage
<1>2. \/ m.type = "key" /\ DeclineKey(m)
      \/ DropMessage(m)
      \/ \E how \in OnChanged : m.type = "update" /\ HandleUpdate(m, how)
      \/ \E how \in OnSubmitted : m.type = "action" /\ HandleAction(m, how)
  BY DEF HandleMessage
<1> HIDE DEF m
<1>3. m = Head(toUi)
  BY DEF m
<1>4. CASE m.type = "key" /\ DeclineKey(m)
  BY <1>1, <1>3, <1>4, DeclineKeyStep
<1>5. CASE DropMessage(m)
  BY <1>1, <1>3, <1>5, MessageStep
<1>6. ASSUME NEW how, \/ m.type = "update" /\ HandleUpdate(m, how)
                      \/ m.type = "action" /\ HandleAction(m, how)
      PROVE  IInv'
  BY <1>1, <1>3, <1>6, MessageStep
<1> QED
  BY <1>2, <1>4, <1>5, <1>6

(***************************************************************************)
(* The steps of the platform thread.                                       *)
(***************************************************************************)

\* What the platform thread writes keeps its types.
LEMMA PlatformTypes ==
  ASSUME TypeInv, UNCHANGED <<ui, window>>,
         model' = None \/ model' \in Models,
         client' \in Nat, took' \in Nat, abort' \in BOOLEAN,
         clearing' \in {"no", "tell", "abort", "drop"},
         toUi' \in Seq(UiMessages), toHost' \in Seq(HostMessages),
         toWindow' \in Seq(Keys \union {Enter}),
         clearing' # "no" => toHost' # <<>>
  PROVE  TypeInv'
<1>1. TypeOK'
  BY DEF TypeInv, TypeOK, ui, window, Models
<1>2. SessionType(session')
  BY DEF TypeInv, ui
<1>3. (todo \in Seq(PlainSteps \union Compositions) \/ \E k \in Keys : Adds(k))'
  BY DEF TypeInv, Adds, EditStep, window
<1> QED
  BY <1>1, <1>2, <1>3 DEF TypeInv

\* Where no keystroke moves, the keys keep their places.
LEMMA KeysStay ==
  ASSUME TypeInv, KeysInv, UNCHANGED toWindow, used \subseteq used',
         \A k \in Keys : Adds(k)' => Adds(k),
         \/ toHost' = toHost
         \/ toHost # <<>> /\ toHost' = Tail(toHost),
         \A k \in Keys : Once(toUi', KeyEvent(k)) /\ (Pressed(k)' => Pressed(k)),
         \A k \in Keys : Typed(k)' => Typed(k)
  PROVE  KeysInv'
<1> SUFFICES ASSUME NEW k \in Keys PROVE KeyOnce(k)'
  BY DEF KeysInv
<1>1. KeyOnce(k) /\ toHost \in Seq(HostMessages)
  BY DEF KeysInv, TypeInv
<1>2. Once(toHost', Verdict(k)) /\ (Answered(k)' => Answered(k))
  <2>1. Verdict(k)' = Verdict(k) /\ Once(toHost, Verdict(k))
    BY <1>1 DEF Verdict, KeyOnce
  <2> QED
    BY <1>1, <2>1, TailHas DEF Answered
<1>3. (Declined(k)' => Declined(k)) /\ Once(toWindow', k)
  BY <1>1 DEF Declined, KeyOnce
<1> QED
  BY <1>1, <1>2, <1>3, KeyKept

\* The window message at hand is as it was.
LEMMA SameTodo ==
  ASSUME todo' = todo
  PROVE  \A k : Adds(k)' => Adds(k)
BY DEF Adds, EditStep

\* The UI thread's queue is as it was.
LEMMA SameUiQueue ==
  ASSUME KeysInv, toUi' = toUi
  PROVE  /\ \A k \in Keys : Once(toUi', KeyEvent(k)) /\ (Pressed(k)' => Pressed(k))
         /\ \A k : InUpdates(toUi', k) => InUpdates(toUi, k)
         /\ \A i \in DOMAIN toUi' : toUi'[i].type = "update" =>
              \E j \in DOMAIN toUi : toUi'[i] = toUi[j]
BY DEF KeysInv, KeyOnce, Pressed, KeyEvent

\* What is left of the calls to the host when one is taken.
LEMMA HostTail ==
  ASSUME IInv, toHost # <<>>, toHost' = Tail(toHost)
  PROVE  /\ toHost' \in Seq(HostMessages) /\ Head(toHost) \in HostMessages
         /\ 1 \in DOMAIN toHost /\ toHost[1] = Head(toHost)
         /\ Numbered(toHost')
         /\ \A s : LiveStates(toHost, s) => LiveStates(toHost', s)
         /\ \A k : InStates(toHost', k) => InStates(toHost, k)
BY TailFacts, TailInOrder, TailHolds DEF IInv, TypeInv, NumbersInv

\* A session begins at the host: with the next number, and an empty model.
LEMMA HostSetsClientStep ==
  ASSUME IInv, UNCHANGED <<ui, window>>, clearing = "no", toHost # <<>>,
         HostSetsClient(Head(toHost))
  PROVE  IInv'
<1> DEFINE m == Head(toHost)
<1>1. /\ toHost' = Tail(toHost) /\ m.type = "client" /\ client' = m.id /\ model' = NewModel
      /\ UNCHANGED <<took, abort, clearing, toUi, toWindow>>
  BY DEF HostSetsClient, Taken
<1>2. /\ toHost' \in Seq(HostMessages) /\ m \in HostMessages
      /\ 1 \in DOMAIN toHost /\ toHost[1] = m
      /\ Numbered(toHost')
      /\ \A s : LiveStates(toHost, s) => LiveStates(toHost', s)
      /\ \A k : InStates(toHost', k) => InStates(toHost, k)
  BY <1>1, HostTail
<1> HIDE DEF m
<1>3. m.id \in Nat /\ m.id < session.next
  BY <1>1, <1>2 DEF HostMessages, IInv, NumbersInv, Numbered
<1>4. UNCHANGED <<session, value, alive, crossed, untold, ime, todo, used>>
  BY DEF ui, window
<1>5. TypeInv'
  <2>1. NewModel \in Models /\ TypeInv
    BY DEF NewModel, Models, IInv
  <2> QED
    BY <1>1, <1>2, <1>3, <2>1, PlatformTypes DEF TypeInv, TypeOK
<1>6. ConnectionInv'
  BY <1>4 DEF IInv, ConnectionInv, OnlyTheFocused, FocusedIsAttached, Attached
<1>7. NumbersInv'
  <2>1. \A i \in DOMAIN toHost' : toHost'[i].type = "client" => m.id < toHost'[i].id
    <3>1. \A i \in DOMAIN Tail(toHost) :
            i \in Int /\ i >= 1 /\ i + 1 \in DOMAIN toHost /\ Tail(toHost)[i] = toHost[i + 1]
      BY TailFacts DEF IInv, TypeInv
    <3>2. Numbered(toHost)
      BY DEF IInv, NumbersInv
    <3> SUFFICES ASSUME NEW i \in DOMAIN toHost', toHost'[i].type = "client"
                 PROVE  m.id < toHost'[i].id
      OBVIOUS
    <3>3. 1 < i + 1 /\ i + 1 \in DOMAIN toHost /\ toHost'[i] = toHost[i + 1]
      BY <1>1, <3>1
    <3> QED
      BY <1>1, <1>2, <3>2, <3>3 DEF Numbered
  <2>2. Numbered(toHost)'
    BY <1>1, <1>2, <1>4, <2>1 DEF Numbered
  <2> QED
    BY <1>1, <1>3, <1>4, <2>2 DEF IInv, NumbersInv
<1>8. LiveInv'
  <2>1. OneField'
    BY <1>4 DEF IInv, LiveInv, OneField, Apart
  <2>2. ASSUME session.slot # None PROVE Live(session.slot)'
    <3>1. LiveUpdates(session.slot) /\ LiveStates(toHost', session.slot)
      BY <1>2, <2>2 DEF IInv, LiveInv, Live
    <3>2. LiveModel(session.slot)'
      BY <1>1 DEF LiveModel, Apart, NewModel
    <3>3. LiveUpdates(session.slot)'
      BY <1>1, <1>4, <3>1 DEF LiveUpdates, Apart
    <3>4. LiveStates(toHost, session.slot)'
      BY <1>4, <3>1 DEF LiveStates, Apart
    <3> QED
      BY <3>2, <3>3, <3>4 DEF Live
  <2> QED
    BY <1>4, <2>1, <2>2 DEF LiveInv
<1>9. KeysInv'
  <2>1. \A k : Typed(k)' => Typed(k)
    BY <1>1, <1>2, <1>4 DEF Typed, InFields, InModel, NewModel
  <2> QED
    BY <1>1, <1>4, <2>1, SameTodo, SameUiQueue, KeysStay DEF IInv
<1> QED
  BY <1>5, <1>6, <1>7, <1>8, <1>9 DEF IInv

\* The host takes the framework's state: if it is for the session in the slot,
\* no other session begins behind it.
LEMMA HostSetsStateStep ==
  ASSUME IInv, UNCHANGED <<ui, window>>, clearing = "no", toHost # <<>>,
         HostSetsState(Head(toHost))
  PROVE  IInv'
<1> DEFINE m == Head(toHost)
<1>1. /\ toHost' = Tail(toHost) /\ m.type = "state"
      /\ \/ UNCHANGED <<model, took>>
         \/ model' = SetText(m.value) /\ took' = m.number
      /\ UNCHANGED <<client, abort, clearing, toUi, toWindow>>
  BY DEF HostSetsState, Taken
<1>2. /\ toHost' \in Seq(HostMessages) /\ m \in HostMessages
      /\ 1 \in DOMAIN toHost /\ toHost[1] = m
      /\ Numbered(toHost')
      /\ \A s : LiveStates(toHost, s) => LiveStates(toHost', s)
      /\ \A k : InStates(toHost', k) => InStates(toHost, k)
  BY <1>1, HostTail
<1> HIDE DEF m
<1>3. m.value \in Texts /\ m.number \in Nat /\ SetText(m.value).text = m.value.text
  BY <1>1, <1>2 DEF HostMessages, SetText
<1>4. UNCHANGED <<session, value, alive, crossed, untold, ime, todo, used>>
  BY DEF ui, window
<1>5. TypeInv'
  <2>1. SetText(m.value) \in Models
    BY <1>3 DEF SetText, Models, Texts
  <2> QED
    BY <1>1, <1>2, <1>3, <2>1, PlatformTypes DEF TypeInv, TypeOK, IInv, Models
<1>6. ConnectionInv'
  BY <1>4 DEF IInv, ConnectionInv, OnlyTheFocused, FocusedIsAttached, Attached
<1>7. NumbersInv'
  <2>1. Numbered(toHost)'
    BY <1>1, <1>2, <1>4 DEF Numbered
  <2> QED
    BY <1>1, <1>4, <2>1 DEF IInv, NumbersInv
<1>8. LiveInv'
  <2>1. OneField'
    BY <1>4 DEF IInv, LiveInv, OneField, Apart
  <2>2. ASSUME session.slot # None PROVE Live(session.slot)'
    <3>1. LiveModel(session.slot) /\ LiveUpdates(session.slot)
            /\ LiveStates(toHost, session.slot) /\ LiveStates(toHost', session.slot)
      BY <1>2, <2>2 DEF IInv, LiveInv, Live
    <3>2. client = session.slot.id => NoneBeginsAfter(toHost, 1)
      <4> SUFFICES ASSUME client = session.slot.id, NEW j \in DOMAIN toHost,
                          toHost[j].type = "client"
                   PROVE  FALSE
        BY DEF NoneBeginsAfter
      <4>1. toHost[j] \in HostMessages
        BY DEF IInv, TypeInv
      <4>2. toHost[j].id \in Nat /\ client \in Nat
        BY <4>1 DEF HostMessages, IInv, TypeInv
      <4>3. client < toHost[j].id /\ toHost[j].id < session.next /\ client + 1 = session.next
        BY <2>2 DEF IInv, NumbersInv, Numbered
      <4> QED
        BY <4>2, <4>3
    <3>3. client = session.slot.id => Apart(m.value.text, session.slot.field)
      BY <1>1, <1>2, <3>1, <3>2 DEF LiveStates
    <3>4. LiveModel(session.slot)'
      BY <1>1, <1>3, <1>4, <3>1, <3>3 DEF LiveModel, Apart
    <3>5. LiveUpdates(session.slot)'
      BY <1>1, <1>4, <3>1 DEF LiveUpdates, Apart
    <3>6. LiveStates(toHost, session.slot)'
      BY <1>4, <3>1 DEF LiveStates, Apart
    <3> QED
      BY <3>4, <3>5, <3>6 DEF Live
  <2> QED
    BY <1>4, <2>1, <2>2 DEF LiveInv
<1>9. KeysInv'
  <2>1. \A k : InModel(k)' => InModel(k) \/ InStates(toHost, k)
    BY <1>1, <1>2, <1>3 DEF InModel, InStates
  <2>2. \A k : Typed(k)' => Typed(k)
    BY <1>1, <1>2, <1>4, <2>1 DEF Typed, InFields
  <2> QED
    BY <1>1, <1>4, <2>2, SameTodo, SameUiQueue, KeysStay DEF IInv
<1> QED
  BY <1>5, <1>6, <1>7, <1>8, <1>9 DEF IInv

\* An update or an action of the host goes behind the messages to the UI thread.
LEMMA Told ==
  ASSUME TypeInv, KeysInv,
         \/ toUi' = toUi \o StateUpdate
         \/ toUi' = toUi \o (IF model = None THEN <<>> ELSE <<Action>>)
  PROVE  /\ toUi' \in Seq(UiMessages)
         /\ UpdatesAreOfTheModel
         /\ \A k \in Keys : Once(toUi', KeyEvent(k)) /\ (Pressed(k)' => Pressed(k))
         /\ \A k : InUpdates(toUi', k) => InUpdates(toUi, k) \/ InModel(k)
<1>1. toUi \in Seq(UiMessages)
  BY DEF TypeInv
<1>2. /\ Update.type = "update" /\ Update.id = client /\ Action.type = "action"
      /\ model # None => Update.text = model.text
      /\ Action \in UiMessages
      /\ model # None => Update \in UiMessages
  BY DEF Update, Action, Underlined, UiMessages, TypeInv, TypeOK
<1>3. PICK r : /\ toUi' = toUi \o r
               /\ r = <<>> \/ (model # None /\ (r = <<Update>> \/ r = <<Action>>))
  BY DEF StateUpdate
<1>4. /\ r \in Seq(UiMessages)
      /\ \A i \in DOMAIN r : model # None /\ (r[i] = Update \/ r[i] = Action)
  <2>1. CASE r = <<>>
    BY <2>1
  <2>2. ASSUME NEW x \in UiMessages, r = <<x>>
        PROVE  r \in Seq(UiMessages) /\ \A i \in DOMAIN r : r[i] = x
    <3>1. DOMAIN r = 1..1 /\ r[1] = x /\ r \in Seq(UiMessages)
      BY <2>2
    <3> QED
      BY <3>1
  <2> QED
    BY <1>2, <1>3, <2>1, <2>2
<1>5. /\ toUi' \in Seq(UiMessages)
      /\ \A i \in DOMAIN toUi : toUi'[i] = toUi[i]
      /\ \A i \in DOMAIN r : toUi'[Len(toUi) + i] = r[i]
      /\ \A i \in DOMAIN toUi' :
           i \in DOMAIN toUi \/ \E j \in DOMAIN r : i = Len(toUi) + j
  BY <1>1, <1>3, <1>4, ConcatFacts
<1>6. \A i \in DOMAIN toUi' :
        \/ i \in DOMAIN toUi /\ toUi'[i] = toUi[i]
        \/ model # None /\ (toUi'[i] = Update \/ toUi'[i] = Action)
  BY <1>4, <1>5
<1>7. UpdatesAreOfTheModel
  BY <1>2, <1>6 DEF UpdatesAreOfTheModel
<1>8. \A k : InUpdates(toUi', k) => InUpdates(toUi, k) \/ InModel(k)
  BY <1>2, <1>6 DEF InUpdates, InModel
<1>9. ASSUME NEW k \in Keys
      PROVE  Once(toUi', KeyEvent(k)) /\ (Pressed(k)' => Pressed(k))
  <2>1. KeyEvent(k)' = KeyEvent(k) /\ KeyEvent(k).type = "key"
    BY DEF KeyEvent
  <2>2. \A i \in DOMAIN r : r[i] # KeyEvent(k)
    BY <1>2, <1>4, <2>1
  <2>3. Once(toUi, KeyEvent(k))
    BY DEF KeysInv, KeyOnce
  <2> QED
    BY <1>1, <1>3, <1>4, <2>1, <2>2, <2>3, ConcatHas DEF Pressed
<1> QED
  BY <1>5, <1>7, <1>8, <1>9

\* clearClient, step by step: the model gives up its composition, tells of it,
\* and goes.
LEMMA ClearClientSteps ==
  ASSUME IInv, UNCHANGED <<ui, window>>,
         \/ clearing = "no" /\ toHost # <<>> /\ BeginClear(Head(toHost))
         \/ TellCommitted \/ AskAbort \/ DropModel
  PROVE  IInv'
<1>1. UNCHANGED <<session, value, alive, crossed, untold, ime, todo, used>>
  BY DEF ui, window
<1>2. /\ model' = None \/ (model # None /\ model' \in Models /\ model'.text = model.text)
      /\ UNCHANGED <<client, took, toWindow>>
      /\ abort' \in BOOLEAN /\ clearing' \in {"no", "tell", "abort", "drop"}
      /\ toUi' = toUi \/ toUi' = toUi \o StateUpdate
      /\ \/ toHost' = toHost /\ (clearing' # "no" => toHost # <<>>)
         \/ toHost # <<>> /\ toHost' = Tail(toHost) /\ clearing' = "no"
  <2>1. CASE clearing = "no" /\ toHost # <<>> /\ BeginClear(Head(toHost))
    <3>1. model = None \/ model \in Models
      BY DEF IInv, TypeInv, TypeOK, Models
    <3>2. model # None => /\ EndComposing(CommitComposing(model)) \in Models
                          /\ EndComposing(CommitComposing(model)).text = model.text
      BY <3>1 DEF EndComposing, CommitComposing, Models
    <3>3. \/ model' = model
          \/ model # None /\ model' = EndComposing(CommitComposing(model))
      BY <2>1 DEF BeginClear
    <3>4. model' = None \/ (model # None /\ model' \in Models /\ model'.text = model.text)
      BY <3>1, <3>2, <3>3
    <3> QED
      BY <2>1, <3>4 DEF BeginClear, IInv, TypeInv, TypeOK
  <2>2. CASE TellCommitted \/ AskAbort \/ DropModel
    BY <2>2 DEF TellCommitted, AskAbort, DropModel, Taken, IInv, TypeInv, TypeOK, Models
  <2> QED
    BY <2>1, <2>2
<1>3. /\ toUi' \in Seq(UiMessages) /\ UpdatesAreOfTheModel
      /\ \A k \in Keys : Once(toUi', KeyEvent(k)) /\ (Pressed(k)' => Pressed(k))
      /\ \A k : InUpdates(toUi', k) => InUpdates(toUi, k) \/ InModel(k)
  <2>1. CASE toUi' = toUi
    BY <2>1, SameUiQueue DEF UpdatesAreOfTheModel, IInv, TypeInv
  <2>2. CASE toUi' = toUi \o StateUpdate
    BY <2>2, Told DEF IInv
  <2> QED
    BY <1>2, <2>1, <2>2
<1>4. /\ toHost' \in Seq(HostMessages)
      /\ Numbered(toHost')
      /\ \A s : LiveStates(toHost, s) => LiveStates(toHost', s)
      /\ \A k : InStates(toHost', k) => InStates(toHost, k)
  <2>1. CASE toHost' = toHost
    BY <2>1 DEF IInv, TypeInv, NumbersInv
  <2>2. CASE toHost # <<>> /\ toHost' = Tail(toHost)
    BY <2>2, HostTail
  <2> QED
    BY <1>2, <2>1, <2>2
<1>5. TypeInv'
  BY <1>2, <1>3, <1>4, PlatformTypes DEF IInv, TypeInv, TypeOK
<1>6. ModelTakesNothingShown
  BY <1>2 DEF ModelTakesNothingShown
<1>7. ConnectionInv' /\ NumbersInv' /\ LiveInv'
  BY <1>1, <1>2, <1>3, <1>4, <1>6, HostKeeps
<1>8. \A k \in Keys : Typed(k)' => Typed(k)
  BY <1>1, <1>2, <1>3, <1>4 DEF Typed, InFields, InModel
<1>9. KeysInv'
  BY <1>1, <1>2, <1>3, <1>8, SameTodo, KeysStay DEF IInv
<1> QED
  BY <1>5, <1>7, <1>9 DEF IInv

\* The verdict on a key goes on to the window thread, and the keystroke with it.
LEMMA PassVerdictStep ==
  ASSUME IInv, UNCHANGED <<ui, window>>, toHost # <<>>, PassVerdict(Head(toHost)),
         clearing = "no"
  PROVE  IInv'
<1> DEFINE m == Head(toHost)
<1>1. /\ m.type = "verdict" /\ toHost' = Tail(toHost) /\ toWindow' = Append(toWindow, m.key)
      /\ UNCHANGED <<model, client, took, abort, clearing, toUi>>
  BY DEF PassVerdict, Taken
<1>2. /\ toHost' \in Seq(HostMessages) /\ m \in HostMessages
      /\ Numbered(toHost')
      /\ \A s : LiveStates(toHost, s) => LiveStates(toHost', s)
      /\ \A k : InStates(toHost', k) => InStates(toHost, k)
  BY <1>1, HostTail
<1> HIDE DEF m
<1>3. /\ m.key \in Keys \union {Enter} /\ m = Verdict(m.key)
      /\ toWindow \in Seq(Keys \union {Enter}) /\ toHost \in Seq(HostMessages)
      /\ m = Head(toHost)
  BY <1>1, <1>2 DEF HostMessages, Verdict, IInv, TypeInv, m
<1>4. UNCHANGED <<session, value, alive, crossed, untold, ime, todo, used>>
  BY DEF ui, window
<1>5. TypeInv'
  <2>1. toWindow' \in Seq(Keys \union {Enter})
    BY <1>1, <1>3, AppendFacts
  <2> QED
    BY <1>1, <1>2, <2>1, PlatformTypes DEF IInv, TypeInv, TypeOK, Models
<1>6. ConnectionInv' /\ NumbersInv' /\ LiveInv'
  <2>1. ModelTakesNothingShown /\ UpdatesAreOfTheModel
    BY <1>1 DEF ModelTakesNothingShown, UpdatesAreOfTheModel
  <2> QED
    BY <1>1, <1>2, <1>4, <2>1, HostKeeps
<1>7. ASSUME NEW k \in Keys PROVE KeyOnce(k)'
  <2>1. KeyOnce(k) /\ Verdict(k)' = Verdict(k) /\ KeyEvent(k)' = KeyEvent(k)
    BY DEF IInv, KeysInv, Verdict, KeyEvent
  <2>2. /\ Once(toHost', Verdict(k))
        /\ Answered(k)' => Answered(k)
        /\ m.key = k => Answered(k) /\ ~Answered(k)'
    <3>1. Once(toHost, Verdict(k))
      BY <2>1 DEF KeyOnce
    <3> QED
      BY <1>1, <1>3, <2>1, <3>1, TailHas DEF Answered
  <2>3. Typed(k)' => Typed(k)
    BY <1>1, <1>2, <1>4 DEF Typed, InFields, InModel
  <2>4. /\ Pressed(k)' <=> Pressed(k)
        /\ Adds(k)' <=> Adds(k)
        /\ Once(toUi', KeyEvent(k))
    BY <1>1, <1>4, <2>1 DEF Pressed, Adds, EditStep, KeyOnce, KeyEvent
  <2>5. CASE m.key = k
    <3>1. ~Pressed(k) /\ ~Declined(k) /\ ~Adds(k) /\ ~Typed(k) /\ k \in used'
      BY <1>4, <2>1, <2>2, <2>5 DEF KeyOnce
    <3>2. Once(toWindow', k)
      BY <1>1, <1>3, <2>1, <3>1, AppendHas DEF Declined, KeyOnce
    <3>3. ~Pressed(k)' /\ ~Answered(k)' /\ ~Adds(k)' /\ ~Typed(k)'
      BY <2>2, <2>3, <2>4, <2>5, <3>1
    <3> QED
      BY <2>1, <2>2, <2>4, <3>1, <3>2, <3>3 DEF KeyOnce
  <2>6. CASE m.key # k
    <3>1. Once(toWindow', k) /\ (Declined(k)' => Declined(k))
      <4>1. /\ Has(Append(toWindow, m.key), k) => Has(toWindow, k) \/ m.key = k
            /\ Once(toWindow, k) /\ m.key # k => Once(Append(toWindow, m.key), k)
        BY <1>3, AppendHas
      <4>2. Once(toWindow, k)
        BY <2>1 DEF KeyOnce
      <4> QED
        BY <1>1, <2>6, <4>1, <4>2 DEF Declined
    <3> QED
      BY <1>4, <2>1, <2>2, <2>3, <2>4, <3>1, KeyKept
  <2> QED
    BY <2>5, <2>6
<1> QED
  BY <1>5, <1>6, <1>7 DEF IInv, KeysInv

\* The platform thread takes a step.
LEMMA HandleCallStep == IInv /\ HandleCall => IInv'
<1> SUFFICES ASSUME IInv, HandleCall PROVE IInv'
  OBVIOUS
<1>1. UNCHANGED <<ui, window>>
  BY DEF HandleCall
<1>2. CASE clearing = "no" /\ toHost # <<>> /\ HostSetsClient(Head(toHost))
  BY <1>1, <1>2, HostSetsClientStep
<1>3. CASE clearing = "no" /\ toHost # <<>> /\ HostSetsState(Head(toHost))
  BY <1>1, <1>3, HostSetsStateStep
<1>4. CASE clearing = "no" /\ toHost # <<>> /\ PassVerdict(Head(toHost))
  BY <1>1, <1>4, PassVerdictStep
<1>5. CASE \/ clearing = "no" /\ toHost # <<>> /\ BeginClear(Head(toHost))
           \/ TellCommitted \/ AskAbort \/ DropModel
  BY <1>1, <1>5, ClearClientSteps
<1> QED
  BY <1>2, <1>3, <1>4, <1>5 DEF HandleCall

(***************************************************************************)
(* The steps of the window thread.                                         *)
(***************************************************************************)

Steps == PlainSteps \union Compositions

\* A message of a keystroke is no message of the input method.
LEMMA StepsAddNothing ==
  ASSUME NEW q \in Seq(Steps), NEW k
  PROVE  q # <<EditStep("add", {k})>>
<1> SUFFICES ASSUME q = <<EditStep("add", {k})>> PROVE FALSE
  OBVIOUS
<1>1. q[1] = EditStep("add", {k}) /\ q # <<>>
  OBVIOUS
<1>2. q[1] \in Steps
  BY <1>1, TailFacts
<1> QED
  BY <1>1, <1>2 DEF Steps, PlainSteps, Compositions, EditStep

\* The steps of the window messages.
LEMMA StepTypes ==
  /\ \A op \in {"begin", "change", "commit", "end", "send", "enter"}, c \in SUBSET Strings :
       EditStep(op, c) \in PlainSteps
  /\ \A then \in Seq(PlainSteps) : CompositionMessage(then) \in Compositions
BY DEF EditStep, PlainSteps, CompositionMessage, Compositions

\* So are the messages that commit or give up a composition.
LEMMA CompositionTypes ==
  ASSUME NEW c \in SUBSET Strings
  PROVE  /\ <<CompositionMessage(<<EditStep("change", c)>>)>> \in Seq(Steps)
         /\ <<CompositionMessage(<<EditStep("change", c), EditStep("commit", {})>>)>>
              \o EndMessage \in Seq(Steps)
         /\ CancelMessages \in Seq(Steps)
<1> DEFINE committed(d) == <<EditStep("change", d), EditStep("commit", {})>>
<1>1. ASSUME NEW d \in SUBSET Strings
      PROVE  /\ <<EditStep("change", d)>> \in Seq(PlainSteps)
             /\ committed(d) \in Seq(PlainSteps)
  <2>1. EditStep("change", d) \in PlainSteps /\ EditStep("commit", {}) \in PlainSteps
    BY StepTypes
  <2> QED
    BY <2>1
<1>2. EndMessage \in Seq(Steps)
  <2>1. EditStep("end", {}) \in Steps
    BY StepTypes DEF Steps
  <2> QED
    BY <2>1 DEF EndMessage
<1>3. ASSUME NEW then \in Seq(PlainSteps) PROVE <<CompositionMessage(then)>> \in Seq(Steps)
  <2>1. CompositionMessage(then) \in Steps
    BY StepTypes DEF Steps
  <2> QED
    BY <2>1
<1>4. ASSUME NEW d \in SUBSET Strings
      PROVE  <<CompositionMessage(committed(d))>> \o EndMessage \in Seq(Steps)
  <2>1. <<CompositionMessage(committed(d))>> \in Seq(Steps)
    BY <1>1, <1>3
  <2> HIDE DEF committed
  <2> QED
    BY <1>2, <2>1, ConcatProperties
<1> QED
  BY <1>1, <1>3, <1>4 DEF CancelMessages

\* What the window thread writes keeps its types.
LEMMA WindowTypes ==
  ASSUME TypeInv, UNCHANGED <<ui, client, took, clearing, toHost>>,
         model' = None \/ model' \in Models, abort' \in BOOLEAN,
         ime' = None \/ ime' \in SUBSET Strings, used' \subseteq Marks,
         toUi' \in Seq(UiMessages), toWindow' \in Seq(Keys \union {Enter}),
         todo' \in Seq(Steps) \/ \E k \in Keys : todo' = <<EditStep("add", {k})>>
  PROVE  TypeInv'
<1>1. TypeOK'
  BY DEF TypeInv, TypeOK, ui, Models
<1>2. SessionType(session')
  BY DEF TypeInv, ui
<1>3. (todo \in Seq(PlainSteps \union Compositions) \/ \E k \in Keys : Adds(k))'
  BY DEF Adds, EditStep, Steps
<1> QED
  BY <1>1, <1>2, <1>3 DEF TypeInv, ui

\* A key is pressed: a keystroke that was nowhere is on its way.
LEMMA PressStep ==
  ASSUME IInv, NEW key \in Keys \union {Enter}, Press(key)
  PROVE  IInv'
<1>1. /\ toUi' = Append(toUi, KeyEvent(key))
      /\ used' = IF key = Enter THEN used ELSE used \union {key}
      /\ key # Enter => key \notin used
      /\ UNCHANGED <<ui, host, ime, todo, toHost, toWindow>>
  BY DEF Press
<1>2. UNCHANGED <<session, value, alive, crossed, untold, model, client, took, abort, clearing>>
  BY <1>1 DEF ui, host
<1>3. toUi \in Seq(UiMessages) /\ KeyEvent(key) \in UiMessages /\ KeyEvent(key).type = "key"
  BY DEF IInv, TypeInv, KeyEvent, UiMessages
<1>4. /\ toUi' \in Seq(UiMessages) /\ Len(toUi) \in Nat
      /\ DOMAIN toUi' = DOMAIN toUi \union {Len(toUi) + 1}
      /\ \A i \in DOMAIN toUi : toUi'[i] = toUi[i]
      /\ toUi'[Len(toUi) + 1] = KeyEvent(key)
  BY <1>1, <1>3, AppendFacts
<1>5. UpdatesAreOfTheModel /\ \A k : InUpdates(toUi', k) => InUpdates(toUi, k)
  BY <1>3, <1>4 DEF UpdatesAreOfTheModel, InUpdates
<1>6. TypeInv'
  <2>1. used' \subseteq Marks
    BY <1>1 DEF IInv, TypeInv, TypeOK, Marks
  <2> QED
    BY <1>1, <1>2, <1>4, <2>1, WindowTypes
       DEF IInv, TypeInv, TypeOK, Models, Steps, Adds
<1>7. ConnectionInv' /\ NumbersInv' /\ LiveInv'
  <2>1. ModelTakesNothingShown
    BY <1>2 DEF ModelTakesNothingShown
  <2> QED
    BY <1>1, <1>2, <1>5, <2>1, HostKeeps DEF IInv, NumbersInv
<1>8. ASSUME NEW k \in Keys PROVE KeyOnce(k)'
  <2>1. KeyOnce(k) /\ Verdict(k)' = Verdict(k) /\ KeyEvent(k)' = KeyEvent(k)
    BY DEF IInv, KeysInv, Verdict, KeyEvent
  <2>2. Typed(k)' => Typed(k)
    BY <1>1, <1>2, <1>5 DEF Typed, InFields, InModel
  <2>3. /\ Answered(k)' <=> Answered(k)
        /\ Declined(k)' <=> Declined(k)
        /\ Adds(k)' <=> Adds(k)
        /\ Once(toHost', Verdict(k)) /\ Once(toWindow', k)
    BY <1>1, <2>1 DEF Answered, Declined, Adds, EditStep, KeyOnce
  <2>4. /\ Has(toUi', KeyEvent(k)) => Has(toUi, KeyEvent(k)) \/ KeyEvent(key) = KeyEvent(k)
        /\ Once(toUi, KeyEvent(k)) /\ (KeyEvent(key) # KeyEvent(k) \/ ~Has(toUi, KeyEvent(k)))
             => Once(toUi', KeyEvent(k))
    BY <1>1, <1>3, AppendHas
  <2>5. CASE key = k
    <3>1. k \notin used /\ k \in used'
      BY <1>1, <2>5, MarksAreApart
    <3>2. ~Pressed(k) /\ ~Answered(k) /\ ~Declined(k) /\ ~Adds(k) /\ ~Typed(k)
      BY <2>1, <3>1 DEF KeyOnce
    <3>3. Once(toUi', KeyEvent(k))
      BY <2>1, <2>4, <3>2 DEF Pressed, KeyOnce
    <3>4. ~Answered(k)' /\ ~Declined(k)' /\ ~Adds(k)' /\ ~Typed(k)'
      BY <2>2, <2>3, <3>2
    <3> QED
      BY <2>1, <2>3, <3>1, <3>3, <3>4 DEF KeyOnce
  <2>6. CASE key # k
    <3>1. KeyEvent(key) # KeyEvent(k)
      BY <2>6 DEF KeyEvent
    <3>2. Once(toUi', KeyEvent(k)) /\ (Pressed(k)' => Pressed(k))
      BY <2>1, <2>4, <3>1 DEF Pressed, KeyOnce
    <3>3. used \subseteq used'
      BY <1>1
    <3> QED
      BY <2>1, <2>2, <2>3, <3>2, <3>3, KeyKept
  <2> QED
    BY <2>5, <2>6
<1> QED
  BY <1>6, <1>7, <1>8 DEF IInv, KeysInv

\* The window thread takes a verdict, and the keystroke is to be added.
LEMMA TakeVerdictStep ==
  ASSUME IInv, TakeVerdict
  PROVE  IInv'
<1> DEFINE key == Head(toWindow)
<1>1. /\ todo = <<>> /\ toWindow # <<>> /\ toWindow' = Tail(toWindow)
      /\ todo' = <<IF key = Enter THEN EditStep("enter", {}) ELSE EditStep("add", {key})>>
      /\ UNCHANGED <<ui, host, ime, used, toUi, toHost>>
  BY DEF TakeVerdict, WindowIdle
<1>2. UNCHANGED <<session, value, alive, crossed, untold, model, client, took, abort, clearing>>
  BY <1>1 DEF ui, host
<1>3. /\ toWindow \in Seq(Keys \union {Enter}) /\ toWindow' \in Seq(Keys \union {Enter})
      /\ key \in Keys \union {Enter}
  BY <1>1, TailFacts DEF IInv, TypeInv
<1>h. key = Head(toWindow)
  OBVIOUS
<1> HIDE DEF key
<1>4. \/ key = Enter /\ todo' \in Seq(Steps)
      \/ key \in Keys /\ todo' = <<EditStep("add", {key})>>
  <2>1. CASE key = Enter
    <3>1. EditStep("enter", {}) \in Steps
      BY StepTypes DEF Steps
    <3> QED
      BY <1>1, <2>1, <3>1
  <2> QED
    BY <1>1, <1>3, <2>1
<1>5. TypeInv'
  BY <1>1, <1>2, <1>3, <1>4, WindowTypes DEF IInv, TypeInv, TypeOK, Models
<1>6. ConnectionInv' /\ NumbersInv' /\ LiveInv'
  <2>1. ModelTakesNothingShown /\ UpdatesAreOfTheModel
    BY <1>1, <1>2 DEF ModelTakesNothingShown, UpdatesAreOfTheModel
  <2> QED
    BY <1>1, <1>2, <2>1, HostKeeps DEF IInv, NumbersInv
<1>7. ASSUME NEW k \in Keys PROVE KeyOnce(k)'
  <2>1. KeyOnce(k) /\ Verdict(k)' = Verdict(k) /\ KeyEvent(k)' = KeyEvent(k)
    BY DEF IInv, KeysInv, Verdict, KeyEvent
  <2>2. Typed(k)' <=> Typed(k)
    BY <1>1, <1>2 DEF Typed, InFields, InModel
  <2>3. /\ Answered(k)' <=> Answered(k)
        /\ Pressed(k)' <=> Pressed(k)
        /\ Once(toHost', Verdict(k)) /\ Once(toUi', KeyEvent(k))
    BY <1>1, <2>1 DEF Answered, Pressed, KeyOnce
  <2>4. /\ key = k => Declined(k) /\ ~Declined(k)'
        /\ Declined(k)' => Declined(k)
        /\ Once(toWindow', k)
    <3>1. Once(toWindow, k)
      BY <2>1 DEF KeyOnce
    <3> QED
      BY <1>1, <1>3, <1>h, <3>1, TailHas DEF Declined
  <2>5. CASE key = k
    <3>1. ~Pressed(k) /\ ~Answered(k) /\ ~Typed(k) /\ k \in used'
      BY <1>1, <2>1, <2>4, <2>5 DEF KeyOnce
    <3>2. ~Pressed(k)' /\ ~Answered(k)' /\ ~Declined(k)' /\ ~Typed(k)'
      BY <2>2, <2>3, <2>4, <2>5, <3>1
    <3> QED
      BY <2>1, <2>3, <2>4, <3>1, <3>2 DEF KeyOnce
  <2>6. CASE key # k
    <3>1. ~Adds(k)'
      <4>1. CASE todo' \in Seq(Steps)
        BY <4>1, StepsAddNothing DEF Adds, EditStep
      <4>2. CASE todo' = <<EditStep("add", {key})>>
        <5>1. EditStep("add", {key}) # EditStep("add", {k})
          BY <2>6 DEF EditStep
        <5>2. Adds(k)' => todo' = <<EditStep("add", {k})>>
          BY DEF Adds, EditStep
        <5> QED
          BY <4>2, <5>1, <5>2
      <4> QED
        BY <1>4, <4>1, <4>2
    <3> QED
      BY <1>1, <2>1, <2>2, <2>3, <2>4, <3>1, KeyKept
  <2> QED
    BY <2>5, <2>6
<1> QED
  BY <1>5, <1>6, <1>7 DEF IInv, KeysInv

\* The input method begins, changes, commits or gives up a composition.
LEMMA ImeStep ==
  ASSUME IInv, ImeStarts \/ (\E c \in Strings : ImeComposes(c)) \/ ImeCommits \/ ImeCancels
  PROVE  IInv'
<1>1. /\ UNCHANGED <<ui, host, toUi, toHost, toWindow>>
      /\ ime' = None \/ ime' \in SUBSET Strings
      /\ used \subseteq used' /\ used' \subseteq Marks
      /\ todo' \in Seq(Steps)
  <2>1. ime = None \/ ime \in SUBSET Strings
    BY DEF IInv, TypeInv, TypeOK
  <2>2. CASE ImeStarts
    <3>1. EditStep("begin", {}) \in Steps
      BY StepTypes DEF Steps
    <3> QED
      BY <2>2, <3>1 DEF ImeStarts, IInv, TypeInv, TypeOK
  <2>3. ASSUME NEW c \in Strings, ImeComposes(c)
        PROVE  /\ UNCHANGED <<ui, host, toUi, toHost, toWindow>>
               /\ ime' \in SUBSET Strings
               /\ used \subseteq used' /\ used' \subseteq Marks
               /\ todo' \in Seq(Steps)
    <3>1. {c} \in SUBSET Strings /\ c \in Marks
      BY DEF Marks
    <3> QED
      BY <2>3, <3>1, CompositionTypes DEF ImeComposes, IInv, TypeInv, TypeOK
  <2>4. CASE ImeCommits
    <3>1. ime \in SUBSET Strings
      BY <2>1, <2>4 DEF ImeCommits
    <3> QED
      BY <2>4, <3>1, CompositionTypes DEF ImeCommits, IInv, TypeInv, TypeOK
  <2>5. CASE ImeCancels
    <3>1. {} \in SUBSET Strings
      OBVIOUS
    <3> QED
      BY <2>5, <3>1, CompositionTypes DEF ImeCancels, IInv, TypeInv, TypeOK
  <2> QED
    BY <2>2, <2>3, <2>4, <2>5
<1>2. UNCHANGED <<session, value, alive, crossed, untold, model, client, took, abort, clearing>>
  BY <1>1 DEF ui, host
<1>3. TypeInv'
  BY <1>1, <1>2, WindowTypes DEF IInv, TypeInv, TypeOK, Models
<1>4. ConnectionInv' /\ NumbersInv' /\ LiveInv'
  <2>1. ModelTakesNothingShown /\ UpdatesAreOfTheModel
    BY <1>1, <1>2 DEF ModelTakesNothingShown, UpdatesAreOfTheModel
  <2> QED
    BY <1>1, <1>2, <2>1, HostKeeps DEF IInv, NumbersInv
<1>5. KeysInv'
  <2>1. \A k \in Keys : Adds(k)' => Adds(k)
    BY <1>1, StepsAddNothing DEF Adds, EditStep
  <2>2. \A k \in Keys : Typed(k)' => Typed(k)
    BY <1>1, <1>2 DEF Typed, InFields, InModel
  <2> QED
    BY <1>1, <2>1, <2>2, SameUiQueue, KeysStay DEF IInv
<1> QED
  BY <1>3, <1>4, <1>5 DEF IInv

\* A composition message goes on, or gives up the composition.
LEMMA LookForAbortStep ==
  ASSUME IInv, todo # <<>>, Head(todo).op = "composition", LookForAbort(Head(todo)),
         UNCHANGED <<ui, client, took, clearing, used, toHost, toWindow>>
  PROVE  IInv'
<1>1. UNCHANGED <<session, value, model, toUi>> /\ abort' = FALSE /\ ime' \in {ime, None}
  BY DEF LookForAbort, ui
<1>2. todo \in Seq(Steps)
  <2>1. ASSUME NEW k, Adds(k) PROVE FALSE
    BY <2>1 DEF Adds, EditStep
  <2> QED
    BY <2>1 DEF IInv, TypeInv, Steps
<1>3. Head(todo) \in Compositions /\ Tail(todo) \in Seq(Steps)
  BY <1>2, TailFacts DEF Steps, PlainSteps
<1>4. Head(todo).then \in Seq(Steps)
  <2>1. Head(todo).then \in Seq(PlainSteps)
    BY <1>3 DEF Compositions
  <2> QED
    BY <2>1, SeqMonotonic DEF Steps
<1>5. todo' \in Seq(Steps)
  BY <1>3, <1>4, CompositionTypes, ConcatProperties DEF LookForAbort
<1>6. TypeInv'
  BY <1>1, <1>5, WindowTypes DEF IInv, TypeInv, TypeOK, Models
<1>7. ConnectionInv' /\ NumbersInv' /\ LiveInv'
  <2>1. ModelTakesNothingShown /\ UpdatesAreOfTheModel
    BY <1>1 DEF ModelTakesNothingShown, UpdatesAreOfTheModel
  <2> QED
    BY <1>1, <2>1, HostKeeps DEF IInv, NumbersInv
<1>8. KeysInv'
  <2>1. \A k \in Keys : Adds(k)' => Adds(k)
    BY <1>5, StepsAddNothing DEF Adds, EditStep
  <2>2. \A k \in Keys : Typed(k)' => Typed(k)
    BY <1>1 DEF Typed, InFields, InModel
  <2> QED
    BY <1>1, <2>1, <2>2, SameUiQueue, KeysStay DEF IInv
<1> QED
  BY <1>6, <1>7, <1>8 DEF IInv

\* The window thread tells the framework what it holds, or of an action.
LEMMA TellStep ==
  ASSUME IInv, todo # <<>>, Head(todo).op \in {"send", "enter"}, SendUpdate \/ SendAction,
         UNCHANGED <<ui, client, took, clearing, used, toHost, toWindow>>
  PROVE  IInv'
<1>1. UNCHANGED <<session, value, model, abort, ime>> /\ todo' = Tail(todo)
  BY DEF SendUpdate, SendAction, ui
<1>2. /\ toUi' \in Seq(UiMessages) /\ UpdatesAreOfTheModel
      /\ \A k \in Keys : Once(toUi', KeyEvent(k)) /\ (Pressed(k)' => Pressed(k))
      /\ \A k : InUpdates(toUi', k) => InUpdates(toUi, k) \/ InModel(k)
  BY Told DEF SendUpdate, SendAction, IInv
<1>3. todo \in Seq(Steps)
  <2>1. ASSUME NEW k, Adds(k) PROVE FALSE
    BY <2>1 DEF Adds, EditStep
  <2> QED
    BY <2>1 DEF IInv, TypeInv, Steps
<1>4. todo' \in Seq(Steps)
  BY <1>1, <1>3, TailFacts
<1>5. TypeInv'
  BY <1>1, <1>2, <1>4, WindowTypes DEF IInv, TypeInv, TypeOK, Models
<1>6. ConnectionInv' /\ NumbersInv' /\ LiveInv'
  <2>1. ModelTakesNothingShown
    BY <1>1 DEF ModelTakesNothingShown
  <2> QED
    BY <1>1, <1>2, <2>1, HostKeeps DEF IInv, NumbersInv
<1>7. KeysInv'
  <2>1. \A k \in Keys : Adds(k)' => Adds(k)
    BY <1>4, StepsAddNothing DEF Adds, EditStep
  <2>2. \A k \in Keys : Typed(k)' => Typed(k)
    BY <1>1, <1>2 DEF Typed, InFields, InModel
  <2> QED
    BY <1>1, <1>2, <2>1, <2>2, KeysStay DEF IInv
<1> QED
  BY <1>5, <1>6, <1>7 DEF IInv

\* An edit of the input method types no keystroke.
LEMMA PlainEdit ==
  ASSUME IInv, NEW step \in PlainSteps, step.op \in {"begin", "change", "commit", "end"},
         model # None
  PROVE  /\ Edited(step) \in Models
         /\ \A k \in Keys : k \in Edited(step).text => k \in model.text
<1>1. model \in Models /\ step.string \subseteq Strings
  BY DEF IInv, TypeInv, TypeOK, Models, PlainSteps
<1>2. CASE step.op = "begin"
  BY <1>1, <1>2 DEF Edited, BeginComposing, Models
<1>3. CASE step.op = "change"
  <2>1. Edited(step) = UpdateComposingText(model, step.string)
    BY <1>3 DEF Edited
  <2>2. UpdateComposingText(model, step.string) \in Models
    BY <1>1 DEF UpdateComposingText, Models, Marks
  <2>3. UpdateComposingText(model, step.string).text = (model.text \ model.marked) \union step.string
    BY <1>1 DEF UpdateComposingText, Models
  <2> QED
    BY <1>1, <2>1, <2>2, <2>3, MarksAreApart
<1>4. CASE step.op = "commit"
  BY <1>1, <1>4 DEF Edited, CommitComposing, Models
<1>5. CASE step.op = "end"
  BY <1>1, <1>5 DEF Edited, EndComposing, Models
<1> QED
  BY <1>2, <1>3, <1>4, <1>5

\* The input method edits the model.
LEMMA ImeEditStep ==
  ASSUME IInv, todo # <<>>, todo \in Seq(Steps), EditModel(Head(todo)),
         Head(todo).op \notin {"composition", "send", "enter"},
         UNCHANGED <<ui, client, took, clearing, used, toHost, toWindow>>
  PROVE  IInv'
<1> DEFINE step == Head(todo)
<1>1. /\ UNCHANGED <<session, value, abort, ime, toUi>>
      /\ \/ model = None /\ todo' = Tail(todo) /\ model' = model
         \/ /\ model # None /\ model' = Edited(step)
            /\ \/ todo' = <<>> \o Tail(todo)
               \/ todo' = <<SendStep>> \o Tail(todo)
  BY DEF EditModel, ui
<1>2. step \in PlainSteps /\ Tail(todo) \in Seq(Steps)
  BY TailFacts DEF Steps, Compositions
<1>3. step.op \in {"begin", "change", "commit", "end"}
  BY <1>2 DEF PlainSteps
<1> HIDE DEF step
<1>4. model # None => /\ Edited(step) \in Models
                      /\ \A k \in Keys : k \in Edited(step).text => k \in model.text
  BY <1>2, <1>3, PlainEdit
<1>5. todo' \in Seq(Steps)
  <2>1. SendStep \in Steps
    BY StepTypes DEF SendStep, Steps
  <2>2. <<SendStep>> \in Seq(Steps) /\ <<>> \in Seq(Steps)
    BY <2>1
  <2> QED
    BY <1>1, <1>2, <2>2, ConcatProperties
<1>6. TypeInv'
  BY <1>1, <1>4, <1>5, WindowTypes DEF IInv, TypeInv, TypeOK
<1>7. ConnectionInv' /\ NumbersInv' /\ LiveInv'
  <2>1. ModelTakesNothingShown /\ UpdatesAreOfTheModel
    BY <1>1, <1>4 DEF ModelTakesNothingShown, UpdatesAreOfTheModel
  <2> QED
    BY <1>1, <2>1, HostKeeps DEF IInv, NumbersInv
<1>8. KeysInv'
  <2>1. \A k \in Keys : Adds(k)' => Adds(k)
    BY <1>5, StepsAddNothing DEF Adds, EditStep
  <2>2. \A k \in Keys : Typed(k)' => Typed(k)
    BY <1>1, <1>4 DEF Typed, InFields, InModel
  <2> QED
    BY <1>1, <2>1, <2>2, SameUiQueue, KeysStay DEF IInv
<1> QED
  BY <1>6, <1>7, <1>8 DEF IInv

\* A keystroke is typed: no field shows it, so it is the text's of the field the
\* host types for, and no other's.
LEMMA AddStep ==
  ASSUME IInv, NEW key \in Keys, Adds(key), EditModel(Head(todo)),
         UNCHANGED <<ui, client, took, clearing, used, toHost, toWindow>>
  PROVE  IInv'
<1> DEFINE step == EditStep("add", {key})
<1>0. Head(todo) = step /\ Tail(todo) = <<>> /\ step.op = "add" /\ step.string = {key}
  BY DEF Adds, EditStep
<1>1. /\ UNCHANGED <<session, value, abort, ime, toUi>>
      /\ \/ model = None /\ todo' = Tail(todo) /\ model' = model
         \/ /\ model # None /\ model' = Edited(step)
            /\ todo' = <<SendStep>> \o Tail(todo)
  BY <1>0 DEF EditModel, ui
<1>2. Edited(step) = AddText(model, key)
  BY <1>0 DEF Edited
<1> HIDE DEF step
<1>3. model # None => /\ AddText(model, key) \in Models
                      /\ AddText(model, key).text \subseteq model.text \union {key}
  <2>1. model # None => model \in Models
    BY DEF IInv, TypeInv, TypeOK, Models
  <2> QED
    BY <2>1 DEF AddText, Models, Marks
<1>4. todo' \in Seq(Steps)
  <2>1. SendStep \in Steps
    BY StepTypes DEF SendStep, Steps
  <2>2. <<SendStep>> \in Seq(Steps) /\ <<>> \in Seq(Steps)
    BY <2>1
  <2>3. Tail(todo) \in Seq(Steps)
    BY <1>0, <2>2
  <2>4. <<SendStep>> \o Tail(todo) \in Seq(Steps)
    BY <2>2, <2>3, ConcatProperties
  <2> QED
    BY <1>1, <2>3, <2>4
<1>5. KeyOnce(key) /\ ~Typed(key) /\ ~Pressed(key) /\ ~Answered(key) /\ ~Declined(key) /\ key \in used
  BY DEF IInv, KeysInv, KeyOnce
<1>6. TypeInv'
  BY <1>1, <1>2, <1>3, <1>4, WindowTypes DEF IInv, TypeInv, TypeOK
<1>7. ConnectionInv' /\ NumbersInv' /\ LiveInv'
  <2>1. ModelTakesNothingShown /\ UpdatesAreOfTheModel
    BY <1>1, <1>2, <1>3, <1>5 DEF ModelTakesNothingShown, UpdatesAreOfTheModel, Typed
  <2> QED
    BY <1>1, <2>1, HostKeeps DEF IInv, NumbersInv
<1>8. ASSUME NEW k \in Keys PROVE KeyOnce(k)'
  <2>1. KeyOnce(k) /\ Verdict(k)' = Verdict(k) /\ KeyEvent(k)' = KeyEvent(k)
    BY DEF IInv, KeysInv, Verdict, KeyEvent
  <2>2. ~Adds(k)'
    BY <1>4, StepsAddNothing DEF Adds, EditStep
  <2>3. /\ Pressed(k)' <=> Pressed(k)
        /\ Answered(k)' <=> Answered(k)
        /\ Declined(k)' <=> Declined(k)
        /\ Once(toUi', KeyEvent(k)) /\ Once(toHost', Verdict(k)) /\ Once(toWindow', k)
    BY <1>1, <2>1 DEF Pressed, Answered, Declined, KeyOnce
  <2>4. CASE k = key
    BY <1>5, <2>1, <2>2, <2>3, <2>4 DEF KeyOnce
  <2>5. CASE k # key
    <3>1. Typed(k)' => Typed(k)
      BY <1>1, <1>2, <1>3, <2>5 DEF Typed, InFields, InModel
    <3> QED
      BY <2>1, <2>2, <2>3, <3>1, KeyKept
  <2> QED
    BY <2>4, <2>5
<1> QED
  BY <1>6, <1>7, <1>8 DEF IInv, KeysInv

\* The window thread takes a step.
LEMMA WindowStepKeeps == IInv /\ WindowStep => IInv'
<1> SUFFICES ASSUME IInv, WindowStep PROVE IInv'
  OBVIOUS
<1> DEFINE step == Head(todo)
<1>1. todo # <<>> /\ UNCHANGED <<ui, client, took, clearing, used, toHost, toWindow>>
  BY DEF WindowStep
<1>2. CASE step.op = "composition" /\ LookForAbort(step)
  BY <1>1, <1>2, LookForAbortStep
<1>3. CASE (step.op = "send" /\ SendUpdate) \/ (step.op = "enter" /\ SendAction)
  BY <1>1, <1>3, TellStep
<1>4. CASE step.op \notin {"composition", "send", "enter"} /\ EditModel(step)
  <2>1. CASE todo \in Seq(Steps)
    BY <1>1, <1>4, <2>1, ImeEditStep
  <2>2. ASSUME NEW k \in Keys, Adds(k) PROVE IInv'
    BY <1>1, <1>4, <2>2, AddStep
  <2> QED
    BY <2>1, <2>2 DEF IInv, TypeInv, Steps
<1> QED
  BY <1>2, <1>3, <1>4 DEF WindowStep

(***************************************************************************)
(* The theorems.                                                           *)
(***************************************************************************)

\* Nothing is attached, sent, pressed or typed at first.
LEMMA Initial == Init => IInv
<1> SUFFICES ASSUME Init PROVE IInv
  OBVIOUS
<1>1. /\ session.slot = None /\ session.focus = None /\ session.next = 1
      /\ \A f \in Fields : session.connection[f] = None
      /\ session.sent = <<>> /\ SessionType(session)
  BY DEF Init, SessionType
<1>2. /\ value \in [Fields -> Texts] /\ \A f \in Fields : value[f].text = {}
      /\ used \subseteq Marks
  BY DEF Init, NoText, Texts
<1>3. TypeInv
  <2>1. session.connection \in [Fields -> Nat \union {None}]
          /\ session.focus \in Fields \union {None}
    BY <1>1 DEF SessionType
  <2>2. TypeOK
    BY <1>1, <1>2, <2>1 DEF Init, TypeOK
  <2> QED
    BY <1>1, <2>2 DEF Init, TypeInv
<1>4. ConnectionInv
  BY <1>1, NoneIsNone DEF ConnectionInv, OnlyTheFocused, FocusedIsAttached
<1>5. NumbersInv
  BY <1>1 DEF Init, NumbersInv, Numbered
<1>6. LiveInv
  BY <1>1, <1>2 DEF LiveInv, OneField, Apart
<1>7. KeysInv
  <2>1. ASSUME NEW k \in Keys
        PROVE  /\ ~Pressed(k) /\ ~Answered(k) /\ ~Declined(k) /\ ~Adds(k) /\ ~Typed(k)
               /\ Once(toUi, KeyEvent(k)) /\ Once(toHost, Verdict(k)) /\ Once(toWindow, k)
    <3>1. ~Adds(k)
      BY DEF Init, Adds
    <3>2. ~Typed(k)
      BY <1>2 DEF Init, Typed, InFields, InModel, InUpdates, InStates
    <3> QED
      BY <3>1, <3>2 DEF Init, Pressed, Answered, Declined, Has, Once
  <2> QED
    BY <2>1 DEF KeysInv, KeyOnce
<1> QED
  BY <1>3, <1>4, <1>5, <1>6, <1>7 DEF IInv

\* A step that changes nothing keeps everything.
LEMMA Stutter == IInv /\ UNCHANGED vars => IInv'
<1> SUFFICES ASSUME IInv, UNCHANGED vars PROVE IInv'
  OBVIOUS
<1>1. /\ UNCHANGED <<ui, host, window, toUi, toHost, toWindow>>
      /\ UNCHANGED <<session, value, model, client, took, abort, clearing, ime, todo, used>>
  BY DEF vars, ui, host, window
<1>2. TypeInv'
  BY <1>1, PlatformTypes DEF IInv, TypeInv, TypeOK, Models
<1>3. ConnectionInv' /\ NumbersInv' /\ LiveInv'
  <2>1. ModelTakesNothingShown /\ UpdatesAreOfTheModel
    BY <1>1 DEF ModelTakesNothingShown, UpdatesAreOfTheModel
  <2> QED
    BY <1>1, <2>1, HostKeeps DEF IInv, NumbersInv
<1>4. KeysInv'
  <2>1. \A k \in Keys : Typed(k)' => Typed(k)
    BY <1>1 DEF Typed, InFields, InModel
  <2> QED
    BY <1>1, <2>1, SameTodo, SameUiQueue, KeysStay DEF IInv
<1> QED
  BY <1>2, <1>3, <1>4 DEF IInv

\* Every step keeps the inductive invariant.
LEMMA Step == IInv /\ [Next]_vars => IInv'
<1> SUFFICES ASSUME IInv, [Next]_vars PROVE IInv'
  OBVIOUS
<1>1. ASSUME NEW f \in alive \union {None}, MoveFocus(f) PROVE IInv'
  BY <1>1, MoveFocusStep
<1>2. ASSUME NEW f \in alive, NEW p \in Pastes, Paste(f, p) PROVE IInv'
  BY <1>2, PasteStep
<1>3. ASSUME NEW f \in alive, Clear(f) PROVE IInv'
  BY <1>3, ClearStep
<1>4. ASSUME NEW f \in alive, Dispose(f) PROVE IInv'
  BY <1>4, DisposeStep
<1>5. ASSUME NEW k \in Keys \union {Enter}, Press(k) PROVE IInv'
  BY <1>5, PressStep
<1>6. CASE HandleMessage \/ HandleCall \/ WindowStep
  BY <1>6, HandleMessageStep, HandleCallStep, WindowStepKeeps
<1>7. CASE TakeVerdict
  BY <1>7, TakeVerdictStep
<1>8. CASE ImeStarts \/ (\E c \in Strings : ImeComposes(c)) \/ ImeCommits \/ ImeCancels
  BY <1>8, ImeStep
<1> QED
  BY <1>1, <1>2, <1>3, <1>4, <1>5, <1>6, <1>7, <1>8, Stutter DEF Next

\* The invariant holds throughout, for any fields, marks and callbacks.
THEOREM Inductive == Spec => []IInv
<1> QED
  BY Initial, Step, PTL DEF Spec

\* Wherever the keyboard moves, out of a callback too, the field that has it
\* is the one the framework edits (Attached, text_input.rs), and no other
\* field keeps a connection.
THEOREM TheKeyboardHasTheSession == Spec => []KeyboardHasTheSession
<1>1. IInv => KeyboardHasTheSession
  BY NoneIsNone DEF IInv, ConnectionInv, OnlyTheFocused, FocusedIsAttached,
                    KeyboardHasTheSession
<1> QED
  BY <1>1, Inductive, PTL

\* A keystroke is typed into one field, however late its verdict (SendKey), its
\* update (dispatch) or the move to another field (attach).
THEOREM KeystrokesGoToOneField == Spec => []OneFieldEach
<1>1. IInv => OneFieldEach
  <2> SUFFICES ASSUME IInv, NEW k \in Keys
               PROVE  Cardinality({f \in Fields : k \in value[f].text}) <= 1
    BY DEF OneFieldEach
  <2> DEFINE shown == {f \in Fields : k \in value[f].text}
  <2>1. \A f, g \in shown : f = g
    BY DEF IInv, LiveInv, OneField, Apart
  <2> HIDE DEF shown
  <2>2. CASE shown = {}
    BY <2>2, FS_EmptySet DEF shown
  <2>3. ASSUME NEW f \in shown PROVE Cardinality(shown) <= 1
    <3>1. shown = {f}
      BY <2>1, <2>3
    <3>2. Cardinality({f}) = 1
      BY FS_Singleton
    <3> QED
      BY <3>1, <3>2
  <2> QED
    BY <2>2, <2>3 DEF shown
<1> QED
  BY <1>1, Inductive, PTL

\* The invariant the run checks, for any fields, marks and callbacks.
THEOREM WhatIsTypedGoesToOneField == Spec => []TextInputInv
<1>1. IInv => TypeOK
  BY DEF IInv, TypeInv
<1> QED
  BY <1>1, Inductive, TheKeyboardHasTheSession, KeystrokesGoToOneField, PTL DEF TextInputInv

(***************************************************************************)
(* The two copies of a text.                                               *)
(***************************************************************************)

\* What of a text no composition takes back.
Entered(v) == (v.text \ v.marked) \ Strings

\* No call in the queue ends or begins a session.
Quiet(m) == m.type \notin {"clear", "client"}
Unbroken(q) == \A j \in DOMAIN q : Quiet(q[j])

\* The host is in the session s, and stays in it.
InSession(q, s) == client = s.id /\ model # None /\ Unbroken(q)

\* The host begins the session s before it takes the call i, and stays in it.
ReachedBy(q, i, s) ==
  \E k \in DOMAIN q :
    /\ k < i /\ q[k] = SetClient(s.id)
    /\ \A j \in DOMAIN q : k < j => Quiet(q[j])

\* Both copies are told of each other: every update was applied and no text was
\* kept from the host.
Matched == ~crossed /\ ~untold

\* The state the framework sent last is on its way to the session in the slot.
Pending(i) ==
  /\ toHost[i].type = "state" /\ toHost[i].number = session.number
  /\ InSession(toHost, session.slot) \/ ReachedBy(toHost, i, session.slot)

OnItsWay(i) ==
  /\ Pending(i)
  /\ Matched =>
       /\ value[session.slot.field].text = toHost[i].value.text
       /\ Entered(value[session.slot.field]) \subseteq Entered(toHost[i].value)

\* An update that was sent since the host took that state.
Fresh(i) ==
  toUi[i].type = "update" /\ toUi[i].id = session.slot.id /\ toUi[i].seen = session.number

\* An edit of the model is still to be reported.
Sending == todo # <<>> /\ Head(todo).op = "send"

\* The updates only add to what was entered, and the last one is the model.
UpdatesAgree ==
  \A i \in DOMAIN toUi : Fresh(i) =>
    /\ Entered(toUi[i]) \subseteq Entered(model)
    /\ \A j \in DOMAIN toUi : i < j /\ Fresh(j) => Entered(toUi[i]) \subseteq Entered(toUi[j])
    /\ Matched => Entered(value[session.slot.field]) \subseteq Entered(toUi[i])
    /\ ~Sending /\ (\A j \in DOMAIN toUi : Fresh(j) => j <= i) => toUi[i].text = model.text

ValueAgrees ==
  Matched =>
    /\ Entered(value[session.slot.field]) \subseteq Entered(model)
    /\ ~Sending /\ (\A i \in DOMAIN toUi : ~Fresh(i)) =>
         value[session.slot.field].text = model.text

\* The host has taken the last state, and types into that text.
HostAgrees ==
  /\ took = session.number /\ InSession(toHost, session.slot)
  /\ UpdatesAgree /\ ValueAgrees

AgreeInv ==
  session.slot # None /\ session.slot.field \in alive =>
    HostAgrees \/ \E i \in DOMAIN toHost : OnItsWay(i)

\* The numbers of states only grow: the host's, those on the way to it, the
\* framework's.
StatesInv ==
  /\ took <= session.number
  /\ \A i \in DOMAIN toHost : toHost[i].type = "state" =>
       took < toHost[i].number /\ toHost[i].number <= session.number
  /\ \A i, j \in DOMAIN toHost :
       i < j /\ toHost[i].type = "state" /\ toHost[j].type = "state" =>
         toHost[i].number < toHost[j].number
  /\ \A i \in DOMAIN toUi : toUi[i].type = "update" => toUi[i].seen <= took

\* The host clears what it was told to clear, and underlines only what the
\* input method composed.
HostInv ==
  /\ clearing # "no" => Head(toHost).type = "clear"
  /\ model # None /\ ~model.composing => model.marked \subseteq Strings

KeyboardOnPage == session.focus # None => session.focus \in alive

AInv == StatesInv /\ HostInv /\ KeyboardOnPage /\ AgreeInv

(***************************************************************************)
(* The numbers of states.                                                  *)
(***************************************************************************)

\* What the queues hold.
LEMMA QueuedTypes ==
  ASSUME TypeInv
  PROVE  /\ session.number \in Nat /\ took \in Nat
         /\ \A i \in DOMAIN toHost :
              /\ i \in Int /\ 1 <= i /\ toHost[i] \in HostMessages
              /\ toHost[i].type = "state" => toHost[i].number \in Nat
         /\ \A i \in DOMAIN toUi :
              /\ i \in Int /\ 1 <= i /\ toUi[i] \in UiMessages
              /\ toUi[i].type = "update" => toUi[i].seen \in Nat
<1>1. session.number \in Nat /\ took \in Nat
  BY DEF TypeInv, SessionType
<1>2. toHost \in Seq(HostMessages) /\ toUi \in Seq(UiMessages)
  BY DEF TypeInv
<1>3. /\ \A i \in DOMAIN toHost : i \in Int /\ 1 <= i /\ toHost[i] \in HostMessages
      /\ \A i \in DOMAIN toUi : i \in Int /\ 1 <= i /\ toUi[i] \in UiMessages
  BY <1>2
<1>4. /\ \A m \in HostMessages : m.type = "state" => m.number \in Nat
      /\ \A m \in UiMessages : m.type = "update" => m.seen \in Nat
  BY DEF HostMessages, UiMessages
<1> QED
  BY <1>1, <1>3, <1>4

\* The UI thread sends one state at most, with the next number.
Counts(r) ==
  /\ session'.number \in {session.number, session.number + 1}
  /\ \A i \in DOMAIN r : r[i].type = "state" =>
       r[i].number = session.number + 1 /\ session'.number = session.number + 1
  /\ \A i, j \in DOMAIN r : r[i].type = "state" /\ r[j].type = "state" => i = j

LEMMA UiStates ==
  ASSUME TypeInv, StatesInv, NEW r \in Seq(HostMessages), toHost' = toHost \o r,
         Counts(r), UNCHANGED took,
         toUi' = toUi \/ (toUi # <<>> /\ toUi' = Tail(toUi))
  PROVE  StatesInv'
<1>1. /\ session.number \in Nat /\ took \in Nat
      /\ \A i \in DOMAIN toHost :
           i \in Int /\ (toHost[i].type = "state" => toHost[i].number \in Nat)
  BY QueuedTypes
<1>2. session'.number \in Nat /\ session.number <= session'.number
  BY <1>1 DEF Counts
<1>3. /\ \A i \in DOMAIN toHost : toHost'[i] = toHost[i] /\ i <= Len(toHost)
      /\ \A i \in DOMAIN r : toHost'[Len(toHost) + i] = r[i] /\ i \in Int /\ 1 <= i
      /\ \A i \in DOMAIN toHost' :
           i \in DOMAIN toHost \/ \E j \in DOMAIN r : i = Len(toHost) + j
      /\ Len(toHost) \in Nat
  BY ConcatFacts DEF TypeInv
<1>4. took' <= session'.number
  BY <1>1, <1>2 DEF StatesInv
<1>5. ASSUME NEW i \in DOMAIN toHost', toHost'[i].type = "state"
      PROVE  took' < toHost'[i].number /\ toHost'[i].number <= session'.number
  <2>1. CASE i \in DOMAIN toHost
    BY <1>1, <1>2, <1>3, <1>5, <2>1 DEF StatesInv
  <2>2. ASSUME NEW j \in DOMAIN r, i = Len(toHost) + j
        PROVE  took' < toHost'[i].number /\ toHost'[i].number <= session'.number
    BY <1>1, <1>2, <1>3, <1>5, <2>2 DEF StatesInv, Counts
  <2> QED
    BY <1>3, <2>1, <2>2
<1>6. ASSUME NEW i \in DOMAIN toHost', NEW j \in DOMAIN toHost', i < j,
             toHost'[i].type = "state", toHost'[j].type = "state"
      PROVE  toHost'[i].number < toHost'[j].number
  <2>1. CASE i \in DOMAIN toHost /\ j \in DOMAIN toHost
    BY <1>3, <1>6, <2>1 DEF StatesInv
  <2>2. ASSUME i \in DOMAIN toHost, NEW k \in DOMAIN r, j = Len(toHost) + k
        PROVE  toHost'[i].number < toHost'[j].number
    <3>1. toHost'[i] = toHost[i] /\ toHost'[j] = r[k]
      BY <1>3, <2>2
    <3>2. toHost[i].number \in Nat /\ toHost[i].number <= session.number
      BY <1>1, <1>6, <2>2, <3>1 DEF StatesInv
    <3>3. r[k].number = session.number + 1
      BY <1>6, <3>1 DEF Counts
    <3> QED
      BY <1>1, <3>1, <3>2, <3>3
  <2>3. ASSUME NEW h \in DOMAIN r, i = Len(toHost) + h, j \in DOMAIN toHost PROVE FALSE
    BY <1>1, <1>3, <1>6, <2>3
  <2>4. ASSUME NEW h \in DOMAIN r, i = Len(toHost) + h,
               NEW k \in DOMAIN r, j = Len(toHost) + k
        PROVE  FALSE
    <3>1. r[h].type = "state" /\ r[k].type = "state"
      BY <1>3, <1>6, <2>4
    <3>2. h = k
      BY <3>1 DEF Counts
    <3> QED
      BY <1>3, <1>6, <2>4, <3>2
  <2> QED
    BY <1>3, <2>1, <2>2, <2>3, <2>4
<1>7. \A i \in DOMAIN toUi' : toUi'[i].type = "update" => toUi'[i].seen <= took'
  <2>1. \A i \in DOMAIN toUi' : \E j \in DOMAIN toUi : toUi'[i] = toUi[j]
    BY UiTail
  <2> QED
    BY <2>1 DEF StatesInv
<1> QED
  BY <1>4, <1>5, <1>6, <1>7 DEF StatesInv

(***************************************************************************)
(* A session that goes on.                                                 *)
(***************************************************************************)

\* What is sent within a session is taken within it.
LEMMA QuietBehind ==
  ASSUME NEW q \in Seq(HostMessages), NEW x \in HostMessages, Quiet(x), NEW s
  PROVE  /\ Unbroken(q) => Unbroken(Append(q, x))
         /\ \A i \in DOMAIN q : ReachedBy(q, i, s) =>
              ReachedBy(Append(q, x), i, s) /\ ReachedBy(Append(q, x), Len(q) + 1, s)
<1> DEFINE r == Append(q, x)
<1>1. /\ Len(q) \in Nat /\ DOMAIN r = DOMAIN q \union {Len(q) + 1}
      /\ \A i \in DOMAIN q : i \in Int /\ i <= Len(q) /\ r[i] = q[i]
      /\ r[Len(q) + 1] = x
  BY AppendFacts
<1> HIDE DEF r
<1>2. Unbroken(q) => Unbroken(r)
  BY <1>1 DEF Unbroken
<1>3. ASSUME NEW i \in DOMAIN q, ReachedBy(q, i, s)
      PROVE  ReachedBy(r, i, s) /\ ReachedBy(r, Len(q) + 1, s)
  <2>1. PICK k \in DOMAIN q :
          /\ k < i /\ q[k] = SetClient(s.id)
          /\ \A j \in DOMAIN q : k < j => Quiet(q[j])
    BY <1>3 DEF ReachedBy
  <2>2. k \in DOMAIN r /\ k < Len(q) + 1 /\ r[k] = SetClient(s.id)
    BY <1>1, <2>1
  <2>3. \A j \in DOMAIN r : k < j => Quiet(r[j])
    BY <1>1, <2>1
  <2> QED
    BY <2>1, <2>2, <2>3 DEF ReachedBy
<1> QED
  BY <1>2, <1>3 DEF r

\* When the host takes a call, it begins the session or comes nearer to it.
LEMMA TakenNearer ==
  ASSUME NEW q \in Seq(HostMessages), q # <<>>, NEW s
  PROVE  /\ Unbroken(q) => Unbroken(Tail(q)) /\ Quiet(Head(q))
         /\ \A i \in DOMAIN q : ReachedBy(q, i, s) =>
              /\ i # 1 /\ i - 1 \in DOMAIN Tail(q) /\ Tail(q)[i - 1] = q[i]
              /\ \/ Head(q) = SetClient(s.id) /\ Unbroken(Tail(q))
                 \/ ReachedBy(Tail(q), i - 1, s)
<1> DEFINE r == Tail(q)
<1>1. /\ 1 \in DOMAIN q /\ q[1] = Head(q)
      /\ \A i \in DOMAIN r : i \in Int /\ i >= 1 /\ i + 1 \in DOMAIN q /\ r[i] = q[i + 1]
      /\ \A i \in DOMAIN q :
           i \in Int /\ (i # 1 => i - 1 \in DOMAIN r /\ r[i - 1] = q[i])
  BY TailFacts
<1> HIDE DEF r
<1>2. Unbroken(q) => Unbroken(r) /\ Quiet(Head(q))
  BY <1>1 DEF Unbroken
<1>3. ASSUME NEW i \in DOMAIN q, ReachedBy(q, i, s)
      PROVE  /\ i # 1 /\ i - 1 \in DOMAIN r /\ r[i - 1] = q[i]
             /\ (Head(q) = SetClient(s.id) /\ Unbroken(r)) \/ ReachedBy(r, i - 1, s)
  <2>1. PICK k \in DOMAIN q :
          /\ k < i /\ q[k] = SetClient(s.id)
          /\ \A j \in DOMAIN q : k < j => Quiet(q[j])
    BY <1>3 DEF ReachedBy
  <2>0. \A j \in DOMAIN q : j >= 1
    <3>1. DOMAIN q = 1..Len(q) /\ Len(q) \in Nat
      BY LenProperties
    <3> QED
      BY <3>1
  <2>2. i # 1
    BY <1>1, <2>0, <2>1
  <2>3. CASE k = 1
    <3>1. Unbroken(r)
      <4>1. ASSUME NEW j \in DOMAIN r PROVE Quiet(r[j])
        <5>1. k < j + 1 /\ j + 1 \in DOMAIN q /\ r[j] = q[j + 1]
          BY <1>1, <2>3
        <5> QED
          BY <2>1, <5>1
      <4> QED
        BY <4>1 DEF Unbroken
    <3> QED
      BY <1>1, <2>1, <2>2, <2>3, <3>1
  <2>4. CASE k # 1
    <3>1. k - 1 \in DOMAIN r /\ r[k - 1] = SetClient(s.id) /\ k - 1 < i - 1
      BY <1>1, <2>1, <2>4
    <3>2. ASSUME NEW j \in DOMAIN r, k - 1 < j PROVE Quiet(r[j])
      <4>1. k < j + 1 /\ j + 1 \in DOMAIN q /\ r[j] = q[j + 1]
        BY <1>1, <3>2
      <4> QED
        BY <2>1, <4>1
    <3> QED
      BY <1>1, <2>2, <3>1, <3>2 DEF ReachedBy
  <2> QED
    BY <2>3, <2>4
<1> QED
  BY <1>2, <1>3 DEF r

\* The calls are as they were, or one more is behind them that ends nothing.
CallsGoOn ==
  \/ toHost' = toHost
  \/ \E x \in HostMessages : Quiet(x) /\ toHost' = Append(toHost, x)

LEMMA SessionGoesOn ==
  ASSUME TypeInv, CallsGoOn, UNCHANGED client, model # None => model' # None, NEW s
  PROVE  /\ InSession(toHost, s) => InSession(toHost, s)'
         /\ \A i \in DOMAIN toHost :
              /\ i \in DOMAIN toHost' /\ toHost'[i] = toHost[i]
              /\ ReachedBy(toHost, i, s) => ReachedBy(toHost', i, s)
<1>1. CASE toHost' = toHost
  BY <1>1 DEF InSession
<1>2. ASSUME NEW x \in HostMessages, Quiet(x), toHost' = Append(toHost, x)
      PROVE  /\ Unbroken(toHost) => Unbroken(toHost')
             /\ \A i \in DOMAIN toHost :
                  /\ i \in DOMAIN toHost' /\ toHost'[i] = toHost[i]
                  /\ ReachedBy(toHost, i, s) => ReachedBy(toHost', i, s)
  <2>1. toHost \in Seq(HostMessages)
    BY DEF TypeInv
  <2>2. /\ Unbroken(toHost) => Unbroken(toHost')
        /\ \A i \in DOMAIN toHost :
             ReachedBy(toHost, i, s) => ReachedBy(toHost', i, s)
    BY <1>2, <2>1, QuietBehind
  <2>3. \A i \in DOMAIN toHost : i \in DOMAIN toHost' /\ toHost'[i] = toHost[i]
    BY <1>2, <2>1, AppendFacts
  <2> QED
    BY <2>2, <2>3
<1> QED
  BY <1>1, <1>2 DEF CallsGoOn, InSession

\* The field shows what it showed, or less, and the copies agree no more than
\* they did.
ShowsTheSame ==
  LET f == session.slot.field
  IN  Matched' =>
        /\ Matched
        /\ value'[f].text = value[f].text /\ Entered(value'[f]) \subseteq Entered(value[f])

\* The field shows the update, and if it was sent since the host took the last
\* state the copies agree.
ShowsTheUpdate ==
  LET f == session.slot.field
  IN  Matched' =>
        /\ Fresh(1)
        /\ value'[f].text = toUi[1].text /\ Entered(value'[f]) = Entered(toUi[1])

\* The session goes on: a message is taken, or none.
GoesOn ==
  /\ session'.slot = session.slot /\ session'.number = session.number
  /\ UNCHANGED <<host, todo>> /\ CallsGoOn
  /\ \/ toUi' = toUi /\ ShowsTheSame
     \/ toUi # <<>> /\ toUi' = Tail(toUi) /\ ~Fresh(1) /\ ShowsTheSame
     \/ toUi # <<>> /\ toUi' = Tail(toUi) /\ ShowsTheUpdate

\* A state on its way stays there.
LEMMA StillOnItsWay ==
  ASSUME TypeInv, StatesInv, GoesOn, NEW i \in DOMAIN toHost, OnItsWay(i)
  PROVE  i \in DOMAIN toHost' /\ OnItsWay(i)'
<1>1. /\ InSession(toHost, session.slot) => InSession(toHost, session.slot)'
      /\ i \in DOMAIN toHost' /\ toHost'[i] = toHost[i]
      /\ ReachedBy(toHost, i, session.slot) => ReachedBy(toHost', i, session.slot)
  BY SessionGoesOn DEF GoesOn, host
<1>2. Pending(i)'
  BY <1>1 DEF Pending, OnItsWay, GoesOn, InSession
<1>3. Matched' => ShowsTheSame
  <2>1. ASSUME toUi # <<>>, Fresh(1) PROVE FALSE
    <3>1. 1 \in DOMAIN toUi
      BY <2>1, TailFacts DEF TypeInv
    <3>2. /\ session.number \in Nat /\ took \in Nat /\ toHost[i].number \in Nat
      BY QueuedTypes DEF OnItsWay, Pending
    <3>3. toUi[1].seen <= took /\ toUi[1].seen = session.number
      BY <2>1, <3>1 DEF Fresh, StatesInv
    <3>4. took < toHost[i].number /\ toHost[i].number = session.number
      BY DEF OnItsWay, Pending, StatesInv
    <3> QED
      BY <3>2, <3>3, <3>4
  <2> QED
    BY <2>1 DEF GoesOn, ShowsTheUpdate
<1>4. Matched' =>
        /\ value'[session.slot.field].text = toHost[i].value.text
        /\ Entered(value'[session.slot.field]) \subseteq Entered(toHost[i].value)
  BY <1>3 DEF OnItsWay, ShowsTheSame
<1> QED
  BY <1>1, <1>2, <1>4 DEF OnItsWay, GoesOn, Entered

\* The copies go on to agree when a message is taken.
LEMMA StillAgrees ==
  ASSUME TypeInv, GoesOn, HostAgrees
  PROVE  HostAgrees'
<1> DEFINE f == session.slot.field
<1>1. took' = session'.number /\ InSession(toHost, session.slot)'
  BY SessionGoesOn DEF HostAgrees, GoesOn, host
<1>2. /\ session'.slot = session.slot /\ session'.number = session.number
      /\ (Sending' <=> Sending) /\ model' = model
  BY DEF GoesOn, Sending, host
<1>3. CASE toUi' = toUi /\ ShowsTheSame
  <2>1. \A i \in DOMAIN toUi : Fresh(i)' <=> Fresh(i)
    BY <1>2, <1>3 DEF Fresh
  <2>2. UpdatesAgree'
    BY <1>2, <1>3, <2>1 DEF HostAgrees, UpdatesAgree, ShowsTheSame, Entered
  <2>3. ValueAgrees'
    BY <1>2, <1>3, <2>1 DEF HostAgrees, ValueAgrees, ShowsTheSame, Entered
  <2> QED
    BY <1>1, <1>2, <2>2, <2>3 DEF HostAgrees, InSession
<1>4. CASE /\ toUi # <<>> /\ toUi' = Tail(toUi)
           /\ (~Fresh(1) /\ ShowsTheSame) \/ ShowsTheUpdate
  <2>1. /\ 1 \in DOMAIN toUi
        /\ \A i \in DOMAIN toUi' :
             i \in Int /\ i >= 1 /\ i + 1 \in DOMAIN toUi /\ toUi'[i] = toUi[i + 1]
        /\ \A i \in DOMAIN toUi :
             i \in Int /\ (i # 1 => i - 1 \in DOMAIN toUi' /\ toUi'[i - 1] = toUi[i])
    BY <1>4, TailFacts DEF TypeInv
  <2>2. \A i \in DOMAIN toUi' : Fresh(i)' <=> Fresh(i + 1)
    BY <1>2, <2>1 DEF Fresh
  <2>3. \A i \in DOMAIN toUi : i # 1 => (Fresh(i) <=> Fresh(i - 1)')
    BY <1>2, <2>1 DEF Fresh
  <2>4. ASSUME NEW i \in DOMAIN toUi', Fresh(i)'
        PROVE  /\ Entered(toUi'[i]) \subseteq Entered(model')
               /\ \A j \in DOMAIN toUi' :
                    i < j /\ Fresh(j)' => Entered(toUi'[i]) \subseteq Entered(toUi'[j])
               /\ Matched' => Entered(value'[f]) \subseteq Entered(toUi'[i])
               /\ ~Sending' /\ (\A j \in DOMAIN toUi' : Fresh(j)' => j <= i) =>
                    toUi'[i].text = model'.text
    <3>1. i + 1 \in DOMAIN toUi /\ toUi'[i] = toUi[i + 1] /\ Fresh(i + 1)
      BY <2>1, <2>2, <2>4
    <3>2. Entered(toUi'[i]) \subseteq Entered(model')
      BY <1>2, <3>1 DEF HostAgrees, UpdatesAgree
    <3>3. ASSUME NEW j \in DOMAIN toUi', i < j, Fresh(j)'
          PROVE  Entered(toUi'[i]) \subseteq Entered(toUi'[j])
      <4>1. j + 1 \in DOMAIN toUi /\ toUi'[j] = toUi[j + 1] /\ Fresh(j + 1) /\ i + 1 < j + 1
        BY <2>1, <2>2, <3>3
      <4> QED
        BY <3>1, <4>1 DEF HostAgrees, UpdatesAgree
    <3>4. Matched' => Entered(value'[f]) \subseteq Entered(toUi'[i])
      <4>1. CASE ShowsTheSame
        BY <3>1, <4>1 DEF HostAgrees, UpdatesAgree, ShowsTheSame
      <4>2. CASE ShowsTheUpdate
        <5>1. 1 < i + 1
          BY <2>1
        <5> QED
          BY <2>1, <3>1, <4>2, <5>1 DEF HostAgrees, UpdatesAgree, ShowsTheUpdate
      <4> QED
        BY <1>4, <4>1, <4>2
    <3>5. ASSUME ~Sending', \A j \in DOMAIN toUi' : Fresh(j)' => j <= i
          PROVE  toUi'[i].text = model'.text
      <4>1. ASSUME NEW j \in DOMAIN toUi, Fresh(j) PROVE j <= i + 1
        <5>1. CASE j = 1
          BY <2>1, <5>1
        <5>2. CASE j # 1
          <6>1. j - 1 \in DOMAIN toUi' /\ Fresh(j - 1)'
            BY <2>1, <2>3, <4>1, <5>2
          <6>2. j - 1 <= i
            BY <3>5, <6>1
          <6> QED
            BY <2>1, <6>2
        <5> QED
          BY <5>1, <5>2
      <4> QED
        BY <1>2, <3>1, <3>5, <4>1 DEF HostAgrees, UpdatesAgree
    <3> QED
      BY <3>2, <3>3, <3>4, <3>5
  <2>5. UpdatesAgree'
    BY <1>2, <2>4 DEF UpdatesAgree, Entered
  <2>6. ASSUME Matched'
        PROVE  /\ Entered(value'[f]) \subseteq Entered(model')
               /\ ~Sending' /\ (\A i \in DOMAIN toUi' : ~Fresh(i)') =>
                    value'[f].text = model'.text
    <3>1. CASE ~Fresh(1) /\ ShowsTheSame
      <4>1. (\A i \in DOMAIN toUi' : ~Fresh(i)') => \A i \in DOMAIN toUi : ~Fresh(i)
        BY <2>1, <2>3, <3>1
      <4> QED
        BY <1>2, <2>6, <3>1, <4>1 DEF HostAgrees, ValueAgrees, ShowsTheSame
    <3>2. CASE ShowsTheUpdate
      <4>1. (\A i \in DOMAIN toUi' : ~Fresh(i)') => \A i \in DOMAIN toUi : Fresh(i) => i <= 1
        BY <2>1, <2>3
      <4> QED
        BY <1>2, <2>1, <2>6, <3>2, <4>1 DEF HostAgrees, UpdatesAgree, ShowsTheUpdate
    <3> QED
      BY <1>4, <3>1, <3>2
  <2>7. ValueAgrees'
    BY <1>2, <2>6 DEF ValueAgrees, Entered
  <2> QED
    BY <1>1, <1>2, <2>5, <2>7 DEF HostAgrees, InSession
<1> QED
  BY <1>3, <1>4 DEF GoesOn

\* So the copies agree, or will, when the session goes on.
LEMMA GoesOnAgreed ==
  ASSUME TypeInv, StatesInv, AgreeInv, GoesOn, session.slot.field \in alive
  PROVE  AgreeInv'
<1>1. CASE HostAgrees
  BY <1>1, StillAgrees DEF AgreeInv
<1>2. ASSUME NEW i \in DOMAIN toHost, OnItsWay(i) PROVE AgreeInv'
  BY <1>2, StillOnItsWay DEF AgreeInv
<1>3. CASE session.slot = None
  BY <1>3 DEF AgreeInv, GoesOn
<1> QED
  BY <1>1, <1>2, <1>3 DEF AgreeInv

(***************************************************************************)
(* The steps of the UI thread.                                             *)
(***************************************************************************)

\* A session that begins is followed by the text of its field.
LEMMA BeginsAgreed ==
  ASSUME TypeInv, NEW s, NEW f \in Fields, InCallback(s), BeginsFor(s, f),
         toHost' = toHost \o s.sent, session'.slot = s.slot, session'.number = s.number,
         Matched' => value'[f] = value[f]
  PROVE  AgreeInv'
<1>1. toHost \in Seq(HostMessages) /\ s.sent \in Seq(HostMessages)
  BY DEF TypeInv, InCallback, SessionType
<1>2. /\ \A i \in DOMAIN toHost : i \in Int /\ i <= Len(toHost)
      /\ \A i \in DOMAIN s.sent : /\ Len(toHost) + i \in DOMAIN toHost'
                                  /\ toHost'[Len(toHost) + i] = s.sent[i] /\ i \in Int /\ 1 <= i
      /\ \A i \in DOMAIN toHost' :
           i \in DOMAIN toHost \/ \E j \in DOMAIN s.sent : i = Len(toHost) + j
      /\ Len(toHost) \in Nat
  BY <1>1, ConcatFacts
<1>3. PICK i \in DOMAIN s.sent :
        /\ i + 1 \in DOMAIN s.sent
        /\ s.sent[i] = SetClient(session.next)
        /\ s.sent[i + 1] = SetEditingState(value[f], s.number)
        /\ \A j \in DOMAIN s.sent : j \in {i, i + 1} \/ (j < i /\ s.sent[j].type = "clear")
  BY DEF BeginsFor
<1>4. PICK k \in DOMAIN toHost', n \in DOMAIN toHost' :
        /\ k = Len(toHost) + i /\ n = Len(toHost) + (i + 1) /\ k < n
        /\ toHost'[k] = SetClient(session.next)
        /\ toHost'[n] = SetEditingState(value[f], s.number)
  <2>1. /\ Len(toHost) + i \in DOMAIN toHost' /\ Len(toHost) + (i + 1) \in DOMAIN toHost'
        /\ toHost'[Len(toHost) + i] = s.sent[i]
        /\ toHost'[Len(toHost) + (i + 1)] = s.sent[i + 1]
    BY <1>2, <1>3
  <2>2. Len(toHost) + i < Len(toHost) + (i + 1)
    BY <1>2
  <2> QED
    BY <1>3, <2>1, <2>2
<1>5. session'.slot = [id |-> session.next, field |-> f]
  BY DEF BeginsFor
<1>6. \A j \in DOMAIN toHost' : k < j => Quiet(toHost'[j])
  <2> SUFFICES ASSUME NEW j \in DOMAIN toHost', k < j PROVE Quiet(toHost'[j])
    OBVIOUS
  <2>1. j \notin DOMAIN toHost
    BY <1>2, <1>4
  <2>2. PICK h \in DOMAIN s.sent : j = Len(toHost) + h
    BY <1>2, <2>1
  <2>3. h = i + 1
    <3>1. i < h
      BY <1>2, <1>4, <2>2
    <3>2. h \in {i, i + 1} \/ h < i
      BY <1>3
    <3> QED
      BY <1>2, <3>1, <3>2
  <2> QED
    BY <1>4, <2>2, <2>3 DEF SetEditingState, Quiet
<1>7. ReachedBy(toHost', n, session'.slot)
  <2>1. session'.slot.id = session.next
    BY <1>5
  <2>2. toHost'[k] = SetClient(session'.slot.id)
    BY <1>4, <2>1
  <2> QED
    BY <1>4, <1>6, <2>2 DEF ReachedBy
<1>8. OnItsWay(n)'
  <2>1. toHost'[n].type = "state" /\ toHost'[n].number = session'.number
          /\ toHost'[n].value = value[f]
    BY <1>4 DEF SetEditingState
  <2>2. Pending(n)'
    BY <1>7, <2>1 DEF Pending
  <2>3. session'.slot.field = f
    BY <1>5
  <2>4. Matched' => /\ value'[session'.slot.field].text = toHost'[n].value.text
                    /\ Entered(value'[session'.slot.field]) \subseteq Entered(toHost'[n].value)
    BY <2>1, <2>3
  <2> QED
    BY <2>2, <2>4 DEF OnItsWay, Entered
<1> QED
  BY <1>4, <1>8 DEF AgreeInv

\* A text that is pushed is on its way.
LEMMA PushAgreed ==
  ASSUME TypeInv, AgreeInv, NEW v \in Texts,
         session.slot # None, session.slot.field \in alive,
         toHost' = toHost \o <<SetEditingState(v, session'.number)>>,
         session'.number = session.number + 1, session'.slot = session.slot,
         UNCHANGED host, value'[session.slot.field] = v
  PROVE  AgreeInv'
<1> DEFINE x == SetEditingState(v, session'.number)
<1>1. x \in HostMessages /\ Quiet(x) /\ toHost \in Seq(HostMessages)
  <2>1. session.number + 1 \in Nat
    BY DEF TypeInv, SessionType
  <2> QED
    BY <2>1, MessageTypes DEF SetEditingState, Quiet, TypeInv
<1>2. x.type = "state" /\ x.value = v /\ x.number = session'.number
  BY DEF SetEditingState
<1> HIDE DEF x
<1>3. toHost' = Append(toHost, x)
  BY <1>1, AppendIsConcat DEF x
<1>4. PICK n \in DOMAIN toHost' : n = Len(toHost) + 1 /\ toHost'[n] = x
  BY <1>1, <1>3, AppendFacts
<1>5. Pending(n)'
  <2>1. CASE InSession(toHost, session.slot)
    <3>1. InSession(toHost, session.slot)'
      BY <1>1, <1>3, <2>1, QuietBehind DEF InSession, host
    <3> QED
      BY <1>2, <1>4, <3>1 DEF Pending
  <2>2. ASSUME NEW i \in DOMAIN toHost, ReachedBy(toHost, i, session.slot)
        PROVE  Pending(n)'
    <3>1. ReachedBy(toHost', n, session'.slot)
      BY <1>1, <1>3, <1>4, <2>2, QuietBehind
    <3> QED
      BY <1>2, <1>4, <3>1 DEF Pending
  <2> QED
    BY <2>1, <2>2 DEF AgreeInv, HostAgrees, OnItsWay, Pending
<1>6. OnItsWay(n)'
  BY <1>2, <1>4, <1>5 DEF OnItsWay, Entered
<1> QED
  BY <1>4, <1>6 DEF AgreeInv

\* What a step of a session that ends, goes on or begins sends of states.
LEMMA SessionCounts ==
  ASSUME TypeInv, StatesInv, NEW s, InCallback(s), FocusedIsAttached(s), Sends(s),
         Ends(s) \/ Begins(s), UNCHANGED took,
         toUi' = toUi \/ (toUi # <<>> /\ toUi' = Tail(toUi))
  PROVE  StatesInv' /\ session'.number = s.number /\ session'.slot = s.slot
           /\ session'.focus = s.focus
<1>1. /\ session'.number = s.number /\ session'.slot = s.slot /\ session'.focus = s.focus
      /\ s.sent \in Seq(HostMessages)
  BY DEF Sends, InCallback, SessionType
<1>2. \A i \in DOMAIN s.sent : i \in Int
  BY <1>1
<1>3. Counts(s.sent)
  <2>1. CASE Ends(s)
    BY <1>1, <2>1 DEF Counts, Ends
  <2>2. ASSUME NEW f \in Fields, BeginsFor(s, f) PROVE Counts(s.sent)
    <3>1. PICK i \in DOMAIN s.sent :
            /\ s.sent[i] = SetClient(session.next)
            /\ s.sent[i + 1] = SetEditingState(value[f], s.number)
            /\ \A j \in DOMAIN s.sent : j \in {i, i + 1} \/ (j < i /\ s.sent[j].type = "clear")
      BY <2>2 DEF BeginsFor
    <3>2. \A j \in DOMAIN s.sent : s.sent[j].type = "state" => j = i + 1
      BY <3>1 DEF SetClient
    <3>3. s.sent[i + 1].number = s.number /\ s.number = session.number + 1
      BY <2>2, <3>1 DEF SetEditingState, BeginsFor
    <3> QED
      BY <1>1, <3>2, <3>3 DEF Counts
  <2> QED
    BY <2>1, <2>2 DEF Begins
<1>4. StatesInv'
  BY <1>1, <1>3, UiStates DEF Sends
<1> QED
  BY <1>1, <1>4

\* The session ends: nothing is to be said of the copies.
LEMMA EndsAgreed ==
  ASSUME session'.slot = None
  PROVE  AgreeInv'
BY DEF AgreeInv

\* The host's side is as it was.
LEMMA HostIdle ==
  ASSUME TypeInv, HostInv, UNCHANGED host, NEW r \in Seq(HostMessages), toHost' = toHost \o r
  PROVE  HostInv'
<1>1. ASSUME clearing # "no" PROVE Head(toHost') = Head(toHost)
  <2>1. toHost # <<>> /\ toHost \in Seq(HostMessages)
    BY <1>1 DEF TypeInv
  <2>2. 1 \in DOMAIN toHost /\ toHost[1] = Head(toHost)
    BY <2>1, TailFacts
  <2>3. 1 \in DOMAIN toHost' /\ toHost'[1] = toHost[1] /\ toHost' \in Seq(HostMessages)
    BY <2>1, <2>2, ConcatFacts
  <2> QED
    BY <2>2, <2>3
<1> QED
  BY <1>1 DEF HostInv, host

\* The focus moves.
LEMMA MoveFocusAgreed ==
  ASSUME IInv, AInv, NEW f \in alive \union {None}, MoveFocus(f)
  PROVE  AInv'
<1> DEFINE s == Moved(session, f)
<1>1. f \in Fields \union {None} /\ session.sent = <<>> /\ TypeOK /\ TypeInv
  BY DEF IInv, TypeInv, TypeOK
<1>2. InCallback(s) /\ FocusedIsAttached(s) /\ (Ends(s) \/ Begins(s)) /\ s.focus = f
  BY <1>1, MovedHasIt DEF MoveFocus, IInv, TypeInv, ConnectionInv, InCallback
<1> HIDE DEF s
<1>3. /\ Sends(s) /\ UNCHANGED <<value, alive, host, todo, toUi>>
      /\ crossed' = (crossed /\ Undisturbed(s)) /\ untold' = (untold /\ Undisturbed(s))
  BY DEF MoveFocus, Send, Sends, s, window
<1>4. /\ StatesInv' /\ session'.number = s.number /\ session'.slot = s.slot
      /\ session'.focus = s.focus
  BY <1>1, <1>2, <1>3, SessionCounts DEF AInv, host
<1>5. HostInv' /\ KeyboardOnPage'
  <2>1. s.sent \in Seq(HostMessages)
    BY <1>2 DEF InCallback, SessionType
  <2>2. HostInv'
    BY <1>1, <1>3, <2>1, HostIdle DEF AInv, Sends
  <2> QED
    BY <1>2, <1>3, <1>4, <2>2 DEF KeyboardOnPage
<1>6. AgreeInv'
  <2>1. ASSUME NEW g \in Fields, BeginsFor(s, g) PROVE AgreeInv'
    BY <1>1, <1>2, <1>3, <1>4, <2>1, BeginsAgreed DEF Sends
  <2>2. CASE session'.slot = None
    BY <2>2, EndsAgreed
  <2>3. CASE Ends(s) /\ session'.slot # None
    <3>1. s.slot = session.slot /\ s.number = session.number /\ s.sent = <<>>
      BY <1>4, <2>3 DEF Ends
    <3>2. toHost' = toHost
      BY <1>1, <1>3, <3>1, ConcatEmptySeq DEF Sends, TypeInv
    <3>3. GoesOn
      BY <1>3, <1>4, <3>1, <3>2
         DEF GoesOn, CallsGoOn, ShowsTheSame, Matched, Undisturbed
    <3>4. session.slot.field \in alive => AgreeInv'
      BY <1>1, <3>3, GoesOnAgreed DEF AInv
    <3> QED
      BY <1>3, <1>4, <3>1, <3>4 DEF AgreeInv
  <2> QED
    BY <1>2, <2>1, <2>2, <2>3 DEF Begins
<1> QED
  BY <1>4, <1>5, <1>6 DEF AInv

\* The program changes a text: the host is told, if it types into that one.
LEMMA EditAgreed ==
  ASSUME IInv, AInv, NEW f \in alive, NEW v \in Texts, Edit(f, v)
  PROVE  AInv'
<1> DEFINE s == Pushed(session, f, v)
<1>1. f \in Fields /\ value \in [Fields -> Texts] /\ TypeInv /\ session.number \in Nat
  BY DEF IInv, TypeInv, TypeOK, SessionType
<1>2. /\ InCallback(s) /\ s.slot = session.slot /\ s.focus = session.focus
      /\ IF Attached(session, f)
           THEN /\ s.number = session.number + 1
                /\ s.sent = <<SetEditingState(v, s.number)>>
           ELSE s.number = session.number /\ s.sent = <<>>
      /\ \A i \in DOMAIN s.sent : session.slot # None /\ session.slot.field = f
  BY <1>1, PushedKeeps DEF IInv
<1> HIDE DEF s
<1>3. /\ Sends(s) /\ UNCHANGED <<alive, host, ime, todo, toUi, toWindow>>
      /\ value' = [value EXCEPT ![f] = v]
      /\ crossed' = (crossed /\ Undisturbed(s))
      /\ untold' = ((untold /\ Undisturbed(s)) \/ (IsEdited(f) /\ session.focus # f))
  BY DEF Edit, Sends, s
<1>4. /\ session'.number = s.number /\ session'.slot = s.slot /\ session'.focus = s.focus
      /\ s.sent \in Seq(HostMessages)
  BY <1>2, <1>3 DEF Sends, InCallback, SessionType
<1>5. StatesInv'
  <2>1. Counts(s.sent)
    <3>1. CASE Attached(session, f)
      <4>1. /\ \A i, j \in DOMAIN s.sent : i = j
            /\ \A i \in DOMAIN s.sent : s.sent[i] = SetEditingState(v, s.number)
        BY <1>2, <3>1
      <4>2. SetEditingState(v, s.number).number = s.number
        BY DEF SetEditingState
      <4> QED
        BY <1>2, <1>4, <3>1, <4>1, <4>2 DEF Counts
    <3>2. CASE ~Attached(session, f)
      BY <1>2, <1>4, <3>2 DEF Counts
    <3> QED
      BY <3>1, <3>2
  <2> QED
    BY <1>1, <1>3, <1>4, <2>1, UiStates DEF AInv, Sends, host
<1>6. HostInv' /\ KeyboardOnPage'
  <2>1. HostInv'
    BY <1>1, <1>3, <1>4, HostIdle DEF AInv, Sends
  <2> QED
    BY <1>2, <1>3, <1>4, <2>1 DEF AInv, KeyboardOnPage
<1>7. CASE Attached(session, f)
  <2>1. session.slot # None /\ session.slot.field = f
    <3>1. 1 \in DOMAIN s.sent
      BY <1>2, <1>7
    <3> QED
      BY <1>2, <3>1
  <2>2. toHost' = toHost \o <<SetEditingState(v, session'.number)>>
          /\ session'.number = session.number + 1
    BY <1>2, <1>3, <1>4, <1>7 DEF Sends
  <2>3. value'[session.slot.field] = v
    BY <1>1, <1>3, <2>1
  <2>4. AgreeInv'
    BY <1>1, <1>2, <1>3, <1>4, <2>1, <2>2, <2>3, PushAgreed DEF AInv
  <2> QED
    BY <1>5, <1>6, <2>4 DEF AInv
<1>8. CASE ~Attached(session, f)
  <2>1. s.number = session.number /\ s.sent = <<>> /\ Undisturbed(s)
    BY <1>2, <1>8 DEF Undisturbed
  <2>2. toHost' = toHost
    BY <1>1, <1>3, <2>1, ConcatEmptySeq DEF Sends, TypeInv
  <2>3. ASSUME session.slot # None PROVE ShowsTheSame
    <3>1. session.slot.field \in Fields
      BY <1>1, <2>3 DEF TypeInv, SessionType, Slots
    <3>2. CASE session.slot.field = f
      <4>1. session.focus # f
        BY <1>1, <1>8, NoneIsNone DEF IInv, ConnectionInv, FocusedIsAttached
      <4> QED
        BY <1>3, <2>3, <3>2, <4>1 DEF ShowsTheSame, Matched, IsEdited
    <3>3. CASE session.slot.field # f
      <4>1. value'[session.slot.field] = value[session.slot.field]
        BY <1>1, <1>3, <3>1, <3>3
      <4> QED
        BY <1>3, <2>1, <4>1 DEF ShowsTheSame, Matched
    <3> QED
      BY <3>2, <3>3
  <2>4. AgreeInv'
    <3>1. CASE session.slot = None
      BY <1>2, <1>4, <3>1, EndsAgreed
    <3>2. CASE session.slot # None
      <4>1. GoesOn
        BY <1>2, <1>3, <1>4, <2>1, <2>2, <2>3, <3>2 DEF GoesOn, CallsGoOn
      <4>2. session.slot.field \in alive => AgreeInv'
        BY <1>1, <4>1, GoesOnAgreed DEF AInv
      <4> QED
        BY <1>2, <1>3, <1>4, <4>2 DEF AgreeInv
    <3> QED
      BY <3>1, <3>2
  <2> QED
    BY <1>5, <1>6, <2>4 DEF AInv
<1> QED
  BY <1>7, <1>8

LEMMA PasteAgreed ==
  ASSUME IInv, AInv, NEW f \in alive, NEW p \in Pastes, Paste(f, p)
  PROVE  AInv'
<1> DEFINE v == [text |-> value[f].text \union {p}, marked |-> {}]
<1>1. value[f] \in Texts /\ p \in Marks
  BY DEF IInv, TypeInv, TypeOK, Marks
<1>2. v \in Texts /\ Edit(f, v)
  BY <1>1 DEF Paste, Texts
<1> QED
  BY <1>2, EditAgreed

LEMMA ClearAgreed ==
  ASSUME IInv, AInv, NEW f \in alive, Clear(f)
  PROVE  AInv'
<1>1. NoText \in Texts /\ Edit(f, NoText)
  BY DEF NoText, Texts, Clear
<1> QED
  BY <1>1, EditAgreed

\* A field goes from the page: its session ends, and any other goes on.
LEMMA DisposeAgreed ==
  ASSUME IInv, AInv, NEW f \in alive, Dispose(f)
  PROVE  AInv'
<1> DEFINE c == Closed(session, f)
           focus == IF c.focus = f THEN None ELSE c.focus
           s == [c EXCEPT !.focus = IF session.focus = f THEN None ELSE session.focus]
<1>1. f \in Fields /\ TypeInv
  BY DEF IInv, TypeInv, TypeOK
<1>2. InCallback(s) /\ FocusedIsAttached(s) /\ Ends(s)
  BY <1>1, DisposedKeeps DEF IInv
<1>3. c.focus = session.focus /\ c \in [slot : {c.slot}, connection : {c.connection},
         next : {c.next}, number : {c.number}, focus : {c.focus}, sent : {c.sent}]
  BY DEF Closed, IInv, TypeInv, SessionType
<1>4. /\ session' = [c EXCEPT !.focus = focus, !.sent = <<>>] /\ toHost' = toHost \o c.sent
      /\ alive' = alive \ {f} /\ UNCHANGED <<value, crossed, untold, host, todo, toUi>>
  BY DEF Dispose, window
<1> HIDE DEF c
<1>5. Sends(s) /\ s.focus = IF session.focus = f THEN None ELSE session.focus
  BY <1>3, <1>4 DEF Sends
<1> HIDE DEF s
<1>6. /\ StatesInv' /\ session'.number = s.number /\ session'.slot = s.slot
      /\ session'.focus = s.focus
  BY <1>1, <1>2, <1>4, <1>5, SessionCounts DEF AInv, host
<1>7. HostInv' /\ KeyboardOnPage'
  <2>1. s.sent \in Seq(HostMessages)
    BY <1>2 DEF InCallback, SessionType
  <2>2. HostInv'
    BY <1>1, <1>4, <1>5, <2>1, HostIdle DEF AInv, Sends
  <2> QED
    BY <1>4, <1>5, <1>6, <2>2 DEF KeyboardOnPage, AInv
<1>8. AgreeInv'
  <2>1. CASE session'.slot = None
    BY <2>1, EndsAgreed
  <2>2. CASE session'.slot # None
    <3>1. s.slot = session.slot /\ s.number = session.number /\ s.sent = <<>>
      BY <1>2, <1>6, <2>2 DEF Ends
    <3>2. toHost' = toHost
      BY <1>1, <1>5, <3>1, ConcatEmptySeq DEF Sends, TypeInv
    <3>3. GoesOn
      BY <1>4, <1>6, <3>1, <3>2 DEF GoesOn, CallsGoOn, ShowsTheSame, Matched
    <3>4. session.slot.field \in alive => AgreeInv'
      BY <1>1, <3>3, GoesOnAgreed DEF AInv
    <3> QED
      BY <1>4, <1>6, <3>1, <3>4 DEF AgreeInv
  <2> QED
    BY <2>1, <2>2
<1> QED
  BY <1>6, <1>7, <1>8 DEF AInv

\* A message that is for no one, or a key that is declined, says nothing of a
\* text.
LEMMA OtherMessageAgreed ==
  ASSUME IInv, AInv, NEW m, toUi # <<>>, m = Head(toUi), toUi' = Tail(toUi),
         UNCHANGED <<host, todo>>,
         DropMessage(m) \/ (m.type = "key" /\ DeclineKey(m))
  PROVE  AInv'
<1>1. /\ TypeInv /\ toHost \in Seq(HostMessages)
      /\ m \in UiMessages /\ 1 \in DOMAIN toUi /\ toUi[1] = m
  BY TailFacts DEF IInv, TypeInv
<1>2. UNCHANGED <<value, session, alive, crossed, untold>>
  BY DEF DropMessage, DeclineKey
<1>3. PICK r \in Seq(HostMessages) :
        /\ toHost' = toHost \o r /\ \A i \in DOMAIN r : r[i].type = "verdict"
  <2>1. CASE DropMessage(m)
    <3>1. toHost' = toHost \o <<>> /\ <<>> \in Seq(HostMessages)
      BY <1>1, <2>1, ConcatEmptySeq DEF DropMessage
    <3>2. \A i \in DOMAIN <<>> : <<>>[i].type = "verdict"
      OBVIOUS
    <3> QED
      BY <3>1, <3>2
  <2>2. CASE m.type = "key" /\ DeclineKey(m)
    <3>1. Verdict(m.key) \in HostMessages
      BY <1>1, <2>2, MessageTypes DEF UiMessages
    <3>2. toHost' = toHost \o <<Verdict(m.key)>>
      BY <1>1, <2>2, <3>1, AppendIsConcat DEF DeclineKey
    <3>3. \A i \in DOMAIN <<Verdict(m.key)>> : <<Verdict(m.key)>>[i].type = "verdict"
      BY DEF Verdict
    <3>4. <<Verdict(m.key)>> \in Seq(HostMessages)
      BY <3>1
    <3> QED
      BY <3>2, <3>3, <3>4
  <2> QED
    BY <2>1, <2>2
<1>4. CallsGoOn
  <2>1. CASE DropMessage(m)
    BY <2>1 DEF DropMessage, CallsGoOn
  <2>2. CASE m.type = "key" /\ DeclineKey(m)
    <3>1. Verdict(m.key) \in HostMessages /\ Quiet(Verdict(m.key))
      BY <1>1, <2>2, MessageTypes DEF UiMessages, Verdict, Quiet
    <3> QED
      BY <2>2, <3>1 DEF DeclineKey, CallsGoOn
  <2> QED
    BY <2>1, <2>2
<1>5. StatesInv'
  <2>1. Counts(r)
    BY <1>2, <1>3 DEF Counts
  <2> QED
    BY <1>1, <1>3, <2>1, UiStates DEF AInv, host
<1>6. HostInv' /\ KeyboardOnPage'
  BY <1>1, <1>2, <1>3, HostIdle DEF AInv, KeyboardOnPage
<1>7. AgreeInv'
  <2>1. CASE session.slot = None
    BY <1>2, <2>1, EndsAgreed
  <2>2. CASE session.slot # None
    <3>1. ~Fresh(1)
      BY <1>1, <2>2 DEF Fresh, DropMessage, IsForClient
    <3>2. GoesOn
      BY <1>2, <1>4, <3>1 DEF GoesOn, ShowsTheSame, Matched
    <3>3. session.slot.field \in alive => AgreeInv'
      BY <1>1, <3>2, GoesOnAgreed DEF AInv
    <3> QED
      BY <1>2, <3>3 DEF AgreeInv
  <2> QED
    BY <2>1, <2>2
<1> QED
  BY <1>5, <1>6, <1>7 DEF AInv

\* A client is given an update or an action.  When its callback moves the
\* keyboard, the text of the field that gains it goes to the host; it is the
\* text shown there unless the callback came back to its own field.
LEMMA ClientAgreed ==
  ASSUME IInv, AInv, NEW m, toUi # <<>>, m = Head(toUi), toUi' = Tail(toUi),
         UNCHANGED <<host, todo>>, NEW how,
         \/ m.type = "update" /\ HandleUpdate(m, how)
         \/ m.type = "action" /\ HandleAction(m, how)
  PROVE  AInv'
<1> DEFINE s == WithClient(how)
           f == session.slot.field
<1>1. /\ InCallback(s) /\ FocusedIsAttached(s) /\ (Ends(s) \/ Begins(s))
      /\ s.focus \in {session.focus, NextField(session.focus), None}
  BY ClientKeeps DEF IInv
<1>2. session.slot # None /\ session.slot.id = m.id /\ f \in Fields
  BY DEF HandleUpdate, HandleAction, IsForClient, IInv, TypeInv, SessionType, Slots
<1>3. /\ TypeInv /\ m \in UiMessages /\ 1 \in DOMAIN toUi /\ toUi[1] = m
      /\ value \in [Fields -> Texts]
  BY TailFacts DEF IInv, TypeInv, TypeOK
<1>c. how = "clear" => s.number = session.number
  BY <1>3 DEF WithClient, React, TypeInv, SessionType
<1> HIDE DEF s
<1>4. Sends(s) /\ alive' = alive
  BY DEF HandleUpdate, HandleAction, Sends, s
<1>5. /\ StatesInv' /\ session'.number = s.number /\ session'.slot = s.slot
      /\ session'.focus = s.focus
  BY <1>1, <1>3, <1>4, SessionCounts DEF AInv, host
<1>6. HostInv' /\ KeyboardOnPage'
  <2>1. s.sent \in Seq(HostMessages)
    BY <1>1 DEF InCallback, SessionType
  <2>2. HostInv'
    BY <1>3, <1>4, <2>1, HostIdle DEF AInv, Sends
  <2>3. session.focus # None => session.focus \in alive
    BY DEF AInv, KeyboardOnPage
  <2>4. s.focus # None => s.focus \in alive
    <3>1. CASE s.focus = NextField(session.focus)
      BY <2>3, <3>1 DEF NextField
    <3> QED
      BY <1>1, <2>3, <3>1
  <2> QED
    BY <1>4, <1>5, <2>2, <2>4 DEF KeyboardOnPage
<1>7. ASSUME NEW g \in Fields, BeginsFor(s, g) PROVE AgreeInv'
  <2>1. /\ s.number = session.number + 1 /\ s.slot = [id |-> session.next, field |-> g]
        /\ session.number \in Nat /\ session.next \in Nat /\ session.slot.id \in Nat
    BY <1>2, <1>3, <1>7 DEF BeginsFor, TypeInv, SessionType, Slots
  <2>2. s.slot # session.slot /\ s.slot.field = g
    <3>1. session.slot.id + 1 = session.next
      BY <1>2 DEF IInv, NumbersInv
    <3> QED
      BY <2>1, <3>1
  <2>3. Matched' => value'[g] = value[g]
    <3>1. CASE HandleUpdate(m, how)
      <4>1. untold' = (s.slot # session.slot /\ s.slot.field = f)
        BY <3>1 DEF HandleUpdate, s
      <4>2. \/ value' = value
            \/ value' = [value EXCEPT ![f] = [text |-> m.text, marked |-> m.marked]]
        BY <3>1 DEF HandleUpdate
      <4> QED
        BY <1>2, <1>3, <2>2, <4>1, <4>2 DEF Matched
    <3>2. CASE HandleAction(m, how)
      <4>1. how # "clear"
        BY <1>c, <2>1
      <4> QED
        BY <3>2, <4>1 DEF HandleAction
    <3> QED
      BY <3>1, <3>2
  <2> QED
    BY <1>1, <1>3, <1>4, <1>5, <1>7, <2>3, BeginsAgreed DEF Sends
<1>8. ASSUME session'.slot = None PROVE AgreeInv'
  BY <1>8, EndsAgreed
<1>9. ASSUME Ends(s), session'.slot # None PROVE AgreeInv'
  <2>1. s.slot = session.slot /\ s.number = session.number /\ s.sent = <<>> /\ Undisturbed(s)
    BY <1>5, <1>9 DEF Ends, Undisturbed
  <2>2. toHost' = toHost
    BY <1>3, <1>4, <2>1, ConcatEmptySeq DEF Sends, TypeInv
  <2>3. ASSUME f \in alive, m.type = "update", HandleUpdate(m, how) PROVE ShowsTheUpdate
    <3>1. /\ value'[f] = [text |-> m.text, marked |-> m.marked]
          /\ crossed' = (s.slot = session.slot /\ m.seen # session.number)
      BY <1>2, <1>3, <2>3 DEF HandleUpdate, s
    <3>2. Matched' => Fresh(1)
      BY <1>2, <1>3, <2>1, <2>3, <3>1 DEF Matched, Fresh
    <3> QED
      BY <1>3, <3>1, <3>2 DEF ShowsTheUpdate, Entered
  <2>4. ASSUME m.type = "action", HandleAction(m, how) PROVE ~Fresh(1) /\ ShowsTheSame
    <3>1. ~Fresh(1)
      BY <1>3, <2>4 DEF Fresh
    <3>2. /\ crossed' = (crossed /\ Undisturbed(s))
          /\ untold' = ((untold \/ (how = "clear" /\ f \in alive /\ value[f].text # {}))
                          /\ Undisturbed(s))
          /\ value' = IF how = "clear" /\ f \in alive
                        THEN [value EXCEPT ![f] = NoText] ELSE value
      BY <2>4 DEF HandleAction, s
    <3>3. CASE how = "clear" /\ f \in alive
      <4>1. value'[f] = NoText
        BY <1>2, <1>3, <3>2, <3>3
      <4>2. Matched' => Matched /\ value[f].text = {}
        BY <2>1, <3>2, <3>3 DEF Matched
      <4> QED
        BY <3>1, <4>1, <4>2 DEF ShowsTheSame, NoText, Entered
    <3>4. CASE ~(how = "clear" /\ f \in alive)
      <4>1. value' = value /\ (Matched' => Matched)
        BY <2>1, <3>2, <3>4 DEF Matched
      <4> QED
        BY <3>1, <4>1 DEF ShowsTheSame
    <3> QED
      BY <3>3, <3>4
  <2>5. ASSUME f \in alive PROVE AgreeInv'
    <3>1. GoesOn
      BY <1>5, <2>1, <2>2, <2>3, <2>4, <2>5 DEF GoesOn, CallsGoOn
    <3> QED
      BY <1>3, <2>5, <3>1, GoesOnAgreed DEF AInv
  <2> QED
    BY <1>4, <1>5, <2>1, <2>5 DEF AgreeInv
<1> QED
  BY <1>1, <1>5, <1>6, <1>7, <1>8, <1>9 DEF AInv, Begins

LEMMA HandleMessageAgreed == IInv /\ AInv /\ HandleMessage => AInv'
<1> SUFFICES ASSUME IInv, AInv, HandleMessage PROVE AInv'
  OBVIOUS
<1> DEFINE m == Head(toUi)
<1>1. toUi # <<>> /\ toUi' = Tail(toUi) /\ UNCHANGED <<host, todo>>
  BY DEF HandleMessage, window
<1>2. \/ m.type = "key" /\ DeclineKey(m)
      \/ DropMessage(m)
      \/ \E how \in OnChanged : m.type = "update" /\ HandleUpdate(m, how)
      \/ \E how \in OnSubmitted : m.type = "action" /\ HandleAction(m, how)
  BY DEF HandleMessage
<1> HIDE DEF m
<1>3. m = Head(toUi)
  BY DEF m
<1>4. CASE DropMessage(m) \/ (m.type = "key" /\ DeclineKey(m))
  BY <1>1, <1>3, <1>4, OtherMessageAgreed
<1>5. ASSUME NEW how, \/ m.type = "update" /\ HandleUpdate(m, how)
                      \/ m.type = "action" /\ HandleAction(m, how)
      PROVE  AInv'
  BY <1>1, <1>3, <1>5, ClientAgreed
<1> QED
  BY <1>2, <1>4, <1>5

(***************************************************************************)
(* The steps of the platform thread.                                       *)
(***************************************************************************)

\* The host takes the states in the order of their numbers, and what it sends
\* is of the last it took.
LEMMA HostStates ==
  ASSUME TypeInv, StatesInv, UNCHANGED session,
         \/ toHost' = toHost /\ took' = took
         \/ /\ toHost # <<>> /\ toHost' = Tail(toHost)
            /\ \/ took' = took
               \/ Head(toHost).type = "state" /\ took' = Head(toHost).number,
         \A i \in DOMAIN toUi' : toUi'[i].type = "update" =>
           toUi'[i].seen = took \/ \E j \in DOMAIN toUi : toUi'[i] = toUi[j]
  PROVE  StatesInv'
<1>1. /\ session.number \in Nat /\ took \in Nat
      /\ \A i \in DOMAIN toHost : toHost[i].type = "state" => toHost[i].number \in Nat
      /\ \A i \in DOMAIN toUi : toUi[i].type = "update" => toUi[i].seen \in Nat
  BY QueuedTypes
<1>2. \A i \in DOMAIN toUi' : toUi'[i].type = "update" =>
        toUi'[i].seen \in Nat /\ toUi'[i].seen <= took
  BY <1>1 DEF StatesInv
<1>3. CASE toHost' = toHost /\ took' = took
  BY <1>2, <1>3 DEF StatesInv
<1>4. CASE toHost # <<>> /\ toHost' = Tail(toHost)
  <2>1. /\ 1 \in DOMAIN toHost /\ toHost[1] = Head(toHost)
        /\ \A i \in DOMAIN toHost' :
             i \in Int /\ i >= 1 /\ i + 1 \in DOMAIN toHost /\ toHost'[i] = toHost[i + 1]
    BY <1>4, TailFacts DEF TypeInv
  <2>2. CASE took' = took
    <3>1. ASSUME NEW i \in DOMAIN toHost', NEW j \in DOMAIN toHost', i < j,
                 toHost'[i].type = "state", toHost'[j].type = "state"
          PROVE  toHost'[i].number < toHost'[j].number
      <4>1. i + 1 < j + 1
        BY <2>1, <3>1
      <4> QED
        BY <2>1, <3>1, <4>1 DEF StatesInv
    <3>2. \A i \in DOMAIN toHost' : toHost'[i].type = "state" =>
            took' < toHost'[i].number /\ toHost'[i].number <= session'.number
      BY <2>1, <2>2 DEF StatesInv
    <3> QED
      BY <1>2, <2>2, <3>1, <3>2 DEF StatesInv
  <2>3. CASE Head(toHost).type = "state" /\ took' = Head(toHost).number
    <3>1. took < took' /\ took' \in Nat /\ took' <= session'.number
      BY <1>1, <2>1, <2>3 DEF StatesInv
    <3>2. \A i \in DOMAIN toUi' : toUi'[i].type = "update" => toUi'[i].seen <= took'
      BY <1>1, <1>2, <3>1
    <3>3. ASSUME NEW i \in DOMAIN toHost', NEW j \in DOMAIN toHost', i < j,
                 toHost'[i].type = "state", toHost'[j].type = "state"
          PROVE  toHost'[i].number < toHost'[j].number
      <4>1. i + 1 < j + 1
        BY <2>1, <3>3
      <4> QED
        BY <2>1, <3>3, <4>1 DEF StatesInv
    <3>4. ASSUME NEW i \in DOMAIN toHost', toHost'[i].type = "state"
          PROVE  took' < toHost'[i].number /\ toHost'[i].number <= session'.number
      <4>1. 1 < i + 1
        BY <2>1
      <4> QED
        BY <2>1, <2>3, <3>4, <4>1 DEF StatesInv
    <3> QED
      BY <3>1, <3>2, <3>3, <3>4 DEF StatesInv
  <2> QED
    BY <1>4, <2>2, <2>3, <1>3
<1> QED
  BY <1>3, <1>4

\* Where the host is not in the session yet, the last state is behind the call
\* that begins it.
LEMMA OnItsWayNearer ==
  ASSUME TypeInv, UNCHANGED ui, toHost # <<>>, toHost' = Tail(toHost),
         Quiet(Head(toHost)) => client' = client /\ (model # None => model' # None),
         Head(toHost).type = "client" => client' = Head(toHost).id /\ model' # None,
         NEW i \in DOMAIN toHost, i # 1, OnItsWay(i)
  PROVE  i - 1 \in DOMAIN toHost' /\ OnItsWay(i - 1)'
<1>1. /\ toHost \in Seq(HostMessages) /\ i \in Int
      /\ i - 1 \in DOMAIN toHost' /\ toHost'[i - 1] = toHost[i]
      /\ UNCHANGED <<session, value, crossed, untold>>
  BY TailFacts DEF TypeInv, ui
<1>2. CASE InSession(toHost, session.slot)
  <2>1. Unbroken(toHost') /\ Quiet(Head(toHost))
    BY <1>1, <1>2, TakenNearer DEF InSession
  <2>2. InSession(toHost, session.slot)'
    BY <1>1, <1>2, <2>1 DEF InSession
  <2> QED
    BY <1>1, <2>2 DEF OnItsWay, Pending, Matched, Entered
<1>3. CASE ReachedBy(toHost, i, session.slot)
  <2>1. \/ Head(toHost) = SetClient(session.slot.id) /\ Unbroken(toHost')
        \/ ReachedBy(toHost', i - 1, session.slot)
    BY <1>1, <1>3, TakenNearer
  <2>2. InSession(toHost, session.slot)' \/ ReachedBy(toHost', i - 1, session'.slot)
    BY <1>1, <2>1 DEF InSession, SetClient
  <2> QED
    BY <1>1, <2>2 DEF OnItsWay, Pending, Matched, Entered
<1> QED
  BY <1>2, <1>3 DEF OnItsWay, Pending

\* A call that ends or begins a session finds the last state on its way.
LEMMA BrokenMeansOnItsWay ==
  ASSUME TypeInv, AgreeInv, toHost # <<>>, ~Quiet(Head(toHost)),
         session.slot # None, session.slot.field \in alive
  PROVE  ~InSession(toHost, session.slot)
           /\ \E i \in DOMAIN toHost : i # 1 /\ OnItsWay(i)
<1>1. toHost \in Seq(HostMessages) /\ 1 \in DOMAIN toHost /\ toHost[1] = Head(toHost)
  BY TailFacts DEF TypeInv
<1>2. ~Unbroken(toHost)
  BY <1>1 DEF Unbroken
<1>3. PICK i \in DOMAIN toHost : OnItsWay(i)
  BY <1>2 DEF AgreeInv, HostAgrees, InSession
<1>4. i # 1
  BY <1>2, <1>3, <1>1, TakenNearer DEF OnItsWay, Pending, InSession
<1> QED
  BY <1>2, <1>3, <1>4 DEF InSession

\* Who has the keyboard is as it was.
LEMMA KeyboardIdle ==
  ASSUME KeyboardOnPage, UNCHANGED ui
  PROVE  KeyboardOnPage'
BY DEF KeyboardOnPage, ui

LEMMA HostSetsClientAgreed ==
  ASSUME IInv, AInv, UNCHANGED <<ui, window>>, clearing = "no", toHost # <<>>,
         HostSetsClient(Head(toHost))
  PROVE  AInv'
<1> DEFINE m == Head(toHost)
<1>1. /\ toHost' = Tail(toHost) /\ m.type = "client" /\ client' = m.id /\ model' = NewModel
      /\ UNCHANGED <<took, clearing, toUi>> /\ UNCHANGED session /\ TypeInv
  BY DEF HostSetsClient, Taken, ui, IInv
<1>2. NewModel # None
  <2>1. NewModel \in Models
    BY DEF NewModel, Models
  <2> QED
    BY <2>1, NoneIsNone DEF Models
<1>3. StatesInv'
  BY <1>1, HostStates DEF AInv
<1>4. HostInv' /\ KeyboardOnPage'
  BY <1>1, KeyboardIdle DEF AInv, HostInv, NewModel
<1>5. ASSUME session.slot # None, session.slot.field \in alive PROVE AgreeInv'
  <2>1. PICK i \in DOMAIN toHost : i # 1 /\ OnItsWay(i)
    BY <1>1, <1>5, BrokenMeansOnItsWay DEF AInv, Quiet
  <2>2. i - 1 \in DOMAIN toHost' /\ OnItsWay(i - 1)'
    BY <1>1, <1>2, <2>1, OnItsWayNearer DEF Quiet
  <2> QED
    BY <2>2 DEF AgreeInv
<1>6. AgreeInv'
  BY <1>5 DEF AgreeInv, ui
<1> QED
  BY <1>3, <1>4, <1>6 DEF AInv

\* The host takes a state: if it is the last one, the copies agree.
LEMMA HostSetsStateAgreed ==
  ASSUME IInv, AInv, UNCHANGED <<ui, window>>, clearing = "no", toHost # <<>>,
         HostSetsState(Head(toHost))
  PROVE  AInv'
<1> DEFINE m == Head(toHost)
<1>1. /\ toHost' = Tail(toHost) /\ m.type = "state"
      /\ IF model = None THEN UNCHANGED <<model, took>>
                         ELSE model' = SetText(m.value) /\ took' = m.number
      /\ UNCHANGED <<client, clearing, toUi>>
      /\ UNCHANGED <<session, value, alive, crossed, untold, todo>> /\ TypeInv
  BY DEF HostSetsState, Taken, ui, window, IInv
<1>2. /\ toHost \in Seq(HostMessages) /\ m \in HostMessages
      /\ 1 \in DOMAIN toHost /\ toHost[1] = m
  BY <1>1, TailFacts DEF TypeInv
<1>3. /\ SetText(m.value).text = m.value.text /\ SetText(m.value).marked = m.value.marked
      /\ SetText(m.value) # None
      /\ ~SetText(m.value).composing => SetText(m.value).marked = {}
  <2>1. m.value \in Texts
    BY <1>1, <1>2 DEF HostMessages
  <2> QED
    <3>1. SetText(m.value) \in Models
      BY <2>1 DEF SetText, Texts, Models
    <3>2. SetText(m.value) # None
      BY <3>1, NoneIsNone DEF Models
    <3> QED
      BY <2>1, <3>2 DEF SetText, Texts
<1>4. StatesInv'
  BY <1>1, HostStates DEF AInv
<1>5. HostInv' /\ KeyboardOnPage'
  BY <1>1, <1>3, KeyboardIdle DEF AInv, HostInv
<1>6. ASSUME session.slot # None, session.slot.field \in alive PROVE AgreeInv'
  <2>1. ~HostAgrees
    <3>1. took \in Nat /\ m.number \in Nat /\ session.number \in Nat
      BY <1>1, <1>2, QueuedTypes
    <3>2. took < m.number /\ m.number <= session.number
      BY <1>1, <1>2 DEF AInv, StatesInv
    <3> QED
      BY <3>1, <3>2 DEF HostAgrees
  <2>2. PICK i \in DOMAIN toHost : OnItsWay(i)
    BY <1>6, <2>1 DEF AInv, AgreeInv
  <2>3. CASE i # 1
    <3>1. m.type # "client" /\ model # None => model' # None
      BY <1>1, <1>3
    <3>2. i - 1 \in DOMAIN toHost' /\ OnItsWay(i - 1)'
      BY <1>1, <1>3, <2>2, <2>3, <3>1, OnItsWayNearer
    <3> QED
      BY <3>2 DEF AgreeInv
  <2>4. CASE i = 1
    <3>1. InSession(toHost, session.slot)
      BY <1>2, <2>2, <2>4, TakenNearer DEF OnItsWay, Pending
    <3>2. model # None /\ model' = SetText(m.value) /\ took' = m.number
      BY <1>1, <3>1 DEF InSession
    <3>3. took' = session'.number
      BY <1>1, <1>2, <2>2, <2>4, <3>2 DEF OnItsWay, Pending
    <3>4. InSession(toHost, session.slot)'
      BY <1>1, <1>2, <1>3, <3>1, <3>2, TakenNearer DEF InSession
    <3>5. ASSUME NEW j \in DOMAIN toUi PROVE ~Fresh(j)'
      <4>1. /\ took \in Nat /\ m.number \in Nat
            /\ toUi[j].type = "update" => toUi[j].seen \in Nat
        BY <1>1, <1>2, QueuedTypes
      <4>2. took < m.number /\ (toUi[j].type = "update" => toUi[j].seen <= took)
        BY <1>1, <1>2 DEF AInv, StatesInv
      <4>3. toUi[j].type = "update" => toUi[j].seen # session'.number
        BY <3>2, <3>3, <4>1, <4>2
      <4> QED
        BY <1>1, <4>3 DEF Fresh
    <3>6. UpdatesAgree'
      BY <1>1, <3>5 DEF UpdatesAgree
    <3>7. ValueAgrees'
      BY <1>1, <1>2, <1>3, <2>2, <2>4, <3>2
         DEF ValueAgrees, OnItsWay, Matched, Entered
    <3> QED
      BY <3>3, <3>4, <3>6, <3>7 DEF AgreeInv, HostAgrees
  <2> QED
    BY <2>3, <2>4
<1>7. AgreeInv'
  BY <1>1, <1>6 DEF AgreeInv
<1> QED
  BY <1>4, <1>5, <1>7 DEF AInv

LEMMA PassVerdictAgreed ==
  ASSUME IInv, AInv, UNCHANGED <<ui, window>>, clearing = "no", toHost # <<>>,
         PassVerdict(Head(toHost))
  PROVE  AInv'
<1> DEFINE m == Head(toHost)
<1>1. /\ toHost' = Tail(toHost) /\ m.type = "verdict"
      /\ UNCHANGED <<model, client, took, clearing, toUi>>
      /\ UNCHANGED <<session, value, alive, crossed, untold, todo>> /\ TypeInv
  BY DEF PassVerdict, Taken, ui, window, IInv
<1>2. toHost \in Seq(HostMessages) /\ 1 \in DOMAIN toHost /\ toHost[1] = m
  BY <1>1, TailFacts DEF TypeInv
<1>3. StatesInv'
  BY <1>1, HostStates DEF AInv
<1>4. HostInv' /\ KeyboardOnPage'
  BY <1>1, KeyboardIdle DEF AInv, HostInv
<1>5. CASE HostAgrees
  <2>1. InSession(toHost, session.slot)'
    BY <1>1, <1>2, <1>5, TakenNearer DEF HostAgrees, InSession
  <2>2. UpdatesAgree' /\ ValueAgrees'
    BY <1>1, <1>5 DEF HostAgrees, UpdatesAgree, ValueAgrees, Fresh, Matched, Sending, Entered
  <2> QED
    BY <1>1, <1>3, <1>4, <1>5, <2>1, <2>2 DEF AInv, AgreeInv, HostAgrees
<1>6. ASSUME NEW i \in DOMAIN toHost, OnItsWay(i) PROVE AgreeInv'
  <2>1. i # 1
    BY <1>1, <1>2, <1>6 DEF OnItsWay, Pending
  <2>2. i - 1 \in DOMAIN toHost' /\ OnItsWay(i - 1)'
    BY <1>1, <1>6, <2>1, OnItsWayNearer
  <2> QED
    BY <2>2 DEF AgreeInv
<1>7. CASE session.slot = None \/ session.slot.field \notin alive
  BY <1>1, <1>3, <1>4, <1>7 DEF AInv, AgreeInv
<1> QED
  BY <1>3, <1>4, <1>5, <1>6, <1>7 DEF AInv, AgreeInv

\* While the platform thread clears the client, the last state of a session is
\* behind the call that begins it.
LEMMA ClearClientAgreed ==
  ASSUME IInv, AInv, UNCHANGED <<ui, window>>,
         \/ clearing = "no" /\ toHost # <<>> /\ BeginClear(Head(toHost))
         \/ TellCommitted \/ AskAbort \/ DropModel
  PROVE  AInv'
<1>1. /\ UNCHANGED <<session, value, alive, crossed, untold>> /\ TypeInv
      /\ toHost \in Seq(HostMessages)
  BY DEF ui, IInv, TypeInv
<1>2. toHost # <<>> /\ Head(toHost).type = "clear"
  BY DEF BeginClear, TellCommitted, AskAbort, DropModel, IInv, TypeInv, AInv, HostInv
<1>3. /\ UNCHANGED <<client, took>>
      /\ toHost' = toHost \/ (toHost' = Tail(toHost) /\ clearing' = "no")
  BY DEF BeginClear, TellCommitted, AskAbort, DropModel, Taken
<1>4. StatesInv'
  <2>1. \A i \in DOMAIN toUi' : toUi'[i].type = "update" =>
          toUi'[i].seen = took \/ \E j \in DOMAIN toUi : toUi'[i] = toUi[j]
    <3>1. CASE toUi' = toUi
      BY <3>1
    <3>2. CASE TellCommitted /\ model # None
      <4>1. toUi' = toUi \o <<Update>> /\ toUi \in Seq(UiMessages) /\ Update \in UiMessages
        BY <3>2 DEF TellCommitted, StateUpdate, Update, Underlined, UiMessages,
                    IInv, TypeInv, TypeOK
      <4>2. toUi' = Append(toUi, Update)
        BY <4>1, AppendIsConcat
      <4>3. Update.seen = took
        BY DEF Update
      <4>4. \A i \in DOMAIN toUi' : toUi'[i] = Update \/ \E j \in DOMAIN toUi : toUi'[i] = toUi[j]
        BY <4>1, <4>2, AppendFacts
      <4> QED
        BY <4>3, <4>4
    <3>3. CASE TellCommitted /\ model = None
      <4>1. toUi' = toUi \o <<>>
        BY <3>3 DEF TellCommitted, StateUpdate
      <4>2. toUi' = toUi
        BY <1>1, <4>1, ConcatEmptySeq DEF TypeInv
      <4> QED
        BY <4>2
    <3> QED
      BY <3>1, <3>2, <3>3 DEF BeginClear, AskAbort, DropModel
  <2> QED
    BY <1>1, <1>2, <1>3, <2>1, HostStates DEF AInv
<1>5. HostInv'
  <2>1. clearing' # "no" => Head(toHost').type = "clear"
    BY <1>2, <1>3
  <2>2. \/ model' \in {model, None}
        \/ model # None /\ model' = EndComposing(CommitComposing(model))
    BY DEF BeginClear, TellCommitted, AskAbort, DropModel
  <2>3. ASSUME model # None PROVE EndComposing(CommitComposing(model)).marked = {}
    BY <2>3 DEF EndComposing, CommitComposing, IInv, TypeInv, TypeOK
  <2> QED
    BY <2>1, <2>2, <2>3 DEF HostInv, AInv
<1>6. KeyboardOnPage'
  BY KeyboardIdle DEF AInv
<1>7. ASSUME session.slot # None, session.slot.field \in alive PROVE AgreeInv'
  <2>1. ~Quiet(Head(toHost))
    BY <1>2 DEF Quiet
  <2>2. ~InSession(toHost, session.slot)
    BY <1>1, <1>2, <1>7, <2>1, BrokenMeansOnItsWay DEF AInv
  <2>3. PICK i \in DOMAIN toHost : i # 1 /\ OnItsWay(i)
    BY <1>1, <1>2, <1>7, <2>1, BrokenMeansOnItsWay DEF AInv
  <2>4. CASE toHost' = toHost
    <3>1. OnItsWay(i)'
      BY <1>1, <2>2, <2>3, <2>4 DEF OnItsWay, Pending, ReachedBy, SetClient, Quiet,
                                     Matched, Entered
    <3> QED
      BY <2>4, <3>1 DEF AgreeInv
  <2>5. CASE toHost' = Tail(toHost)
    <3>1. i - 1 \in DOMAIN toHost' /\ OnItsWay(i - 1)'
      BY <1>1, <1>2, <2>1, <2>3, <2>5, OnItsWayNearer
    <3> QED
      BY <3>1 DEF AgreeInv
  <2> QED
    BY <1>3, <2>4, <2>5
<1>8. AgreeInv'
  BY <1>1, <1>7 DEF AgreeInv
<1> QED
  BY <1>4, <1>5, <1>6, <1>8 DEF AInv

LEMMA HandleCallAgreed == IInv /\ AInv /\ HandleCall => AInv'
<1> SUFFICES ASSUME IInv, AInv, HandleCall PROVE AInv'
  OBVIOUS
<1>1. UNCHANGED <<ui, window>>
  BY DEF HandleCall
<1>2. CASE clearing = "no" /\ toHost # <<>> /\ HostSetsClient(Head(toHost))
  BY <1>1, <1>2, HostSetsClientAgreed
<1>3. CASE clearing = "no" /\ toHost # <<>> /\ HostSetsState(Head(toHost))
  BY <1>1, <1>3, HostSetsStateAgreed
<1>4. CASE clearing = "no" /\ toHost # <<>> /\ PassVerdict(Head(toHost))
  BY <1>1, <1>4, PassVerdictAgreed
<1>5. CASE \/ clearing = "no" /\ toHost # <<>> /\ BeginClear(Head(toHost))
           \/ TellCommitted \/ AskAbort \/ DropModel
  BY <1>1, <1>5, ClearClientAgreed
<1> QED
  BY <1>2, <1>3, <1>4, <1>5 DEF HandleCall

(***************************************************************************)
(* The steps of the window thread and the input method.                    *)
(***************************************************************************)

\* An edit takes nothing away that was entered, and is to be reported; what it
\* leaves underlined the input method composed.
LEMMA EditKeepsEntered ==
  ASSUME IInv, HostInv, model # None, NEW step,
         \/ step \in PlainSteps /\ step.op \in {"begin", "change", "commit", "end"}
         \/ \E k \in Keys : Adds(k) /\ step = EditStep("add", {k})
  PROVE  /\ Edited(step) \in Models /\ Edited(step) # None
         /\ Entered(model) \subseteq Entered(Edited(step))
         /\ ~Edited(step).composing => Edited(step).marked \subseteq Strings
         /\ step.op = "begin" => Edited(step).text = model.text
<1>1. model \in Models
  BY DEF IInv, TypeInv, TypeOK, Models
<1>2. Edited(step) \in Models => Edited(step) # None
  BY NoneIsNone DEF Models
<1>3. ASSUME NEW k \in Keys, Adds(k), step = EditStep("add", {k})
      PROVE  /\ Edited(step) \in Models
             /\ Entered(model) \subseteq Entered(Edited(step))
             /\ ~Edited(step).composing => Edited(step).marked \subseteq Strings
             /\ step.op = "add"
  <2>1. step.op = "add" /\ step.string = {k}
    BY <1>3 DEF EditStep
  <2>2. Edited(step) = AddText(model, k)
    BY <2>1 DEF Edited
  <2>3. k \notin model.text
    BY <1>3 DEF IInv, KeysInv, KeyOnce, Typed, InModel
  <2>4. AddText(model, k) \in Models
    BY <1>1 DEF AddText, Models, Marks
  <2>5. CASE model.composing
    <3>1. /\ AddText(model, k).text = (model.text \ model.marked) \union {k}
          /\ AddText(model, k).marked = {k} /\ AddText(model, k).composing
      BY <1>1, <2>5 DEF AddText, Models
    <3> QED
      BY <2>1, <2>2, <2>3, <2>4, <3>1 DEF Entered
  <2>6. CASE ~model.composing
    <3>1. /\ AddText(model, k).text = model.text \union {k}
          /\ AddText(model, k).marked = model.marked
      BY <1>1, <2>6 DEF AddText, Models
    <3> QED
      BY <2>1, <2>2, <2>4, <2>6, <3>1 DEF Entered, HostInv
  <2> QED
    BY <2>5, <2>6
<1>4. ASSUME step \in PlainSteps, step.op \in {"begin", "change", "commit", "end"}
      PROVE  /\ Edited(step) \in Models
             /\ Entered(model) \subseteq Entered(Edited(step))
             /\ ~Edited(step).composing => Edited(step).marked \subseteq Strings
             /\ step.op = "begin" => Edited(step).text = model.text
  <2>1. Edited(step) \in Models /\ step.string \subseteq Strings
    BY <1>4, PlainEdit DEF PlainSteps
  <2>2. CASE step.op = "begin"
    BY <1>1, <2>1, <2>2 DEF Edited, BeginComposing, Models, Entered
  <2>3. CASE step.op = "change"
    <3>1. Edited(step) = UpdateComposingText(model, step.string)
      BY <2>3 DEF Edited
    <3>2. /\ Edited(step).text = (model.text \ model.marked) \union step.string
          /\ Edited(step).marked = step.string
      BY <1>1, <3>1 DEF UpdateComposingText, Models
    <3> QED
      BY <2>1, <2>3, <3>2 DEF Entered
  <2>4. CASE step.op \in {"commit", "end"}
    <3>1. Edited(step).text = model.text /\ Edited(step).marked = {}
      BY <1>1, <2>4 DEF Edited, CommitComposing, EndComposing, Models
    <3> QED
      BY <2>1, <2>4, <3>1 DEF Entered
  <2> QED
    BY <1>4, <2>1, <2>2, <2>3, <2>4
<1> QED
  BY <1>2, <1>3, <1>4

\* Nothing that was entered goes from the model, and no update is sent: then the
\* copies agree as they did, if an edit is still to be reported.
ModelGoesOn ==
  model # None =>
    /\ model' # None /\ Entered(model) \subseteq Entered(model')
    /\ ~Sending' => ~Sending /\ model'.text = model.text

LEMMA WindowAgreed ==
  ASSUME TypeInv, AInv, UNCHANGED <<ui, client, took, clearing, toHost>>, ModelGoesOn,
         model' # None /\ ~model'.composing => model'.marked \subseteq Strings,
         toUi' = toUi \/ \E x \in UiMessages : x.type # "update" /\ toUi' = Append(toUi, x)
  PROVE  AInv'
<1>1. /\ UNCHANGED <<session, value, alive, crossed, untold>> /\ toUi \in Seq(UiMessages)
  BY DEF ui, TypeInv
<1>2. /\ \A i \in DOMAIN toUi : i \in DOMAIN toUi' /\ toUi'[i] = toUi[i]
      /\ \A i \in DOMAIN toUi' : toUi'[i].type = "update" => i \in DOMAIN toUi
  <2>1. CASE toUi' = toUi
    BY <2>1
  <2>2. ASSUME NEW x \in UiMessages, x.type # "update", toUi' = Append(toUi, x)
        PROVE  /\ \A i \in DOMAIN toUi : i \in DOMAIN toUi' /\ toUi'[i] = toUi[i]
               /\ \A i \in DOMAIN toUi' : toUi'[i].type = "update" => i \in DOMAIN toUi
    <3>1. /\ DOMAIN toUi' = DOMAIN toUi \union {Len(toUi) + 1}
          /\ \A i \in DOMAIN toUi : toUi'[i] = toUi[i]
          /\ toUi'[Len(toUi) + 1] = x
      BY <1>1, <2>2, AppendFacts
    <3> QED
      BY <2>2, <3>1
  <2> QED
    BY <2>1, <2>2
<1>3. StatesInv' /\ KeyboardOnPage'
  BY <1>1, <1>2, HostStates, KeyboardIdle DEF AInv
<1>4. HostInv'
  BY DEF AInv, HostInv
<1>5. /\ \A i \in DOMAIN toUi' : Fresh(i)' => i \in DOMAIN toUi /\ Fresh(i) /\ toUi'[i] = toUi[i]
      /\ \A i \in DOMAIN toUi : Fresh(i) => Fresh(i)'
  BY <1>1, <1>2 DEF Fresh
<1>6. ASSUME HostAgrees PROVE HostAgrees'
  <2>1. model # None /\ model' # None /\ took' = session'.number /\ InSession(toHost, session.slot)'
    BY <1>1, <1>6 DEF HostAgrees, InSession, ModelGoesOn
  <2>2. UpdatesAgree'
    <3> SUFFICES ASSUME NEW i \in DOMAIN toUi', Fresh(i)'
                 PROVE  /\ Entered(toUi'[i]) \subseteq Entered(model)'
                        /\ \A j \in DOMAIN toUi' : i < j /\ Fresh(j)' =>
                             Entered(toUi'[i]) \subseteq Entered(toUi'[j])
                        /\ Matched' => Entered(value'[session'.slot.field]) \subseteq Entered(toUi'[i])
                        /\ ~Sending' /\ (\A j \in DOMAIN toUi' : Fresh(j)' => j <= i) =>
                             toUi'[i].text = model'.text
      BY DEF UpdatesAgree, Entered
    <3>1. i \in DOMAIN toUi /\ Fresh(i) /\ toUi'[i] = toUi[i]
      BY <1>5
    <3>2. Entered(toUi'[i]) \subseteq Entered(model)'
      BY <1>6, <2>1, <3>1 DEF HostAgrees, UpdatesAgree, ModelGoesOn, Entered
    <3>3. \A j \in DOMAIN toUi' : i < j /\ Fresh(j)' => Entered(toUi'[i]) \subseteq Entered(toUi'[j])
      BY <1>5, <1>6, <3>1 DEF HostAgrees, UpdatesAgree
    <3>4. Matched' => Entered(value'[session'.slot.field]) \subseteq Entered(toUi'[i])
      BY <1>1, <1>6, <3>1 DEF HostAgrees, UpdatesAgree, Matched
    <3>5. ASSUME ~Sending', \A j \in DOMAIN toUi' : Fresh(j)' => j <= i
          PROVE  toUi'[i].text = model'.text
      <4>1. \A j \in DOMAIN toUi : Fresh(j) => j <= i
        BY <1>2, <1>5, <3>5
      <4>2. ~Sending /\ model'.text = model.text
        BY <2>1, <3>5 DEF ModelGoesOn
      <4> QED
        BY <1>6, <3>1, <4>1, <4>2 DEF HostAgrees, UpdatesAgree
    <3> QED
      BY <3>2, <3>3, <3>4, <3>5
  <2>3. ValueAgrees'
    <3> SUFFICES ASSUME Matched'
                 PROVE  /\ Entered(value[session.slot.field]) \subseteq Entered(model')
                        /\ ~Sending' /\ (\A i \in DOMAIN toUi' : ~Fresh(i)') =>
                             value[session.slot.field].text = model'.text
      BY <1>1 DEF ValueAgrees, Entered
    <3>1. Matched
      BY <1>1 DEF Matched
    <3>2. (\A i \in DOMAIN toUi' : ~Fresh(i)') => \A i \in DOMAIN toUi : ~Fresh(i)
      BY <1>2, <1>5
    <3>3. ~Sending' => ~Sending /\ model'.text = model.text
      BY <2>1 DEF ModelGoesOn
    <3>4. Entered(model) \subseteq Entered(model')
      BY <2>1 DEF ModelGoesOn
    <3> QED
      BY <1>6, <3>1, <3>2, <3>3, <3>4 DEF HostAgrees, ValueAgrees
  <2> QED
    BY <2>1, <2>2, <2>3 DEF HostAgrees
<1>7. ASSUME NEW i \in DOMAIN toHost, OnItsWay(i) PROVE OnItsWay(i)'
  <2>1. InSession(toHost, session.slot) => InSession(toHost, session.slot)'
    BY <1>1 DEF InSession, ModelGoesOn
  <2>2. ReachedBy(toHost, i, session.slot) => ReachedBy(toHost, i, session.slot)'
    BY <1>1 DEF ReachedBy, SetClient, Quiet
  <2> QED
    BY <1>1, <1>7, <2>1, <2>2 DEF OnItsWay, Pending, Matched, Entered
<1>8. AgreeInv'
  BY <1>1, <1>6, <1>7 DEF AInv, AgreeInv
<1> QED
  BY <1>3, <1>4, <1>8 DEF AInv

\* The model is reported.
LEMMA SendUpdateAgreed ==
  ASSUME IInv, AInv, SendUpdate, model # None,
         UNCHANGED <<ui, client, took, clearing, toHost>>
  PROVE  AInv'
<1>1. /\ UNCHANGED <<session, value, alive, crossed, untold, model>>
      /\ toUi \in Seq(UiMessages) /\ TypeInv /\ model \in Models
  BY DEF ui, SendUpdate, IInv, TypeInv, TypeOK, Models
<1>2. /\ Update \in UiMessages /\ Update.type = "update" /\ Update.id = client
      /\ Update.seen = took /\ Update.text = model.text
  BY <1>1 DEF Update, Underlined, UiMessages, Models, TypeInv
<1>3. Entered(Update) = Entered(model)
  <2>1. ~model.composing => model.marked \subseteq Strings
    BY DEF AInv, HostInv
  <2>2. Update.marked = IF model.composing THEN model.marked ELSE {}
    BY DEF Update, Underlined
  <2> QED
    BY <1>1, <1>2, <2>1, <2>2 DEF Entered, Models
<1> DEFINE u == Update
<1>4. toUi' = Append(toUi, u)
  BY <1>1, <1>2, AppendIsConcat DEF SendUpdate, StateUpdate
<1> HIDE DEF u
<1>5. PICK n \in DOMAIN toUi' :
        /\ n = Len(toUi) + 1 /\ toUi'[n] = u /\ DOMAIN toUi' = DOMAIN toUi \union {n}
        /\ \A i \in DOMAIN toUi : i \in Int /\ i < n /\ toUi'[i] = toUi[i]
  <2>1. u \in UiMessages
    BY <1>2 DEF u
  <2>2. /\ Len(toUi) \in Nat /\ DOMAIN toUi' = DOMAIN toUi \union {Len(toUi) + 1}
        /\ \A i \in DOMAIN toUi : i \in Int /\ i <= Len(toUi) /\ toUi'[i] = toUi[i]
        /\ toUi'[Len(toUi) + 1] = u
    BY <1>1, <1>4, <2>1, AppendFacts
  <2> QED
    BY <2>2
<1>6. u.type = "update" /\ u.id = client /\ u.seen = took /\ u.text = model.text
        /\ Entered(u) = Entered(model)
  BY <1>2, <1>3 DEF u
<1>7. StatesInv' /\ HostInv' /\ KeyboardOnPage'
  <2>1. \A i \in DOMAIN toUi' : toUi'[i].type = "update" =>
          toUi'[i].seen = took \/ \E j \in DOMAIN toUi : toUi'[i] = toUi[j]
    BY <1>5, <1>6
  <2> QED
    BY <1>1, <2>1, HostStates, KeyboardIdle DEF AInv, HostInv
<1>8. ASSUME HostAgrees PROVE HostAgrees'
  <2>1. took' = session'.number /\ InSession(toHost, session.slot)'
    BY <1>1, <1>8 DEF HostAgrees, InSession
  <2>2. Fresh(n)' /\ n \in Int
    <3>1. u.id = session.slot.id /\ u.seen = session.number
      BY <1>6, <1>8 DEF HostAgrees, InSession
    <3>2. n \in Int
      BY <1>1, <1>5, LenProperties
    <3> QED
      BY <1>1, <1>5, <1>6, <3>1, <3>2 DEF Fresh
  <2>3. \A i \in DOMAIN toUi' : Fresh(i)' /\ i # n => i \in DOMAIN toUi /\ Fresh(i)
    BY <1>1, <1>5 DEF Fresh
  <2>4. ASSUME NEW i \in DOMAIN toUi', Fresh(i)'
        PROVE  /\ Entered(toUi'[i]) \subseteq Entered(model)
               /\ \A j \in DOMAIN toUi' :
                    i < j /\ Fresh(j)' => Entered(toUi'[i]) \subseteq Entered(toUi'[j])
               /\ Matched' => Entered(value[session.slot.field]) \subseteq Entered(toUi'[i])
               /\ ~Sending' /\ (\A j \in DOMAIN toUi' : Fresh(j)' => j <= i) =>
                    toUi'[i].text = model.text
    <3>1. CASE i = n
      <4>1. \A j \in DOMAIN toUi' : ~(i < j)
        BY <1>5, <2>2, <3>1
      <4>2. Matched' => Entered(value[session.slot.field]) \subseteq Entered(model)
        BY <1>1, <1>8 DEF HostAgrees, ValueAgrees, Matched
      <4> QED
        BY <1>5, <1>6, <3>1, <4>1, <4>2
    <3>2. CASE i # n
      <4>1. i \in DOMAIN toUi /\ Fresh(i) /\ toUi'[i] = toUi[i] /\ i < n /\ i \in Int
        BY <1>5, <2>3, <2>4, <3>2
      <4>2. Entered(toUi'[i]) \subseteq Entered(model)
        BY <1>8, <4>1 DEF HostAgrees, UpdatesAgree
      <4>3. ASSUME NEW j \in DOMAIN toUi', i < j, Fresh(j)'
            PROVE  Entered(toUi'[i]) \subseteq Entered(toUi'[j])
        <5>1. CASE j = n
          BY <1>5, <1>6, <4>2, <5>1
        <5>2. CASE j # n
          <6>1. j \in DOMAIN toUi /\ Fresh(j) /\ toUi'[j] = toUi[j]
            BY <1>5, <2>3, <4>3, <5>2
          <6> QED
            BY <1>8, <4>1, <4>3, <6>1 DEF HostAgrees, UpdatesAgree
        <5> QED
          BY <5>1, <5>2
      <4>4. Matched' => Entered(value[session.slot.field]) \subseteq Entered(toUi'[i])
        BY <1>1, <1>8, <4>1 DEF HostAgrees, UpdatesAgree, Matched
      <4>5. ~(\A j \in DOMAIN toUi' : Fresh(j)' => j <= i)
        BY <2>2, <4>1
      <4> QED
        BY <4>2, <4>3, <4>4, <4>5
    <3> QED
      BY <3>1, <3>2
  <2>5. UpdatesAgree'
    BY <1>1, <2>4 DEF UpdatesAgree, Entered
  <2>6. ValueAgrees'
    BY <1>1, <1>8, <2>2 DEF ValueAgrees, HostAgrees, Matched, Entered
  <2> QED
    BY <2>1, <2>5, <2>6 DEF HostAgrees
<1>9. ASSUME NEW i \in DOMAIN toHost, OnItsWay(i) PROVE OnItsWay(i)'
  BY <1>1, <1>9 DEF OnItsWay, Pending, InSession, ReachedBy, SetClient, Quiet, Matched, Entered
<1>10. AgreeInv'
  BY <1>1, <1>8, <1>9 DEF AInv, AgreeInv
<1> QED
  BY <1>7, <1>10 DEF AInv

\* An edit of the model is followed by its report.
LEMMA EditModelAgreed ==
  ASSUME IInv, AInv, todo # <<>>, EditModel(Head(todo)),
         Head(todo).op \notin {"composition", "send", "enter"},
         UNCHANGED <<ui, client, took, clearing, toHost>>
  PROVE  AInv'
<1> DEFINE step == Head(todo)
<1>1. /\ toUi' = toUi /\ TypeInv
      /\ \/ model = None /\ todo' = Tail(todo) /\ model' = model
         \/ /\ model # None /\ model' = Edited(step)
            /\ todo' = (IF step.op = "begin" THEN <<>> ELSE <<SendStep>>) \o Tail(todo)
  BY DEF EditModel, IInv
<1>2. /\ \/ step \in PlainSteps /\ step.op \in {"begin", "change", "commit", "end"}
         \/ \E k \in Keys : Adds(k) /\ step = EditStep("add", {k})
      /\ Tail(todo) \in Seq(Steps)
  <2>1. CASE todo \in Seq(Steps)
    <3>1. step \in Steps /\ Tail(todo) \in Seq(Steps)
      BY <2>1, TailFacts
    <3>2. step \in PlainSteps
      BY <3>1 DEF Steps, Compositions
    <3> QED
      BY <3>1, <3>2 DEF PlainSteps
  <2>2. ASSUME NEW k \in Keys, Adds(k)
        PROVE  step = EditStep("add", {k}) /\ Tail(todo) \in Seq(Steps)
    <3>1. step = EditStep("add", {k}) /\ Tail(todo) = <<>>
      BY <2>2 DEF Adds
    <3>2. <<>> \in Seq(Steps)
      BY EmptySeq
    <3> HIDE DEF step
    <3> QED
      BY <3>1, <3>2
  <2> QED
    BY <2>1, <2>2 DEF IInv, TypeInv, Steps
<1>3. step.op # "begin" /\ model # None => Sending'
  <2>1. SendStep \in Steps /\ SendStep.op = "send"
    BY StepTypes DEF SendStep, EditStep, Steps
  <2> DEFINE x == SendStep
  <2>2. ASSUME todo' = <<x>> \o Tail(todo) PROVE todo' # <<>> /\ Head(todo') = x
    <3> HIDE DEF x
    <3>1. <<x>> \in Seq(Steps) /\ 1 \in DOMAIN <<x>> /\ <<x>>[1] = x
      BY <2>1 DEF x
    <3>2. todo' \in Seq(Steps) /\ 1 \in DOMAIN todo' /\ todo'[1] = x
      BY <1>2, <2>2, <3>1, ConcatFacts
    <3> QED
      BY <3>2
  <2> QED
    BY <1>1, <2>1, <2>2 DEF Sending
<1>4. ~Sending
  BY DEF Sending
<1>5. model # None =>
        /\ Edited(step) # None
        /\ Entered(model) \subseteq Entered(Edited(step))
        /\ ~Edited(step).composing => Edited(step).marked \subseteq Strings
        /\ step.op = "begin" => Edited(step).text = model.text
  BY <1>2, EditKeepsEntered DEF AInv
<1> HIDE DEF step
<1>6. ModelGoesOn
  BY <1>1, <1>3, <1>4, <1>5 DEF ModelGoesOn
<1>7. model' # None /\ ~model'.composing => model'.marked \subseteq Strings
  BY <1>1, <1>5 DEF AInv, HostInv
<1> QED
  BY <1>1, <1>6, <1>7, WindowAgreed

\* A step that leaves the model, and reports no edit that was still to be
\* reported.
LEMMA ModelStays ==
  ASSUME AInv, UNCHANGED model, Sending => Sending'
  PROVE  ModelGoesOn /\ (model' # None /\ ~model'.composing => model'.marked \subseteq Strings)
BY DEF AInv, HostInv, ModelGoesOn

LEMMA WindowStepAgreed == IInv /\ AInv /\ WindowStep => AInv'
<1> SUFFICES ASSUME IInv, AInv, WindowStep PROVE AInv'
  OBVIOUS
<1> DEFINE step == Head(todo)
<1>1. /\ todo # <<>> /\ UNCHANGED <<ui, client, took, clearing, toHost>>
      /\ TypeInv /\ toUi \in Seq(UiMessages)
  BY DEF WindowStep, IInv, TypeInv
<1>2. CASE step.op = "composition" /\ LookForAbort(step)
  <2>1. toUi' = toUi /\ model' = model /\ ~Sending
    BY <1>2 DEF LookForAbort, Sending
  <2> QED
    BY <1>1, <2>1, ModelStays, WindowAgreed
<1>3. CASE step.op = "send" /\ SendUpdate
  <2>1. CASE model # None
    BY <1>1, <1>3, <2>1, SendUpdateAgreed
  <2>2. CASE model = None
    <3>1. toUi' = toUi /\ model' = model
      BY <1>1, <1>3, <2>2, ConcatEmptySeq DEF SendUpdate, StateUpdate
    <3>2. ModelGoesOn /\ model' = None
      BY <2>2, <3>1 DEF ModelGoesOn
    <3> QED
      BY <1>1, <3>1, <3>2, WindowAgreed
  <2> QED
    BY <2>1, <2>2
<1>4. CASE step.op = "enter" /\ SendAction
  <2>1. model' = model /\ ~Sending
    BY <1>4 DEF SendAction, Sending
  <2>2. Action \in UiMessages /\ Action.type # "update"
    BY <1>1 DEF Action, UiMessages, TypeInv
  <2>3. toUi' = toUi \/ toUi' = Append(toUi, Action)
    <3>1. toUi' = toUi \o <<>> \/ toUi' = toUi \o <<Action>>
      BY <1>4 DEF SendAction
    <3> QED
      BY <1>1, <2>2, <3>1, ConcatEmptySeq, AppendIsConcat
  <2> QED
    BY <1>1, <2>1, <2>2, <2>3, ModelStays, WindowAgreed
<1>5. CASE step.op \notin {"composition", "send", "enter"} /\ EditModel(step)
  BY <1>1, <1>5, EditModelAgreed
<1> QED
  BY <1>2, <1>3, <1>4, <1>5 DEF WindowStep

\* A key or the input method begins a window message.
LEMMA WindowMessageAgreed ==
  ASSUME IInv, AInv,
         \/ \E k \in Keys \union {Enter} : Press(k)
         \/ TakeVerdict
         \/ ImeStarts \/ (\E c \in Strings : ImeComposes(c)) \/ ImeCommits \/ ImeCancels
  PROVE  AInv'
<1>1. /\ todo = <<>> /\ UNCHANGED <<ui, model, client, took, clearing, toHost>> /\ TypeInv
  BY DEF Press, TakeVerdict, ImeStarts, ImeComposes, ImeCommits, ImeCancels, WindowIdle,
         host, IInv
<1>2. ModelGoesOn /\ (model' # None /\ ~model'.composing => model'.marked \subseteq Strings)
  BY <1>1, ModelStays DEF Sending
<1>3. ASSUME NEW k \in Keys \union {Enter}, Press(k)
      PROVE  \E x \in UiMessages : x.type # "update" /\ toUi' = Append(toUi, x)
  <2>1. KeyEvent(k) \in UiMessages /\ KeyEvent(k).type = "key"
    BY DEF KeyEvent, UiMessages
  <2> QED
    BY <1>3, <2>1 DEF Press
<1>4. toUi' = toUi \/ \E x \in UiMessages : x.type # "update" /\ toUi' = Append(toUi, x)
  BY <1>3 DEF TakeVerdict, ImeStarts, ImeComposes, ImeCommits, ImeCancels
<1> QED
  BY <1>1, <1>2, <1>4, WindowAgreed

(***************************************************************************)
(* The theorems about the copies.                                          *)
(***************************************************************************)

LEMMA AgreeInitially == Init => AInv
<1> SUFFICES ASSUME Init PROVE AInv
  OBVIOUS
<1>1. session.slot = None /\ session.number = 0 /\ session.focus = None
  BY DEF Init
<1>2. StatesInv
  BY <1>1 DEF Init, StatesInv
<1> QED
  BY <1>1, <1>2 DEF Init, AInv, HostInv, KeyboardOnPage, AgreeInv

LEMMA AgreeStep == IInv /\ AInv /\ [Next]_vars => AInv'
<1> SUFFICES ASSUME IInv, AInv, [Next]_vars PROVE AInv'
  OBVIOUS
<1>1. ASSUME NEW f \in alive \union {None}, MoveFocus(f) PROVE AInv'
  BY <1>1, MoveFocusAgreed
<1>2. ASSUME NEW f \in alive, NEW p \in Pastes, Paste(f, p) PROVE AInv'
  BY <1>2, PasteAgreed
<1>3. ASSUME NEW f \in alive, Clear(f) PROVE AInv'
  BY <1>3, ClearAgreed
<1>4. ASSUME NEW f \in alive, Dispose(f) PROVE AInv'
  BY <1>4, DisposeAgreed
<1>5. CASE HandleMessage \/ HandleCall \/ WindowStep
  BY <1>5, HandleMessageAgreed, HandleCallAgreed, WindowStepAgreed
<1>6. CASE \/ \E k \in Keys \union {Enter} : Press(k)
           \/ TakeVerdict
           \/ ImeStarts \/ (\E c \in Strings : ImeComposes(c)) \/ ImeCommits \/ ImeCancels
  BY <1>6, WindowMessageAgreed
<1>7. CASE UNCHANGED vars
  <2>1. UNCHANGED <<ui, model, client, took, clearing, toHost, toUi>> /\ (Sending => Sending')
    BY <1>7 DEF vars, host, window, Sending
  <2> QED
    BY <2>1, ModelStays, WindowAgreed DEF IInv
<1> QED
  BY <1>1, <1>2, <1>3, <1>4, <1>5, <1>6, <1>7 DEF Next

LEMMA AgreeInductive == Spec => []AInv
<1>1. Init => AInv
  BY AgreeInitially
<1>2. IInv /\ AInv /\ [Next]_vars => AInv'
  BY AgreeStep
<1> QED
  BY <1>1, <1>2, Inductive, PTL DEF Spec

\* At rest the model the host types into (TextInputHandler.model_) is the text
\* of the field that has the keyboard, and of its session, unless the last
\* update crossed a state (set_editing_state) or a callback kept a text from
\* the host.
THEOREM HostHoldsTheText == Spec => []CopiesAgree
<1>1. IInv /\ AInv => CopiesAgree
  <2> SUFFICES ASSUME IInv, AInv, AtRest, session.focus # None, ~crossed, ~untold
               PROVE  /\ model # None /\ client = session.slot.id
                      /\ model.text = value[session.focus].text
    BY DEF CopiesAgree
  <2>1. session.slot # None /\ session.slot.field = session.focus /\ session.focus \in alive
    BY DEF IInv, ConnectionInv, FocusedIsAttached, Attached, AInv, KeyboardOnPage
  <2>2. DOMAIN toHost = {} /\ DOMAIN toUi = {} /\ ~Sending
    BY DEF AtRest, Sending
  <2>3. HostAgrees
    BY <2>1, <2>2 DEF AInv, AgreeInv
  <2> QED
    BY <2>1, <2>2, <2>3 DEF HostAgrees, InSession, ValueAgrees, Matched
<1> QED
  BY <1>1, Inductive, AgreeInductive, PTL

\* A keystroke or a paste that is not underlined goes only when the program
\* empties the field, or with an update that crossed a state: the update a
\* field takes (update_editing_value) holds all that was entered before.
THEOREM WhatIsEnteredStays == Spec => EnteredStays
<1> DEFINE Stays == \A f \in Fields : \A m \in (value[f].text \ value[f].marked) \ Strings :
             m \in value'[f].text \/ value'[f] = NoText \/ crossed \/ untold \/ Crosses
<1>1. IInv /\ AInv /\ [Next]_vars => [Stays]_vars
  <2> SUFFICES ASSUME IInv, AInv, Next, NEW f \in Fields, NEW m \in Entered(value[f]),
                      ~crossed, ~untold, ~Crosses
               PROVE  m \in value'[f].text \/ value'[f] = NoText
    BY DEF Entered
  <2>1. value \in [Fields -> Texts] /\ m \in value[f].text /\ TypeInv /\ alive \subseteq Fields
    BY DEF IInv, TypeInv, TypeOK, Entered
  <2>2. CASE value' = value
    BY <2>1, <2>2
  <2>3. ASSUME NEW g \in alive, NEW p \in Pastes, Paste(g, p) PROVE m \in value'[f].text
    BY <2>1, <2>3 DEF Paste, Edit
  <2>4. ASSUME NEW g \in alive, Clear(g) PROVE m \in value'[f].text \/ value'[f] = NoText
    BY <2>1, <2>4 DEF Clear, Edit
  <2>5. CASE HandleMessage
    <3> DEFINE u == Head(toUi)
    <3>1. toUi # <<>> /\ 1 \in DOMAIN toUi /\ toUi[1] = u
      BY <2>1, <2>5, TailFacts DEF HandleMessage, TypeInv
    <3>2. CASE (u.type = "key" /\ DeclineKey(u)) \/ DropMessage(u)
      BY <2>2, <3>2 DEF DeclineKey, DropMessage
    <3>3. ASSUME NEW how, u.type = "update", HandleUpdate(u, how) PROVE m \in value'[f].text
      <4>1. /\ session.slot # None /\ session.slot.id = u.id
            /\ session.slot.field \in Fields
            /\ value' = IF session.slot.field \in alive
                          THEN [value EXCEPT ![session.slot.field] =
                                  [text |-> u.text, marked |-> u.marked]]
                          ELSE value
        BY <2>1, <3>3 DEF HandleUpdate, IsForClient, TypeInv, SessionType, Slots
      <4>2. CASE session.slot.field = f /\ f \in alive
        <5>1. Fresh(1)
          BY <3>1, <3>3, <4>1 DEF Fresh, Crosses
        <5>2. \A i \in DOMAIN toHost : ~OnItsWay(i)
          <6> SUFFICES ASSUME NEW i \in DOMAIN toHost, OnItsWay(i) PROVE FALSE
            OBVIOUS
          <6>1. session.number \in Nat /\ took \in Nat /\ toHost[i].number \in Nat
            BY <2>1, QueuedTypes DEF OnItsWay, Pending
          <6>2. toUi[1].seen <= took /\ toUi[1].seen = session.number
            BY <3>1, <5>1 DEF Fresh, AInv, StatesInv
          <6>3. took < toHost[i].number /\ toHost[i].number = session.number
            BY DEF OnItsWay, Pending, AInv, StatesInv
          <6> QED
            BY <6>1, <6>2, <6>3
        <5>3. Entered(value[f]) \subseteq Entered(toUi[1])
          BY <3>1, <4>1, <4>2, <5>1, <5>2
             DEF AInv, AgreeInv, HostAgrees, UpdatesAgree, Matched
        <5>4. value'[f].text = u.text
          BY <2>1, <4>1, <4>2
        <5> QED
          BY <3>1, <5>3, <5>4 DEF Entered
      <4>3. CASE ~(session.slot.field = f /\ f \in alive)
        <5>1. value'[f] = value[f]
          BY <2>1, <4>1, <4>3
        <5> QED
          BY <2>1, <5>1
      <4> QED
        BY <4>2, <4>3
    <3>4. ASSUME NEW how, u.type = "action", HandleAction(u, how)
          PROVE  m \in value'[f].text \/ value'[f] = NoText
      <4>1. value' = value \/ value' = [value EXCEPT ![session.slot.field] = NoText]
        BY <3>4 DEF HandleAction
      <4> QED
        BY <2>1, <4>1
    <3> QED
      BY <2>5, <3>2, <3>3, <3>4 DEF HandleMessage
  <2>6. \/ value' = value \/ HandleMessage
        \/ \E g \in alive, p \in Pastes : Paste(g, p)
        \/ \E g \in alive : Clear(g)
    BY DEF Next, MoveFocus, Dispose, HandleCall, Press, TakeVerdict, WindowStep,
           ImeStarts, ImeComposes, ImeCommits, ImeCancels, ui
  <2> QED
    BY <2>2, <2>3, <2>4, <2>5, <2>6
<1>2. [](IInv /\ AInv) /\ [][Next]_vars => [][Stays]_vars
  BY <1>1, PTL
<1> QED
  BY <1>2, Inductive, AgreeInductive, PTL DEF Spec, EnteredStays
=============================================================================
