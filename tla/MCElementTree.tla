--------------------------- MODULE MCElementTree ---------------------------
EXTENDS ElementTree

none == "none"

W(type, key, global, component, provides, reads, nudges) ==
  [type |-> type, key |-> key, global |-> global, component |-> component,
   provides |-> provides, reads |-> reads, nudges |-> nudges]

\* A page with two panels, which a clock and a dial may move between; a
\* gauge and a meter carry the same GlobalKey and are of different type.
MCWidget ==
  [app   |-> W("App",   none, none, TRUE,  FALSE, FALSE, FALSE),
   theme |-> W("Theme", none, none, FALSE, TRUE,  FALSE, FALSE),
   row   |-> W("Row",   none, none, FALSE, FALSE, FALSE, FALSE),
   left  |-> W("Panel", "1",  none, TRUE,  FALSE, FALSE, FALSE),
   right |-> W("Panel", "2",  none, TRUE,  FALSE, FALSE, FALSE),
   clock |-> W("Clock", none, "g",  TRUE,  FALSE, FALSE, TRUE),
   dial  |-> W("Dial",  none, "h",  TRUE,  FALSE, TRUE,  FALSE),
   gauge |-> W("Gauge", none, "k",  FALSE, FALSE, FALSE, FALSE),
   meter |-> W("Meter", none, "k",  FALSE, FALSE, FALSE, FALSE),
   dot   |-> W("Dot",   none, none, FALSE, FALSE, FALSE, FALSE),
   error_placeholder |-> W("Error", none, none, FALSE, FALSE, FALSE, FALSE)]

L(w) == [w |-> w, kids |-> <<>>]
N(w, kids) == [w |-> w, kids |-> kids]

MCShapes ==
  [app   |-> {N("theme", <<N("row", <<L("left"), L("right")>>)>>),
              N("theme", <<N("row", <<L("right"), L("left")>>)>>),
              N("row", <<L("left")>>)},
   left  |-> {L("clock"), N("theme", <<L("clock")>>), L("gauge"), L("meter")},
   right |-> {N("row", <<L("dial"), L("clock")>>), Panic},
   clock |-> {L("dot"), L("dial")},
   dial  |-> {L("dot")}]
MCStarts ==
  {[app |-> N("theme", <<N("row", <<L("left"), L("right")>>)>>),
    left |-> N("theme", <<L("clock")>>), right |-> Panic,
    clock |-> L("dial"), dial |-> L("dot")]}
MCHandlers == {"clock"}
MCGlobalKeys == {"g", "h", "k"}
=============================================================================
