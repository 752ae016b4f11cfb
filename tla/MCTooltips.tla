----------------------------- MODULE MCTooltips -----------------------------
(* Tooltips with one that answers long presses and one that answers taps.  *)
EXTENDS Tooltips

CONSTANTS a, b

MCMode == [t \in Tips |-> IF t = a THEN "longPress" ELSE "tap"]
MCWait == [t \in Tips |-> 2]
MCStay == [t \in Tips |-> 2]
MCLinger == [t \in Tips |-> IF t = a THEN 2 ELSE 0]
=============================================================================
