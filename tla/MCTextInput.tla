---------------------------- MODULE MCTextInput ----------------------------
EXTENDS TextInput

CONSTANTS a, b, x, y, ka, paste

Budget(n, e, ms) == [acts |-> n, enters |-> e, marks |-> ms]

\* A composition while the focus moves, around Enter, and with a keystroke;
\* keystrokes and edits of the program while the focus moves and on Enter.
MCBudgets ==
  {Budget(2, 0, {ka}), Budget(1, 1, {ka}), Budget(1, 0, {x, ka}),
   Budget(3, 1, {x, paste}), Budget(2, 1, {x, y})}
=============================================================================
