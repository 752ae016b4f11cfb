------------------------------ MODULE MCFocus ------------------------------
EXTENDS Focus

CONSTANTS a, b, c, name, reason, sure

\* Two pages: they share a field, at another place in each, and one has a field
\* that asks for the keyboard when it comes.  A dialog whose second field asks
\* for it, and another with one field.
MCPages == {<<a, b>>, <<c, a>>}
MCDialogFields == [rename |-> <<name, reason>>, confirm |-> <<sure>>]
MCDialogs == {"rename", "confirm"}
=============================================================================
