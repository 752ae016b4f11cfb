-------------------------------- MODULE Lists --------------------------------
(***************************************************************************)
(* Walks over lists, written as recursive functions so that what they give *)
(* can be proved for lists of any length.                                  *)
(***************************************************************************)
EXTENDS Sequences, Naturals

\* The items of a list that are in S, in their order: Vec::retain, filter.
Only(list, S) ==
  LET upTo[n \in 0..Len(list)] ==
        IF n = 0 THEN <<>>
        ELSE IF list[n] \in S THEN Append(upTo[n - 1], list[n]) ELSE upTo[n - 1]
  IN  upTo[Len(list)]
=============================================================================
