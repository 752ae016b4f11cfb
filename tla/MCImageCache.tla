---------------------------- MODULE MCImageCache ----------------------------
(* ImageCache on a small and a large image and one that does not decode. *)
EXTENDS ImageCache

CONSTANTS a, b, bad

MCBytes == [k \in Keys |-> IF k = b THEN 2 ELSE 1]
=============================================================================
