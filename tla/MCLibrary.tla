----------------------------- MODULE MCLibrary -----------------------------
(***************************************************************************)
(* Every memory of a few bytes, and every format of two parts over the     *)
(* words at the ends of their types.  The second of two parts begins at    *)
(* word 1, 2, 3 or 5 and takes at most two: any three words in a row are   *)
(* any three.                                                              *)
(***************************************************************************)
EXTENDS Library

CONSTANT Words

MCStacks ==
  {[i \in 1..4 * MaxParts |-> w[((i - 1) % 3) + 1]] : w \in [1..3 -> Words]}
=============================================================================
