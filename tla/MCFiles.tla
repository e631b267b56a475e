------------------------------ MODULE MCFiles ------------------------------
(***************************************************************************)
(* Directories within each other that files move between, texts of one and *)
(* two units, and file names of two lengths.                               *)
(***************************************************************************)
EXTENDS Files

CONSTANTS dosi, txt1, txt2, byte1

SmallContents == {<<byte1>>, <<byte1, byte1>>}

(* txt2 is the longer name. *)
Longer == {<<txt2, txt1>>}
=============================================================================
