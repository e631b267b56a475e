------------------------------ MODULE MCShell ------------------------------
(***************************************************************************)
(* Names, contents and a disk small enough that a directory fills its      *)
(* cluster, a file outgrows its own, and the disk fills up.                *)
(***************************************************************************)
EXTENDS Shell

CONSTANTS dosi, sub, txt1, txt2, byte1

(* Nothing, less than a cluster, a cluster, and more than one. *)
SmallContents == {<<>>, <<byte1>>, <<byte1, byte1>>, <<byte1, byte1, byte1>>}

(* For the user who types anything, a file with nothing in it and one that *)
(* is larger than a cluster.                                               *)
FewContents == {<<>>, <<byte1, byte1, byte1>>}

NoPaths == {}
(* The root directory, and a directory that need not be there. *)
TwoPaths == {<<>>, <<dosi, sub, sub>>}
=============================================================================
