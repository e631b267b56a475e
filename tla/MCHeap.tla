------------------------------ MODULE MCHeap ------------------------------
(***************************************************************************)
(* A small arena with its bytes for TLC.                                   *)
(***************************************************************************)
EXTENDS HeapMemory

(* Sizes from the empty request over the largest that fits in the arena to *)
(* one that does not.                                                      *)
SmallRequests == {0, 1, 3, 8, 9}
OneStamp == {"x"}
=============================================================================
