----------------------------- MODULE MCConsole -----------------------------
(***************************************************************************)
(* A screen small enough that a line wraps, scrolls and fills it.          *)
(***************************************************************************)
EXTENDS Console
=============================================================================
