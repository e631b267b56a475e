------------------------------ MODULE Library ------------------------------
(***************************************************************************)
(* The functions of the kernel that work on their arguments alone.  A      *)
(* behaviour is one call of one of them.                                   *)
(***************************************************************************)
EXTENDS Utils, Printf

libraryVars == <<vars, printfVars>>

NoPrintf ==
  /\ format = <<>> /\ words = <<>> /\ fmt = <<>>
  /\ state = "normal" /\ length = <<>> /\ argp = 1 /\ out = <<>>

NoUtils ==
  /\ before = [a \in Addresses |-> 0] /\ mem = before
  /\ args = [fn |-> "none", dst |-> 0, src |-> 0, n |-> 0] /\ job = Memset(0, 0, 0)
  /\ k = 0 /\ done = TRUE

LibraryInit == (Init /\ NoPrintf) \/ (PrintfInit /\ NoUtils)

LibraryNext ==
  \/ Next /\ UNCHANGED printfVars
  \/ PrintfNext /\ UNCHANGED vars

LibrarySpec == LibraryInit /\ [][LibraryNext]_libraryVars
=============================================================================
