----------------------------- MODULE FileTree -----------------------------
(***************************************************************************)
(* What a user of the shell may expect of files and directories: a tree    *)
(* that starts with the directory ROOT, in which a command changes the one *)
(* name it is given, and cat and ls show what was written and created.     *)
(* The tree lives as long as the machine runs.                             *)
(***************************************************************************)
EXTENDS Integers, Sequences

CONSTANTS
  ROOT,        \* the directory every path starts with
  DirNames,    \* names of directories
  FileNames,   \* names of files
  Contents     \* what a file may hold, the empty sequence included

VARIABLES
  tree,        \* path -> the data of a file, <<>> for a directory
  cwd,         \* the directory commands work in
  out          \* what the last command answered

vars == <<tree, cwd, out>>

Nothing == [x \in {} |-> <<>>]
Done == [done |-> TRUE]
NoSuch == [done |-> FALSE]

Off == cwd = <<>> /\ out = Done /\ tree = Nothing

Init == Off

Boot ==
  /\ Off
  /\ tree' = [p \in {<<ROOT>>} |-> <<>>]
  /\ cwd' = <<ROOT>>
  /\ out' = Done

(* The machine is switched off, or stops because its disk is full. *)
Stop ==
  /\ cwd' = <<>> /\ out' = Done /\ tree' = Nothing

Here(n) == Append(cwd, n)
Exists(n) == Here(n) \in DOMAIN tree

Create(n) ==
  /\ cwd # <<>> /\ UNCHANGED cwd
  /\ out' = Done
  /\ ~Exists(n)
  /\ tree' = [p \in DOMAIN tree \cup {Here(n)} |-> IF p = Here(n) THEN <<>> ELSE tree[p]]

(* A name that is not there is answered with NoSuch and changes nothing. *)
Refuse(n) ==
  /\ cwd # <<>> /\ UNCHANGED cwd
  /\ out' = NoSuch
  /\ ~Exists(n)
  /\ UNCHANGED tree

Write(n, d) ==
  /\ UNCHANGED cwd
  /\ out' = Done
  /\ Exists(n)
  /\ tree' = [tree EXCEPT ![Here(n)] = d]

Cat(n) ==
  /\ UNCHANGED cwd
  /\ DOMAIN out' = {"shown"}
  /\ Exists(n)
  /\ out'.shown = tree[Here(n)]
  /\ UNCHANGED tree

Parent(p) == SubSeq(p, 1, Len(p) - 1)
Children(dir) == {p \in DOMAIN tree : Len(p) > 1 /\ Parent(p) = dir}

IsListing(answer, dir) ==
  /\ DOMAIN answer = {"listed"}
  /\ answer.listed = {p[Len(p)] : p \in Children(dir)}

Ls ==
  /\ cwd # <<>> /\ UNCHANGED cwd
  /\ IsListing(out', cwd)
  /\ UNCHANGED tree

LsIn(n) ==
  /\ UNCHANGED cwd
  /\ IsListing(out', Here(n))
  /\ Exists(n)
  /\ UNCHANGED tree

Cd(n) ==
  /\ cwd' = Here(n)
  /\ out' = Done
  /\ Exists(n)
  /\ UNCHANGED tree

CdUp ==
  /\ Len(cwd) > 1
  /\ cwd' = Parent(cwd)
  /\ out' = Done
  /\ UNCHANGED tree

Next ==
  \/ Boot \/ Stop \/ Ls \/ CdUp
  \/ \E n \in DirNames : Create(n) \/ Refuse(n) \/ Cd(n) \/ LsIn(n)
  \/ \E n \in FileNames :
       Create(n) \/ Refuse(n) \/ Cat(n) \/ \E d \in Contents : Write(n, d)

Spec == Init /\ [][Next]_vars
=============================================================================
