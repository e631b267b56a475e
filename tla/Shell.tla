------------------------------- MODULE Shell -------------------------------
(***************************************************************************)
(* The commands of kmain (Kernel/kernel.c) on the file system: cf, cdir,   *)
(* write, cat, cd, cd .. and ls.  A command runs to its end before the     *)
(* next one is read.  The power may go between commands and between any    *)
(* two writes to the disk within one.  A command names a single name of a  *)
(* path.                                                                   *)
(***************************************************************************)
EXTENDS FileSystem

CONSTANTS
  Contents,   \* what is typed at the prompt of write
  OtherPaths  \* where load_shell, or other code of the kernel, creates a file

ASSUME ShellAssumption == Contents \subseteq Seq(Bytes) /\ OtherPaths \subseteq Seq(Names)

VARIABLES
  path,   \* the current directory
  out     \* what the last command answered

vars == <<fsVars, path, out>>

Done == [done |-> TRUE]
NoSuch == [done |-> FALSE]

Init == Is(EmptyDisk) /\ path = <<>> /\ out = Done

(***************************************************************************)
(* The machine                                                             *)
(***************************************************************************)
Off ==
  /\ mode' = "off"
  /\ root' = NoRoot
  /\ root_entries' = 0
  /\ was_root_read' = FALSE
  /\ path' = <<>>
  /\ out' = Done

Boot ==
  /\ mode = "off"
  /\ Becomes(Booted(Now))
  /\ path' = IF mode' = "shell" THEN <<ROOT>> ELSE <<>>
  /\ UNCHANGED out

SwitchOff ==
  /\ mode = "shell"
  /\ Off
  /\ UNCHANGED disk

(* The power goes after one of the writes of a call that would lead to s.  *)
PowerFails(s) ==
  /\ mode = "shell"
  /\ \E k \in DOMAIN s.writes :
       /\ fat' = s.writes[k].fat
       /\ data' = s.writes[k].data
       /\ diskRoot' = s.writes[k].diskRoot
  /\ Off

(***************************************************************************)
(* Commands                                                                *)
(***************************************************************************)
Here(n) == Append(path, n)

Look(p) == Navigate(Loaded(Now), p)

(* A command that only looks something up. *)
Answer(a) ==
  /\ out' = a
  /\ Becomes(Loaded(Now))

(* The command looks something up that is none of the file system's.       *)
Strays(end) ==
  /\ mode = "shell"
  /\ IsStray(end)
  /\ Becomes(Astray(Loaded(Now), end))
  /\ UNCHANGED <<path, out>>

(* A command at the prompt, after its lookup. *)
Looked(end) == mode = "shell" /\ ~IsStray(end)

(* A call of the kernel that answers nothing. *)
Call(s) ==
  /\ mode = "shell"
  /\ Becomes(s)
  /\ UNCHANGED <<path, out>>

(* cf and cdir *)
Create(n) ==
  /\ mode = "shell"
  /\ Becomes(Created(Now, n, path))
  /\ out' = IF mode' = "shell" THEN Done ELSE out
  /\ UNCHANGED path

(* create_file from elsewhere in the kernel: load_shell puts its file in   *)
(* the root directory.  The bound: the root directory has room for it.     *)
CreateElsewhere(n, p) ==
  /\ root_entries < ROOT_ENTRIES
  /\ Call(Created(Now, n, p))

File(n) == FileAt(Loaded(Now), Here(n))
LookFile(n) == FileEnd(Loaded(Now), Here(n))

Write(n, d) ==
  \/ Strays(LookFile(n))
  \/ /\ Looked(LookFile(n))
     /\ File(n) # NoFile
     /\ Becomes(Written(Now, Here(n), d))
     /\ out' = Done
     /\ UNCHANGED path

WriteRefused(n) ==
  /\ Looked(LookFile(n))
  /\ File(n) = NoFile
  /\ Answer(NoSuch)
  /\ UNCHANGED path

Cat(n) ==
  \/ Strays(LookFile(n))
  \/ /\ Looked(LookFile(n))
     /\ Answer(IF File(n) = NoFile THEN NoSuch ELSE [shown |-> TextOf(File(n))])
     /\ UNCHANGED path

Cd(n) ==
  /\ Len(path) < MaxDepth
  /\ \/ Strays(Look(Here(n)).end)
     \/ /\ Looked(Look(Here(n)).end)
        /\ IF Current(Look(Here(n))) # NoFile
           THEN path' = Here(n) /\ Answer(Done)
           ELSE UNCHANGED path /\ Answer(NoSuch)

CdUp ==
  /\ mode = "shell"
  /\ path # <<ROOT>>
  /\ path' = Front(path)
  /\ out' = Done
  /\ UNCHANGED fsVars

(* ls of the current directory (p = path), or of one in it. *)
Ls(p) ==
  LET dir == Current(Look(p))
  IN  \/ Strays(Look(p).end)
      \/ /\ Looked(Look(p).end)
         /\ Answer(IF dir = NoFile THEN NoSuch ELSE [listed |-> NamesIn(dir)])
         /\ UNCHANGED path

(***************************************************************************)
(* Two users                                                               *)
(***************************************************************************)
Machine == Boot \/ SwitchOff

(* Types any command with any name. *)
AnyCommand ==
  \/ CdUp
  \/ Ls(path)
  \/ \E n \in Names :
       \/ Create(n) \/ WriteRefused(n) \/ Cat(n) \/ Cd(n) \/ Ls(Here(n))
       \/ PowerFails(Created(Now, n, path))
       \/ \E d \in Contents :
            Write(n, d) \/ (Looked(LookFile(n)) /\ PowerFails(Written(Now, Here(n), d)))
       \/ \E p \in OtherPaths : CreateElsewhere(n, p)

CurrentDir == Current(Look(path))

(* Keeps the limits of this file system: gives files a name with an        *)
(* extension (but not eight letters and an extension) and directories one  *)
(* without, does not use a name twice, keeps files and directories within  *)
(* a cluster, and below ROOT enters and lists only directories that are    *)
(* there.                                                                  *)
CarefulCommand ==
  \/ CdUp
  \/ Ls(path)
  \/ \E n \in Names \ Misread :
       /\ mode = "shell"
       /\ n \notin NamesIn(CurrentDir) /\ CurrentDir.size < CLUSTER_SIZE
       /\ Create(n)
  \/ \E n \in FileNames :
       \/ WriteRefused(n) \/ Cat(n)
       \/ \E d \in Contents : Len(d) < CLUSTER_SIZE /\ Write(n, d)
  \/ \E n \in DirNames :
       /\ mode = "shell"
       /\ Len(path) = 1 \/ n \in NamesIn(CurrentDir)
       /\ Cd(n) \/ Ls(Here(n))

Spec == Init /\ [][Machine \/ AnyCommand]_vars

CarefulSpec == Init /\ [][Machine \/ CarefulCommand]_vars

(***************************************************************************)
(* Properties                                                              *)
(***************************************************************************)
Units == Inode \cup Bytes \cup {Zero, Junk}

(* The type invariant: the disk, the root buffer and the prompt.           *)
TypeOK ==
  /\ fat \in [Clusters -> {0, EOC}]
  /\ DOMAIN data = Clusters
  /\ \A c \in Clusters : data[c] \in [1..CLUSTER_SIZE -> Units]
  /\ root \in [1..ROOT_ENTRIES -> Units]
  /\ diskRoot \in [1..ROOT_ENTRIES -> Units]
  /\ root_entries \in 0..ROOT_ENTRIES
  /\ was_root_read \in BOOLEAN
  /\ mode \in {"off", "shell", "full", "forged", "overrun", "nullfile"}
  /\ path \in Seq(Names)

(* No cluster of the FAT and the disk is handed out twice, whatever is     *)
(* typed and however often the machine is rebooted, up to a lookup that    *)
(* finds what is no entry (text written over a directory, freed or foreign *)
(* memory): an entry that any sector or buffer still holds has a cluster   *)
(* the FAT marks as used, and two entries with one cluster are copies of   *)
(* the same file.                                                          *)
OneOwner ==
  \A u, v \in EveryEntry :
    /\ fat[u.cluster] = EOC
    /\ u.cluster = v.cluster => u.name = v.name

Tree == INSTANCE FileTree
          WITH tree <- IF mode = "shell" THEN OnDisk ELSE [p \in {} |-> <<>>],
               cwd  <- IF mode \in {"off", "full"} THEN <<>> ELSE path,
               out  <- IF mode = "shell" THEN out ELSE Done

(* For a user who keeps the limits, the chain of sectors, entries and      *)
(* sizes on the disk is a tree of files: a command changes the one name it *)
(* is given and no other, cat shows what was last written there, ls what   *)
(* was created there, at every depth and from every current directory.  No *)
(* lookup of such a user strays, and no NULL inode is used.                *)
IsFileTree == Tree!Spec

(* While the machine runs no cluster leaks: the clusters that no path from *)
(* ROOT leads to are those that were lost at a reboot.                     *)
NoLeak ==
  [][mode = "shell" /\ mode' = "shell" =>
       Lost' = Lost]_vars

(***************************************************************************)
(* What the comments, the help text and the messages of the program say of *)
(* any user, and what the runs that type any command refute.               *)
(***************************************************************************)

(* find_file returns "the file node if it exists, or NULL, if it doesn't". *)
LookupsEnd == mode # "overrun"

(* fat_resize_file resizes "the clusters holding a file": as many clusters *)
(* as its size takes.  A chain has one, as every used cluster is an EOC.   *)
ClustersHoldFile == mode = "shell" => \A pe \in Reached : pe[2].size <= CLUSTER_SIZE

(* init_fs initializes the root directory "if" it was not initialised yet. *)
RootSurvivesBoot ==
  [][mode = "off" /\ IsInode(diskRoot[1]) => diskRoot'[1] = diskRoot[1]]_vars
=============================================================================
