------------------------------- MODULE Files -------------------------------
(***************************************************************************)
(* The calls of the file system on paths, made in any order by a client    *)
(* that keeps a record of what they should have left: create_file,         *)
(* create_directory, write_file, rename_file, copy_file, move_file, cat    *)
(* and delete_file.                                                        *)
(***************************************************************************)
EXTENDS FileCalls, FiniteSets

CONSTANTS
  Contents    \* what is written to files

(* There is a cluster for the directory kmain creates, and find_file finds *)
(* every name.                                                             *)
ASSUME FilesAssumption == Contents \subseteq Seq(Bytes) /\ Clusters # {} /\ Misread = {}

VARIABLES
  files       \* the record: path -> the text of a file, <<>> for a directory

vars == <<fsVars, files>>

Init ==
  /\ Is(Booted(EmptyDisk))
  /\ files = [p \in {<<ROOT>>} |-> <<>>]

(* A call that leads to the state s, and should leave the files f.  One    *)
(* that finds no free cluster is not followed.                             *)
Call(s, f) ==
  /\ mode = "shell"
  /\ Becomes(s)
  /\ files' = IF mode' = "shell" THEN f ELSE files

(***************************************************************************)
(* What the client knows                                                   *)
(***************************************************************************)
Paths == DOMAIN files
FilePaths == {p \in Paths : Last(p) \in FileNames}
DirPaths == {p \in Paths : Last(p) \in DirNames}

Children(dir) == {p \in Paths : Len(p) > 1 /\ Front(p) = dir}

With(f, p, text) == [q \in DOMAIN f \cup {p} |-> IF q = p THEN text ELSE f[q]]
Without(f, p) == [q \in DOMAIN f \ {p} |-> f[q]]

(* The directory has room for one more entry, and does not have this one. *)
Takes(dir, n) ==
  /\ Len(dir) < MaxDepth
  /\ Cardinality(Children(dir)) < CLUSTER_SIZE
  /\ Append(dir, n) \notin Paths

(* remove_dir_entry leaves the right entries if the name is the first of   *)
(* at most two.                                                            *)
Removable(p) ==
  /\ Cardinality(Children(Front(p))) <= 2
  /\ Directory(Loaded(Now), Front(p), Last(p)).at = 1

(* The size in the entry is that of the text: it is not after a cat. *)
Settled(p) == FileAt(Loaded(Now), p).size = Len(files[p])

(***************************************************************************)
(* The calls.  Their guards are the limits that hold for this file system: *)
(* rename needs a new name no part of which is shorter than the old one's, *)
(* cat a file that is not empty and has room for the text, and a copy does *)
(* not take what a cat has added.                                          *)
(***************************************************************************)
Create(dir, n) ==
  /\ dir \in DirPaths /\ Takes(dir, n)
  /\ Call(Created(Now, n, dir), With(files, Append(dir, n), <<>>))

Write(p, d) ==
  /\ p \in FilePaths
  /\ Len(d) < CLUSTER_SIZE
  /\ Call(Written(Now, p, d), With(files, p, d))

Rename(p, n) ==
  /\ p \in FilePaths /\ n \in FileNames
  /\ <<n, Last(p)>> \in Covers
  /\ Append(Front(p), n) \notin Paths
  /\ Call(Renamed(Now, p, n), With(Without(files, p), Append(Front(p), n), files[p]))

Copy(p, dir) ==
  /\ p \in FilePaths /\ dir \in DirPaths
  /\ Takes(dir, Last(p)) /\ Settled(p)
  /\ Call(Copied(Now, p, dir), With(files, Append(dir, Last(p)), files[p]))

Move(p, dir) ==
  /\ p \in FilePaths /\ dir \in DirPaths
  /\ Takes(dir, Last(p)) /\ Removable(p) /\ Settled(p)
  /\ Call(Moved(Now, p, dir), Without(With(files, Append(dir, Last(p)), files[p]), p))

Concatenate(dst, src) ==
  /\ {dst, src} \subseteq FilePaths
  /\ files[dst] # <<>> \/ files[src] = <<>>
  /\ Len(files[dst] \o files[src]) < CLUSTER_SIZE
  /\ Settled(dst) /\ Settled(src)
  /\ Call(Concatenated(Now, dst, src), With(files, dst, files[dst] \o files[src]))

(* A file, or a directory with nothing in it. *)
Delete(p) ==
  /\ p \in Paths \ {<<ROOT>>} /\ Children(p) = {}
  /\ Removable(p)
  /\ Call(Deleted(Now, p), Without(files, p))

DeleteAny(p) ==
  /\ p \in FilePaths
  /\ Call(Deleted(Now, p), Without(files, p))

Next ==
  \E p \in Paths :
    \/ \E n \in Names : Create(p, n) \/ Rename(p, n)
    \/ \E d \in Contents : Write(p, d)
    \/ \E q \in Paths : Copy(p, q) \/ Move(p, q) \/ Concatenate(p, q)
    \/ Delete(p)

Spec == Init /\ [][Next]_vars

(* A client that deletes whichever file it likes. *)
AnyDeleteSpec == Init /\ [][Next \/ \E p \in Paths : DeleteAny(p)]_vars

(***************************************************************************)
(* Properties                                                              *)
(***************************************************************************)
TypeOK ==
  /\ fat \in [Clusters -> {0, EOC}]
  /\ \A c \in Clusters : DOMAIN data[c] = 1..CLUSTER_SIZE
  /\ root_entries \in 0..ROOT_ENTRIES
  /\ mode \in {"shell", "full"}
  /\ \A p \in Paths : files[p] \in Seq(Bytes)

(* Within the limits, whatever calls are made in whatever order, the       *)
(* directories, sizes and sectors on the disk amount to the files and      *)
(* texts the calls should have left.                                       *)
AsCalled == OnDisk = files

(* Each file and directory has one cluster that is marked in the FAT, no   *)
(* two have the same, and no other cluster is marked: delete, move and     *)
(* rename neither leak clusters nor free those of others.                  *)
OwnCluster ==
  LET entries == {pe[2] : pe \in Reached}
  IN  /\ {c \in Clusters : fat[c] # 0} = {e.cluster : e \in entries}
      /\ Cardinality({e.cluster : e \in entries}) = Cardinality(Paths)

(* remove_dir_entry is to "Remove a given entry name from a given file":   *)
(* the files that were not deleted are still there.                        *)
OthersStay == Paths \subseteq DOMAIN OnDisk
=============================================================================
