---------------------------- MODULE FileSystem ----------------------------
(***************************************************************************)
(* The file system of Kernel/fs/fs.c: a FAT, a root directory with its     *)
(* buffer, and directories that are files of entries.                      *)
(*                                                                         *)
(* Space is counted in units of one directory entry.  A unit of a sector   *)
(* holds an entry, a byte of a file, or Zero; an entry is its name, first  *)
(* cluster and size (its attributes are read only to lay out a listing).   *)
(* fat_buffer is written to the disk by every function that changes it, so *)
(* fat stands for both.  root_buffer is not: root and diskRoot are two     *)
(* variables and was_root_read says whether the buffer is in use.          *)
(*                                                                         *)
(* A path is the sequence of its names.  navigate_dir tells names with an  *)
(* extension (FileNames) from names without one (DirNames) and nothing     *)
(* else.                                                                   *)
(*                                                                         *)
(* A function of fs.c maps the state s it is called in to the one it       *)
(* returns in.  s.writes lists what the disk held after each write on the  *)
(* way, for a power failure that cuts the call short.                      *)
(***************************************************************************)
EXTENDS Integers, Sequences

CONSTANTS
  DirNames, FileNames,
  Misread,       \* names that make_full_filename gives back as another one
  Bytes,         \* what files hold
  CLUSTER_SIZE,  \* units of a cluster; a cluster is a sector
  ROOT_ENTRIES,  \* units of the root directory
  ROOT,          \* "dosi", the directory kmain creates
  MaxDepth,      \* bound: names in a path
  Clusters,      \* from DATA_START on, those with an entry in the FAT and a
                 \* sector on the disk
  EOC,           \* the mark of a used cluster: the last of its file
  NoFile,        \* the NULL of an inode_t*
  Zero,          \* a unit of zeros
  Junk           \* a unit of memory that belongs to something else

ASSUME FileSystemAssumption ==
  /\ CLUSTER_SIZE \in Nat \ {0, 1}
  /\ ROOT_ENTRIES \in Nat /\ ROOT_ENTRIES >= CLUSTER_SIZE
  /\ Clusters \subseteq Nat \ {0}
  /\ EOC # 0
  /\ ROOT \in DirNames
  /\ MaxDepth \in Nat \ {0}
  /\ DirNames \cap FileNames = {}
  /\ Misread \subseteq FileNames
  /\ Zero # Junk /\ {Zero, Junk} \cap Bytes = {}

VARIABLES
  fat,            \* cluster -> 0 or EOC
  data,           \* cluster -> its units on the disk
  root,           \* root_buffer
  diskRoot,       \* the sectors of the root directory on the disk
  root_entries,
  was_root_read,
  mode            \* "off", "shell" (kmain's loop), or where the model ends:
                  \* "full" (the scan for a free cluster has left Clusters),
                  \* "forged" (find_file reads text as an entry), "overrun" (it
                  \* has left its buffer), "nullfile" (a NULL inode is used)

disk == <<fat, data, diskRoot>>
rootBuffer == <<root, root_entries, was_root_read>>
fsVars == <<disk, rootBuffer, mode>>

Now ==
  [fat |-> fat, data |-> data, root |-> root, diskRoot |-> diskRoot,
   entries |-> root_entries, read |-> was_root_read, mode |-> mode, writes |-> <<>>]

Becomes(s) ==
  /\ fat' = s.fat /\ data' = s.data
  /\ root' = s.root /\ diskRoot' = s.diskRoot
  /\ root_entries' = s.entries /\ was_root_read' = s.read
  /\ mode' = s.mode

Is(s) ==
  /\ fat = s.fat /\ data = s.data
  /\ root = s.root /\ diskRoot = s.diskRoot
  /\ root_entries = s.entries /\ was_root_read = s.read
  /\ mode = s.mode

(* The disk has been written. *)
Stored(s) ==
  [s EXCEPT !.writes = Append(@, [fat |-> s.fat, data |-> s.data, diskRoot |-> s.diskRoot])]

Names == DirNames \cup FileNames

(* The name an entry has for make_full_filename.  It ends neither a name   *)
(* of eight letters before its extension nor, in the entry of a directory, *)
(* an extension of three: what follows in the entry becomes a part of the  *)
(* name, and find_file never finds it.                                     *)
NameRead(n) == IF n \in Misread THEN [misread |-> n] ELSE n

Inode == [name : {NameRead(n) : n \in Names}, cluster : Clusters, size : Nat]
IsInode(u) == u \notin Bytes \cup {Zero, Junk}

(* An entry is told from the other units, and from NULL. *)
ASSUME UnitsAssumption == \A u \in Bytes \cup {Zero, Junk, NoFile} : u \notin Inode

Smallest(S) == CHOOSE x \in S : \A y \in S : x <= y

ZeroSector == [i \in 1..CLUSTER_SIZE |-> Zero]

RoundedUp(size) == ((size + CLUSTER_SIZE - 1) \div CLUSTER_SIZE) * CLUSTER_SIZE

(***************************************************************************)
(* The root directory and its buffer                                       *)
(***************************************************************************)

(* entries_to_sectors, in units: it rounds down, but not to 0. *)
RootSectorUnits(e) ==
  IF e > 0 /\ e < CLUSTER_SIZE THEN CLUSTER_SIZE
  ELSE (e \div CLUSTER_SIZE) * CLUSTER_SIZE

(* root_read *)
Loaded(s) ==
  IF s.read \/ s.entries = 0 THEN s
  ELSE [s EXCEPT !.read = TRUE,
                 !.root = [i \in 1..ROOT_ENTRIES |->
                             IF i <= RootSectorUnits(s.entries) THEN s.diskRoot[i] ELSE s.root[i]]]

(* edit_file of the root directory, and root_write.  The sectors written   *)
(* are counted from root_entries, the copy of the buffer from the size.    *)
WithRoot(s, buffer, size) ==
  Stored([s EXCEPT !.read = FALSE,
                   !.diskRoot = [i \in 1..ROOT_ENTRIES |->
                                   IF i > RootSectorUnits(s.entries) THEN @[i]
                                   ELSE IF i \in size + 1..RoundedUp(size) THEN Zero
                                   ELSE IF i <= size /\ i <= Len(buffer) THEN buffer[i]
                                   ELSE Junk]])

(***************************************************************************)
(* Files                                                                   *)
(***************************************************************************)

(* The mistake: the size stays. *)
ResizedNot(f, size) == f

(* fat_resize_file.  It stores the new size before it compares the new     *)
(* with the stored one, so neither the branch that gives a file clusters   *)
(* nor the one that takes them runs: the FAT is written as it was read.    *)
Resized(f, size) == [f EXCEPT !.size = size]

SizeOf(s, f) == IF f = NoFile THEN s.entries ELSE f.size

(* read_file.  A file never has a second cluster (fat_resize_file gives it *)
(* none), so behind the first one the buffer stays as malloc cleared it.   *)
(* No units at all: the NULL of an empty file.                             *)
ReadFile(s, f) ==
  IF f = NoFile THEN SubSeq(s.root, 1, s.entries)
  ELSE [i \in 1..RoundedUp(f.size) |-> IF i <= CLUSTER_SIZE THEN s.data[f.cluster][i] ELSE Zero]

Content(s, f) == SubSeq(ReadFile(s, f), 1, SizeOf(s, f))

(* The mistake: the rest of the sector is not cleared. *)
SectorUncleared(buffer, size) ==
  [i \in 1..CLUSTER_SIZE |-> IF i <= Len(buffer) THEN buffer[i] ELSE Junk]

(* What write_file_data leaves in the first cluster of the file.  It sends *)
(* the units behind the first cluster to the sector with the number EOC.   *)
Sector(buffer, size) ==
  [i \in 1..CLUSTER_SIZE |->
     IF i > size THEN Zero ELSE IF i <= Len(buffer) THEN buffer[i] ELSE Junk]

(* edit_file, with write_file_data *)
EditFile(s, f, buffer, size) ==
  IF f = NoFile THEN WithRoot(s, buffer, size)
  ELSE IF size = 0 THEN s
  ELSE Stored([s EXCEPT !.data[f.cluster] = Sector(buffer, size)])

(* cat_file *)
CatFile(s, f, units) ==
  LET content == Content(s, f) \o units
      grown   == IF f = NoFile THEN [s EXCEPT !.entries = @ + 1] ELSE s
  IN  EditFile(grown, f, content, Len(content))

(* find_file: the place of the first entry with that name, 0 for NULL.     *)
Find(buffer, size, n) ==
  LET hits == {i \in 1..Len(buffer) : i <= size /\ IsInode(buffer[i]) /\ buffer[i].name = n}
  IN  IF hits = {} THEN 0 ELSE Smallest(hits)

(* On its way there it takes every unit for an entry, text and leftover    *)
(* memory too, and may find the name in it.                                *)
ReadsText(buffer, size, n) ==
  LET hit == Find(buffer, size, n)
  IN  \E i \in 1..Len(buffer) :
        /\ buffer[i] \in Bytes \cup {Junk}
        /\ i <= size /\ (hit = 0 \/ i < hit)

(* How a lookup ends that finds what is no entry of the file system. *)
IsStray(end) == end \in {"forged", "overrun"}

Entry(buffer, at) == IF at = 0 THEN NoFile ELSE buffer[at]

(***************************************************************************)
(* navigate_dir.  holder is the buffer current_file points into (at its    *)
(* place at), buffer the one that was read last.  From the third name on   *)
(* holder has been freed, and free has filled it with 0xDD, when the size  *)
(* of the directory is read from it.  That is more than any buffer holds,  *)
(* and find_file runs past the end of its buffer unless it finds the name. *)
(***************************************************************************)
Current(nav) == Entry(nav.holder, nav.at)

NavigateStep(s, nav, p, i) ==
  LET size == IF nav.at # 0 /\ i > 2 THEN Len(nav.buffer) + 1 ELSE SizeOf(s, Current(nav))
      hit  == Find(nav.buffer, size, p[i])
  IN  IF nav.end # "open" THEN nav
      ELSE IF p[i] \in FileNames THEN [nav EXCEPT !.end = "file"]
      ELSE IF ReadsText(nav.buffer, size, p[i]) THEN [nav EXCEPT !.end = "forged"]
      ELSE IF hit = 0 /\ size > Len(nav.buffer) THEN [nav EXCEPT !.end = "overrun"]
      ELSE [nav EXCEPT !.at = hit, !.holder = nav.buffer, !.inRoot = (i = 1),
                       !.buffer = IF i = Len(p) THEN nav.buffer
                                  ELSE ReadFile(s, Entry(nav.buffer, hit))]

Navigate(s, p) ==
  LET after[i \in 0..Len(p)] ==
        IF i = 0
        THEN [at |-> 0, holder |-> s.root, buffer |-> s.root, inRoot |-> TRUE, end |-> "open"]
        ELSE NavigateStep(s, after[i - 1], p, i)
  IN  after[Len(p)]

Front(p) == SubSeq(p, 1, Len(p) - 1)
Last(p) == p[Len(p)]

(* The directory nav has found, the copy of its entries that a call works  *)
(* on, the place of a name in it, and how the lookup of both ends.         *)
LookedIn(s, nav, n) ==
  LET dir    == Current(nav)
      buffer == ReadFile(s, dir)
      size   == SizeOf(s, dir)
  IN  [nav |-> nav, file |-> dir, buffer |-> buffer, at |-> Find(buffer, size, n),
       end |-> IF ~IsStray(nav.end) /\ ReadsText(buffer, size, n) THEN "forged" ELSE nav.end]

Directory(s, p, n) == LookedIn(s, Navigate(s, p), n)

(* navigate_file: the file of a path is the directory navigate_dir found,  *)
(* or an entry of it.                                                      *)
IsDirectory(dir, p) == dir.file # NoFile /\ (Last(p) \notin FileNames \/ Len(p) = 1)

FileAt(s, p) ==
  LET dir == Directory(s, p, Last(p))
  IN  IF IsDirectory(dir, p) THEN dir.file ELSE Entry(dir.buffer, dir.at)

FileEnd(s, p) ==
  LET dir == Directory(s, p, Last(p))
  IN  IF IsDirectory(dir, p) THEN dir.nav.end ELSE dir.end

(* What a call does with a stray lookup is not followed. *)
Astray(s, end) == [s EXCEPT !.mode = end]
NullFile(s) == [s EXCEPT !.mode = "nullfile"]

(***************************************************************************)
(* create_file and create_directory                                        *)
(***************************************************************************)
(* fat_find_free_cluster looks at them first. *)
FreeClusters(s) == {c \in Clusters : s.fat[c] = 0}

(* The mistake: the cluster is linked to itself. *)
InitFirstClusterSelf(s, c) == Stored([s EXCEPT !.fat[c] = c])

(* The mistake: the cluster is marked in the buffer and not on the disk. *)
InitFirstClusterUnmarked(s, c) == s

(* init_first_cluster: the cluster is marked, and the FAT written. *)
InitFirstCluster(s, c) == Stored([s EXCEPT !.fat[c] = EOC])

(* The directory nav found at path p gets a new content.  Its new size is  *)
(* in the buffer that holds its entry, and that buffer is written to its   *)
(* own directory.  The lookup of the parent finds every name again that    *)
(* nav has just found.                                                     *)
EditDirectory(s, nav, p, content) ==
  LET dir    == Resized(Current(nav), Len(content))
      held   == IF nav.inRoot THEN [s EXCEPT !.root[nav.at] = dir] ELSE s
      edited == EditFile(held, dir, content, Len(content))
      buffer == IF nav.end = "file" THEN nav.buffer ELSE [nav.buffer EXCEPT ![nav.at] = dir]
      parent == Current(Navigate(edited, Front(p)))
  IN  EditFile(edited, parent, buffer, SizeOf(edited, parent))

(* enter_file, and the size of the directory *)
Entered(s, file, p) ==
  LET nav == Navigate(s, p)
      dir == Current(nav)
  IN  IF IsStray(nav.end) THEN Astray(s, nav.end)
      ELSE IF dir = NoFile THEN CatFile(s, NoFile, <<file>>)
      ELSE EditDirectory(s, nav, p, Append(Content(s, dir), file))

(* create_file.  With none of Clusters free the scan goes on, to sectors   *)
(* the disk does not have and then to memory behind fat_buffer, where a    *)
(* mark is never written to the disk.                                      *)
Created(s, n, p) ==
  IF FreeClusters(s) = {} THEN [s EXCEPT !.mode = "full"]
  ELSE LET c == Smallest(FreeClusters(s))
       IN  Entered(Loaded(InitFirstCluster(s, c)), [name |-> NameRead(n), cluster |-> c, size |-> 0], p)

(***************************************************************************)
(* write_file: the file's data, and the entry with its new size in its     *)
(* directory.                                                              *)
(***************************************************************************)
Written(s0, p, d) ==
  LET s   == Loaded(s0)
      dir == Directory(s, p, Last(p))
      f   == dir.buffer[dir.at]
      edited == [dir.buffer EXCEPT ![dir.at] = Resized(f, Len(d))]
  IN  IF IsStray(dir.end) THEN Astray(s, dir.end)
      ELSE IF dir.at = 0 THEN NullFile(s)
      ELSE EditFile(EditFile(s, f, d, Len(d)), dir.file, edited, SizeOf(s, dir.file))

(***************************************************************************)
(* init_fs: the root directory is forgotten, whatever the disk holds.      *)
(***************************************************************************)
NoRoot == [i \in 1..ROOT_ENTRIES |-> Zero]

EmptyDisk ==
  [fat |-> [c \in Clusters |-> 0], data |-> [c \in Clusters |-> ZeroSector],
   root |-> NoRoot, diskRoot |-> NoRoot, entries |-> 0, read |-> FALSE,
   mode |-> "off", writes |-> <<>>]

(* The start of kmain: init_fs, then create_directory("dosi", NULL, 0).    *)
Booted(s) ==
  Created([s EXCEPT !.root = NoRoot, !.entries = 0, !.read = FALSE, !.mode = "shell"], ROOT, <<>>)

(***************************************************************************)
(* What reading finds: the names ls lists and the text cat prints.         *)
(***************************************************************************)
EntriesOf(units) == {units[i] : i \in {j \in DOMAIN units : IsInode(units[j])}}

Entries(f) == EntriesOf(Content(Loaded(Now), f))

NamesIn(f) == {e.name : e \in Entries(f)}

(* The text up to its first NUL.  A file that fills its last sector has    *)
(* none of its own.                                                        *)
Text(units) ==
  LET ends == {i \in 1..Len(units) : units[i] = Zero}
  IN  IF units = <<>> THEN <<>>
      ELSE IF ends = {} THEN Append(units, Junk)
      ELSE SubSeq(units, 1, Smallest(ends) - 1)

TextOf(f) == Text(ReadFile(Loaded(Now), f))

(* The paths with their entries, from the directory ROOT down. *)
Within(pe) ==
  IF pe[2].name \in DirNames THEN {<<Append(pe[1], e.name), e>> : e \in Entries(pe[2])} ELSE {}

Reached ==
  LET below[k \in 0..MaxDepth] ==
        {<<<<ROOT>>, Loaded(Now).root[1]>>}
          \cup IF k = 0 THEN {} ELSE UNION {Within(pe) : pe \in below[k - 1]}
  IN  below[MaxDepth]

(* The tree of directories and files that the sectors amount to: path ->   *)
(* the text of a file, <<>> for a directory.                               *)
OnDisk ==
  LET reached == Reached
      file(p) == (CHOOSE pe \in reached : pe[1] = p)[2]
  IN  [p \in {pe[1] : pe \in reached} |->
         IF Last(p) \in DirNames THEN <<>> ELSE TextOf(file(p))]

(* Used clusters that no path leads to. *)
Lost == {c \in Clusters : fat[c] # 0} \ {pe[2].cluster : pe \in Reached}

(* Every entry there is a copy of: in the root directory, in its buffer    *)
(* and in the sectors of all clusters, those nothing leads to any more     *)
(* included.                                                               *)
EveryEntry == EntriesOf(root) \cup EntriesOf(diskRoot) \cup UNION {EntriesOf(data[c]) : c \in Clusters}
=============================================================================
