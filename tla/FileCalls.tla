----------------------------- MODULE FileCalls -----------------------------
(***************************************************************************)
(* The calls of Kernel/fs/fs.c that no command of the shell makes:         *)
(* delete_file, rename_file, copy_file, move_file and cat.                 *)
(***************************************************************************)
EXTENDS FileSystem

CONSTANTS
  Covers,      \* pairs <<m, n>>: neither part of m is shorter than that of n
  EOC_ENTRY    \* the entry of root_buffer where the FAT's entry EOC would be

ASSUME FileCallsAssumption ==
  /\ Covers \subseteq Names \X Names
  /\ EOC_ENTRY \in Nat \ {0, 1}

Largest(S) == CHOOSE x \in S : \A y \in S : x >= y

(***************************************************************************)
(* delete_file                                                             *)
(***************************************************************************)

(* The FAT has 65,280 entries, EOC is 65,528, and root_buffer is the next  *)
(* block of the heap: the write that was to end the chain clears the size  *)
(* (its lower half) of the 22nd entry there.                               *)
Struck(rt) ==
  [i \in DOMAIN rt |-> IF i = EOC_ENTRY /\ IsInode(rt[i]) THEN [rt[i] EXCEPT !.size = 0] ELSE rt[i]]

(* The mistake: the cluster stays marked. *)
FatDeleteNot(s, f) == s

(* fat_delete_file.  A chain has one cluster. *)
FatDelete(s, f) ==
  IF f = NoFile THEN s
  ELSE Stored([s EXCEPT !.fat[f.cluster] = 0, !.root = Struck(s.root)])

(* The entries remove_dir_entry keeps of a directory.  For an entry it     *)
(* keeps it moves two entries on instead of one, and it never moves on in  *)
(* the new buffer: the first place has the last entry kept.                *)
KeptEntries(old, size, n) ==
  LET unit(i) == IF i <= Len(old) THEN old[i] ELSE Junk
      kept(i) == ~(IsInode(unit(i)) /\ unit(i).name = n)
      at[k \in 0..size] == IF k = 0 THEN 1 ELSE IF kept(at[k - 1]) THEN at[k - 1] + 2 ELSE at[k - 1] + 1
      copied  == {k \in 0..size - 1 : kept(at[k])}
  IN  [i \in 1..size - 1 |-> IF i = 1 /\ copied # {} THEN unit(at[Largest(copied)]) ELSE Zero]

RemoveDirEntry(s, p, n) ==
  LET nav  == Navigate(s, p)
      dir  == Current(nav)
      size == SizeOf(s, dir)
      rest == KeptEntries(ReadFile(s, dir), size, n)
  IN  IF IsStray(nav.end) THEN Astray(s, nav.end)
      ELSE IF size = 0 THEN s
      ELSE IF dir = NoFile THEN [EditFile(s, NoFile, rest, size - 1) EXCEPT !.entries = @ - 1]
      ELSE EditDirectory(s, nav, p, rest)

Deleted(s0, p) ==
  LET s   == Loaded(s0)
      dir == Directory(s, Front(p), Last(p))
  IN  IF IsStray(dir.end) THEN Astray(s, dir.end)
      ELSE RemoveDirEntry(FatDelete(s, Entry(dir.buffer, dir.at)), Front(p), Last(p))

(***************************************************************************)
(* rename_file.  The new name is copied over the old one, which stays      *)
(* where the new one is shorter.                                           *)
(***************************************************************************)
Overlaid(old, new) == IF <<new, old>> \in Covers THEN new ELSE [name |-> new, tail |-> old]

Renamed(s0, p, new) ==
  LET s   == Loaded(s0)
      dir == Directory(s, Front(p), Last(p))
      edited == [dir.buffer EXCEPT ![dir.at].name = Overlaid(@, new)]
  IN  IF IsStray(dir.end) THEN Astray(s, dir.end)
      ELSE IF dir.at = 0 THEN NullFile(s)
      ELSE EditFile(s, dir.file, edited, SizeOf(s, dir.file))

(***************************************************************************)
(* copy_file and move_file.  The data is read once the new file is there.  *)
(***************************************************************************)
Then(s, result) == IF s.mode = "shell" THEN result ELSE s

Copied(s0, p, q) ==
  LET s == Loaded(s0)
      f == FileAt(s, p)
      c == Created(s, f.name, q)
  IN  IF IsStray(FileEnd(s, p)) THEN Astray(s, FileEnd(s, p))
      ELSE IF f = NoFile THEN NullFile(s)
      ELSE Then(c, Written(c, Append(q, f.name), Content(c, f)))

Moved(s0, p, q) ==
  LET c == Copied(s0, p, q)
  IN  Then(c, Deleted(c, p))

(***************************************************************************)
(* cat: the file dst gets the data of src appended.  Its entry keeps the   *)
(* size it had, as the directory of dst is not written.                    *)
(***************************************************************************)
Concatenated(s0, dst, src) ==
  LET s    == Loaded(s0)
      from == Directory(s, src, Last(src))
      to   == Directory(s, dst, Last(dst))
      f    == Entry(from.buffer, from.at)
  IN  IF IsStray(from.end) THEN Astray(s, from.end)
      ELSE IF IsStray(to.end) THEN Astray(s, to.end)
      ELSE IF f = NoFile THEN NullFile(s)
      ELSE CatFile(s, Entry(to.buffer, to.at), Content(s, f))
=============================================================================
