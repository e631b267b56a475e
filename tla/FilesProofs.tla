---------------------------- MODULE FilesProofs ----------------------------
(***************************************************************************)
(* The calls of the file system on paths, in whatever order they are made: *)
(* what is on the disk stays the tree the client has a record of, and each *)
(* used cluster that of one of its paths.  A call works on a tidy state of *)
(* TreeProofs, and the lemmas here say which one it leaves.                *)
(***************************************************************************)
EXTENDS Files, TreeProofs, FiniteSetTheorems

(* What sectors and buffers hold. *)
Units == Inode \cup Bytes \cup {Zero, Junk}

(* The state s has a path for every used cluster, and amounts to T. *)
Holds(s, T, ent, place) ==
  /\ IsState(s, Units) /\ Tidy(s, T, ent, place)
  /\ Unreached(s, T, ent) = {}

IsRecord(T) == T = [p \in DOMAIN T |-> T[p]] /\ IsFiniteSet(DOMAIN T)

(* The inductive invariant. *)
FilesInv ==
  /\ mode \in {"shell", "full"}
  /\ IsRecord(files)
  /\ \E ent, place : Holds(Now, files, ent, place)

(* A disk that is full. *)
Filled(s) == [s EXCEPT !.mode = "full"]

LEMMA FilledTidy ==
  ASSUME NEW s, NEW U, IsState(s, U), NEW T, NEW ent, NEW place, Tidy(s, T, ent, place)
  PROVE  /\ IsState(Filled(s), U) /\ Filled(s).mode = "full"
         /\ Tidy(Filled(s), T, ent, place) /\ Unreached(Filled(s), T, ent) = Unreached(s, T, ent)
  <1>1. PICK t : t = Filled(s)
    OBVIOUS
  <1>2. /\ t = [fat |-> s.fat, data |-> s.data, root |-> s.root, diskRoot |-> s.diskRoot,
                entries |-> s.entries, read |-> s.read, mode |-> "full", writes |-> s.writes]
    BY <1>1 DEF IsState, Filled
  <1>3. IsState(t, U)
    BY <1>2 DEF IsState
  <1>4. /\ t.fat = s.fat /\ t.data = s.data /\ t.root = s.root /\ t.diskRoot = s.diskRoot
        /\ t.entries = s.entries /\ t.read = s.read /\ t.mode = "full"
    BY <1>2
  <1>5. RootIs(t, ent[<<ROOT>>])
    BY <1>4 DEF Tidy, Listed, RootIs
  <1>6. \A p \in DOMAIN T : InSectors(t, T, ent, place, p)
    BY <1>4 DEF Tidy, Listed, InSectors
  <1>7. Tidy(t, T, ent, place)
    BY <1>4, <1>5, <1>6 DEF Tidy, Listed, Used
  <1>8. Unreached(t, T, ent) = Unreached(s, T, ent)
    BY <1>4 DEF Unreached
  <1> QED
    BY <1>1, <1>3, <1>4, <1>7, <1>8

(* What a call should leave it does leave, or nothing on a full disk. *)
LEMMA CallKeepsInv ==
  ASSUME NEW t, NEW T, Call(t, T), NEW ent, NEW place,
         \/ t.mode = "shell" /\ Holds(t, T, ent, place) /\ IsRecord(T)
         \/ t.mode = "full" /\ Holds(t, files, ent, place) /\ IsRecord(files)
  PROVE  FilesInv'
  <1>1. IsState(t, Units) /\ Becomes(t)
    BY DEF Holds, Call
  <1>2. Now' = Unwritten(t) /\ mode' = t.mode
    BY <1>1, BecomesNow
  <1>3. PICK T2 : T2 = files' /\ Holds(t, T2, ent, place) /\ IsRecord(T2)
    BY <1>2 DEF Call
  <1>4. Holds(Unwritten(t), T2, ent, place)
    BY <1>3, UnwrittenIs DEF Holds
  <1>5. mode' \in {"shell", "full"} /\ IsRecord(files')
    BY <1>2, <1>3
  <1>6. Holds(Now', files', ent, place)
    BY <1>2, <1>3, <1>4
  <1> QED
    BY <1>5, <1>6 DEF FilesInv

(***************************************************************************)
(* The record and the directories                                          *)
(***************************************************************************)

(* The size in its entry is the number of names in a directory. *)
LEMMA NamesCounted ==
  ASSUME NEW s, NEW U, IsState(s, U), NEW T, NEW ent, NEW place, Listed(s, T, ent, place),
         NEW q \in DOMAIN T, Last(q) \in DirNames
  PROVE  Cardinality(Below(T, q)) = ent[q].size
  <1>1. PICK k, sec, B : k = ent[q].size /\ sec = s.data[ent[q].cluster] /\ B = Below(T, q)
    OBVIOUS
  <1>2. /\ k \in Nat
        /\ \A r \in B : place[r] \in 1..k /\ sec[place[r]] = ent[r]
        /\ \A i \in 1..k : \E r \in B : place[r] = i
    BY <1>1 DEF Listed, InSectors, ListsBelow
  <1>3. \A r \in B : r \in DOMAIN T
    BY <1>1 DEF Below
  <1>4. \A x, r \in B : place[x] = place[r] => x = r
    BY <1>2, <1>3 DEF Listed, Named
  <1>5. PICK at : at = [i \in 1..k |-> CHOOSE r \in B : place[r] = i]
    OBVIOUS
  <1>6. \A i \in 1..k : at[i] \in B /\ place[at[i]] = i
    BY <1>2, <1>5
  <1>7. at \in Bijection(1..k, B)
    <2>1. at \in [1..k -> B]
      BY <1>5, <1>6
    <2>2. \A i, j \in 1..k : at[i] = at[j] => i = j
      BY <1>6
    <2>3. \A r \in B : \E i \in 1..k : at[i] = r
      <3>1. ASSUME NEW r \in B PROVE at[place[r]] = r /\ place[r] \in 1..k
        BY <1>2, <1>4, <1>6
      <3> QED
        BY <3>1
    <2> QED
      BY <2>1, <2>2, <2>3 DEF Bijection, Injection, Surjection, IsInjective
  <1>8. ExistsBijection(1..k, B)
    BY <1>7 DEF ExistsBijection
  <1> QED
    BY <1>1, <1>2, <1>8, FS_CountingElements

LEMMA SameChildren == \A q : Children(q) = Below(files, q)
  BY DEF Children, Paths, Below

(* The record of one text more, or another one, and of one path less. *)
LEMMA RecordWith ==
  ASSUME NEW T, IsRecord(T), NEW p, NEW d
  PROVE  IsRecord(With(T, p, d)) /\ With(T, p, d)[p] = d /\ DOMAIN With(T, p, d) = DOMAIN T \cup {p}
         /\ \A x \in DOMAIN T : x # p => With(T, p, d)[x] = T[x]
  <1>1. DOMAIN With(T, p, d) = DOMAIN T \cup {p}
    BY DEF With
  <1>2. IsFiniteSet(DOMAIN T \cup {p})
    BY FS_AddElement DEF IsRecord
  <1> QED
    BY <1>1, <1>2 DEF IsRecord, With

LEMMA RecordWithout ==
  ASSUME NEW T, IsRecord(T), NEW p
  PROVE  IsRecord(Without(T, p)) /\ DOMAIN Without(T, p) = DOMAIN T \ {p}
         /\ \A x \in DOMAIN T : x # p => Without(T, p)[x] = T[x]
  <1>1. DOMAIN Without(T, p) = DOMAIN T \ {p}
    BY DEF Without
  <1>2. IsFiniteSet(DOMAIN T \ {p})
    BY FS_RemoveElement DEF IsRecord
  <1> QED
    BY <1>1, <1>2 DEF IsRecord, Without

(* The state a call is made in. *)
LEMMA HeldNow ==
  ASSUME FilesInv
  PROVE  \E s, ent, place :
           /\ s = Now /\ Holds(s, files, ent, place) /\ IsState(s, Units) /\ Tidy(s, files, ent, place)
           /\ Unreached(s, files, ent) = {} /\ s.mode = mode /\ Shape(files) /\ IsRecord(files)
           /\ \A q \in DirPaths : Cardinality(Children(q)) = ent[q].size
  <1>1. PICK ent, place : Holds(Now, files, ent, place)
    BY DEF FilesInv
  <1>2. PICK s : s = Now
    OBVIOUS
  <1>3. s.mode = mode
    BY <1>2 DEF Now
  <1>4. IsState(s, Units) /\ Tidy(s, files, ent, place) /\ Listed(s, files, ent, place)
    BY <1>1, <1>2 DEF Holds, Tidy
  <1>5. ASSUME NEW q \in DirPaths PROVE Cardinality(Children(q)) = ent[q].size
    <2>1. q \in DOMAIN files /\ Last(q) \in DirNames
      BY DEF DirPaths, Paths
    <2> QED
      BY <1>4, <2>1, NamesCounted, SameChildren
  <1> QED
    BY <1>1, <1>2, <1>3, <1>4, <1>5 DEF Holds, Tidy, Listed, FilesInv

(***************************************************************************)
(* create_file, create_directory and write_file                            *)
(***************************************************************************)
LEMMA CreateKeeps ==
  ASSUME FilesInv, NEW dir, NEW n \in Names, Create(dir, n) PROVE FilesInv'
  <1>1. PICK s, ent, place :
          /\ s = Now /\ Holds(s, files, ent, place) /\ IsState(s, Units) /\ Tidy(s, files, ent, place)
          /\ Unreached(s, files, ent) = {} /\ s.mode = mode /\ Shape(files) /\ IsRecord(files)
          /\ \A q \in DirPaths : Cardinality(Children(q)) = ent[q].size
    BY HeldNow
  <1>2. PICK r, t, T2 : r = Append(dir, n) /\ t = Created(s, n, dir) /\ T2 = With(files, r, <<>>)
    OBVIOUS
  <1>3. dir \in DirPaths /\ Takes(dir, n) /\ Call(t, T2) /\ s.mode = "shell"
    BY <1>1, <1>2 DEF Create, Call
  <1>4. /\ dir \in DOMAIN files /\ Last(dir) \in DirNames /\ Len(dir) <= MaxDepth
        /\ ent[dir].size < CLUSTER_SIZE /\ r \notin DOMAIN files
    <2>1. dir \in DOMAIN files /\ Last(dir) \in DirNames /\ ent[dir].size < CLUSTER_SIZE /\ r \notin DOMAIN files
      BY <1>1, <1>2, <1>3 DEF Takes, DirPaths, Paths
    <2>2. Len(dir) \in Nat /\ Len(dir) < MaxDepth
      BY <1>1, <1>3, <2>1, PathTyped DEF Takes
    <2> QED
      BY <2>1, <2>2, FileSystemAssumption
  <1>5. CASE FreeClusters(s) = {}
    <2>1. t = Filled(s)
      BY <1>2, <1>5 DEF Created, Filled
    <2> QED
      BY <1>1, <1>3, <2>1, FilledTidy, CallKeepsInv DEF Holds
  <1>6. CASE FreeClusters(s) # {}
    <2>1. PICK ent2, place2 : /\ ent2 = EntriesWith(files, ent, dir, NewFile(s, n))
                              /\ place2 = PlacesWith(files, ent, place, dir, NewFile(s, n))
      OBVIOUS
    <2>2. T2 = Grown(files, r, <<>>)
      BY <1>2 DEF With, Grown
    <2>3. LET t1 == Created(s, n, dir)
              T1 == Grown(files, Append(dir, n), <<>>)
              ent1 == EntriesWith(files, ent, dir, NewFile(s, n))
          IN  /\ IsState(t1, Units) /\ t1.mode = s.mode
              /\ Tidy(t1, T1, ent1, PlacesWith(files, ent, place, dir, NewFile(s, n)))
              /\ Unreached(t1, T1, ent1) = Unreached(s, files, ent)
      <3>1. n \in Names \ Misread /\ Append(dir, n) \notin DOMAIN files
        BY <1>2, <1>4, FilesAssumption
      <3> QED
        BY <1>1, <1>4, <1>6, <3>1, CreatedTidy
    <2>4. Holds(t, T2, ent2, place2) /\ t.mode = "shell"
      BY <1>1, <1>2, <1>3, <2>1, <2>2, <2>3 DEF Holds
    <2>5. IsRecord(T2)
      BY <1>1, <1>2, RecordWith
    <2> QED
      BY <1>3, <2>4, <2>5, CallKeepsInv
  <1> QED
    BY <1>5, <1>6

LEMMA WriteKeeps ==
  ASSUME FilesInv, NEW p, NEW d \in Contents, Write(p, d) PROVE FilesInv'
  <1>1. PICK s, T, ent, place :
          /\ s = Now /\ T = files /\ IsState(s, Units) /\ Tidy(s, T, ent, place)
          /\ Unreached(s, T, ent) = {} /\ s.mode = mode /\ IsRecord(T)
    BY HeldNow
  <1>2. PICK t, T2 : t = Written(s, p, d) /\ T2 = With(T, p, d)
    OBVIOUS
  <1>3. p \in DOMAIN T /\ Last(p) \in FileNames /\ Len(d) < CLUSTER_SIZE /\ Call(t, T2) /\ s.mode = "shell"
    BY <1>1, <1>2 DEF Write, Call, FilePaths, Paths
  <1>4. d \in Seq(Bytes)
    BY FilesAssumption
  <1>5. PICK ent2 : ent2 = EntryNow(T, ent, p, Resized(ent[p], Len(d)))
    OBVIOUS
  <1>6. T2 = [T EXCEPT ![p] = d]
    <2>1. DOMAIN T \cup {p} = DOMAIN T
      BY <1>3
    <2> QED
      BY <1>2, <2>1 DEF With
  <1>7. LET t1 == Written(s, p, d)
            ent1 == EntryNow(T, ent, p, Resized(ent[p], Len(d)))
        IN  /\ IsState(t1, Units) /\ t1.mode = s.mode /\ t1.fat = s.fat
            /\ Tidy(t1, [T EXCEPT ![p] = d], ent1, place)
            /\ Unreached(t1, [T EXCEPT ![p] = d], ent1) = Unreached(s, T, ent)
    <2>1. IsState(s, Units) /\ Tidy(s, T, ent, place) /\ p \in DOMAIN T /\ Last(p) \in FileNames
          /\ d \in Seq(Bytes) /\ Len(d) < CLUSTER_SIZE
      BY <1>1, <1>3, <1>4
    <2> QED
      BY <2>1, WrittenTidy
  <1>8. Holds(t, T2, ent2, place) /\ t.mode = "shell"
    BY <1>1, <1>2, <1>3, <1>5, <1>6, <1>7 DEF Holds
  <1>9. IsRecord(T2)
    BY <1>1, <1>2, RecordWith
  <1> QED
    BY <1>3, <1>8, <1>9, CallKeepsInv

(***************************************************************************)
(* What a call reads of a file, and of the directory of a name             *)
(***************************************************************************)

(* The size in the entry is that of the text. *)
LEMMA TextRead ==
  ASSUME NEW s, NEW U, IsState(s, U), NEW T, NEW ent, NEW place, Listed(s, T, ent, place),
         NEW p \in DOMAIN T, Last(p) \in FileNames, ent[p].size = Len(T[p])
  PROVE  Content(s, ent[p]) = T[p] /\ T[p] \in Seq(Bytes)
  <1>1. PICK u, d, sec : u = ent[p] /\ d = T[p] /\ sec = s.data[ent[p].cluster]
    OBVIOUS
  <1>2. u \in Inode /\ d \in Seq(Bytes) /\ Len(d) < CLUSTER_SIZE /\ HoldsText(sec, u.size, d)
    BY <1>1 DEF Listed, Shape, Named, InSectors
  <1>3. u.size = Len(d) /\ Len(d) \in Nat /\ CLUSTER_SIZE \in Nat
    BY <1>1, <1>2, Constants
  <1>4. u.size <= CLUSTER_SIZE /\ sec = s.data[u.cluster]
    BY <1>1, <1>2, <1>3
  <1>5. /\ Content(s, u) \in Seq(U) /\ Len(Content(s, u)) = u.size
        /\ \A i \in 1..u.size : Content(s, u)[i] = sec[i]
    BY <1>2, <1>4, ContentIs
  <1>6. PICK x : x = Content(s, u)
    OBVIOUS
  <1>7. x \in Seq(U) /\ Len(x) = Len(d) /\ \A i \in 1..Len(d) : x[i] = sec[i]
    BY <1>3, <1>5, <1>6
  <1>8. \A i \in 1..Len(d) : sec[i] = d[i]
    <2>1. ASSUME NEW i \in 1..Len(d) PROVE sec[i] = d[i]
      <3>1. Len(d) > 0 /\ i \in 1..CLUSTER_SIZE /\ i <= Len(d)
        BY <1>2, <1>3
      <3> QED
        BY <1>2, <1>3, <3>1 DEF HoldsText
    <2> QED
      BY <2>1
  <1>9. x = d
    BY <1>2, <1>7, <1>8
  <1> QED
    BY <1>1, <1>2, <1>6, <1>9

LEMMA InDirectory ==
  ASSUME NEW s, NEW U, IsState(s, U), s.read, NEW T, NEW ent, NEW place, Listed(s, T, ent, place),
         NEW p \in DOMAIN T, p # <<ROOT>>, NEW q, q = Front(p), NEW sec, sec = s.data[ent[q].cluster]
  PROVE  /\ q \in DOMAIN T /\ Last(q) \in DirNames /\ p # q /\ p \in Below(T, q) /\ Append(q, Last(p)) = p
         /\ Len(p) \in Nat /\ Len(p) > 1 /\ Len(q) = Len(p) - 1 /\ p \in Seq(Names) /\ q \in Seq(Names)
         /\ Navigate(s, q).end = "open" /\ Current(Navigate(s, q)) = ent[q]
         /\ ReadFile(s, ent[q]) = sec /\ SizeOf(s, ent[q]) = ent[q].size
         /\ Find(sec, ent[q].size, Last(p)) = place[p]
         /\ place[p] \in 1..ent[q].size /\ sec[place[p]] = ent[p]
         /\ ListsBelow(sec, ent[q].size, T, ent, place, q)
         /\ ent[p] \in Inode /\ ent[q] \in Inode /\ ent[p].cluster # ent[q].cluster
         /\ Directory(s, q, Last(p)).end = "open"
  <1>1. p \in Seq(Names) /\ Len(p) \in Nat \ {0} /\ Last(p) \in Names /\ Shape(T) /\ Named(T, ent)
    BY PathTyped DEF Listed
  <1>2. Len(p) # 1
    BY <1>1, PathTyped
  <1>3. Len(p) > 1 /\ Len(p) > 0
    <2>1. PICK l \in Nat \ {0} : l = Len(p)
      BY <1>1
    <2> QED
      BY <1>2, <2>1
  <1>4. q \in Seq(Names) /\ Len(q) = Len(p) - 1 /\ Append(q, Last(p)) = p
    BY <1>1, <1>3, FrontIs
  <1>5. q \in DOMAIN T /\ Last(q) \in DirNames
    BY <1>1, <1>3 DEF Shape
  <1>6. p # q /\ p \in Below(T, q)
    BY <1>1, <1>3, <1>4 DEF Below
  <1>7. Ready(s, T, ent, place, q)
    BY <1>5, ReadyFor
  <1>8. Navigate(s, q).end = "open" /\ Current(Navigate(s, q)) = ent[q]
    <2>1. /\ Navigate(s, q) =
               [at |-> PlaceIn(place, q), holder |-> HolderIn(s, ent, q), buffer |-> HolderIn(s, ent, q),
                inRoot |-> (Len(q) = 1), end |-> "open"]
          /\ Current(Navigate(s, q)) = ent[q]
      BY <1>1, <1>5, <1>7, FindDir
    <2> QED
      BY <2>1
  <1>9. ListsBelow(sec, ent[q].size, T, ent, place, q)
    BY <1>5 DEF Listed, InSectors
  <1>10. ent[p] \in Inode /\ ent[q] \in Inode /\ ent[p].cluster # ent[q].cluster
    BY <1>1, <1>5, <1>6 DEF Named
  <1>11. SizeOf(s, ent[q]) = ent[q].size
    BY <1>10, UnitsApart DEF SizeOf
  <1>12. /\ ReadFile(s, ent[q]) = sec /\ place[p] \in 1..ent[q].size
         /\ Find(ReadFile(s, ent[q]), SizeOf(s, ent[q]), Last(p)) = place[p]
         /\ sec[place[p]] = ent[p]
    <2>1. PICK n : n = Last(p)
      OBVIOUS
    <2>2. Append(q, n) \in DOMAIN T /\ n \in Names
      BY <1>1, <1>4, <2>1
    <2>3. /\ ReadFile(s, ent[q]) = s.data[ent[q].cluster]
          /\ Find(ReadFile(s, ent[q]), SizeOf(s, ent[q]), n) = place[Append(q, n)]
          /\ place[Append(q, n)] \in 1..ent[q].size
          /\ ReadFile(s, ent[q])[place[Append(q, n)]] = ent[Append(q, n)]
      BY <1>5, <2>2, FindListed
    <2> QED
      BY <1>4, <2>1, <2>3
  <1>13. Directory(s, q, Last(p)).end = "open"
    <2>1. PICK n, b : n = Last(p) /\ b = ReadFile(s, ent[q])
      OBVIOUS
    <2>2. n \in Names /\ q \in DOMAIN T /\ Last(q) \in DirNames
      BY <1>1, <1>5, <2>1
    <2>3. ~ReadsText(b, SizeOf(s, ent[q]), n)
      BY <2>1, <2>2, FindListed
    <2> QED
      BY <1>8, <2>1, <2>3 DEF Directory, LookedIn
  <1> QED
    BY <1>1, <1>3, <1>4, <1>5, <1>6, <1>8, <1>9, <1>10, <1>11, <1>12, <1>13

(* A file is in a directory. *)
LEMMA FileBelow ==
  ASSUME NEW T, Shape(T), NEW p \in DOMAIN T, Last(p) \in FileNames
  PROVE  p # <<ROOT>> /\ Last(p) \notin DirNames
  <1>1. Last(<<ROOT>>) = ROOT
    BY DEF Last
  <1> QED
    BY <1>1, FileSystemAssumption

(***************************************************************************)
(* cat                                                                     *)
(***************************************************************************)
SettledFile(T, ent, p) == p \in DOMAIN T /\ Last(p) \in FileNames /\ ent[p].size = Len(T[p])

(* The text d is that of both, and dst has a cluster for it. *)
Joined(T, dst, src, d) ==
  d = T[dst] \o T[src] /\ Len(d) < CLUSTER_SIZE /\ (T[dst] # <<>> \/ T[src] = <<>>)

LEMMA ConcatenatedTidy ==
  ASSUME NEW s0, NEW U, IsState(s0, U), NEW T, NEW ent, NEW place, Tidy(s0, T, ent, place),
         NEW dst, SettledFile(T, ent, dst), NEW src, SettledFile(T, ent, src), NEW d, Joined(T, dst, src, d)
  PROVE  LET t == Concatenated(s0, dst, src)
             ent2 == EntryNow(T, ent, dst, ent[dst])
         IN  /\ IsState(t, U) /\ t.mode = s0.mode /\ t.fat = s0.fat
             /\ Tidy(t, [T EXCEPT ![dst] = d], ent2, place)
             /\ Unreached(t, [T EXCEPT ![dst] = d], ent2) = Unreached(s0, T, ent)
  <1>0. /\ dst \in DOMAIN T /\ Last(dst) \in FileNames /\ ent[dst].size = Len(T[dst])
        /\ src \in DOMAIN T /\ Last(src) \in FileNames /\ ent[src].size = Len(T[src])
        /\ T[dst] # <<>> \/ T[src] = <<>>
        /\ d = T[dst] \o T[src] /\ Len(d) < CLUSTER_SIZE
    BY DEF SettledFile, Joined
  <1>1. PICK s, t, u, m, ent2 : /\ s = Loaded(s0) /\ t = Concatenated(s0, dst, src) /\ u = ent[dst]
                                /\ m = Len(d) /\ ent2 = EntryNow(T, ent, dst, ent[dst])
    OBVIOUS
  <1>2. /\ IsState(s, U) /\ Tidy(s, T, ent, place) /\ Listed(s, T, ent, place) /\ s.read
        /\ s.fat = s0.fat /\ s.mode = s0.mode
    BY <1>1, TidyLoaded DEF Tidy
  <1>3. Content(s, u) = T[dst] /\ Content(s, ent[src]) = T[src] /\ T[dst] \in Seq(Bytes) /\ T[src] \in Seq(Bytes)
    BY <1>0, <1>1, <1>2, TextRead
  <1>4. /\ d \in Seq(Bytes) /\ m \in Nat /\ m <= Len(d) /\ Len(d) <= m /\ m < CLUSTER_SIZE
        /\ Len(T[dst]) <= m /\ (Len(T[dst]) = 0 => d = <<>>) /\ (m = 0 => d = <<>>)
    BY <1>0, <1>1, <1>3
  <1>5. \A x \in DOMAIN T : ent[x] \in Inode /\ ent[x] # NoFile
    BY <1>2, UnitsApart DEF Listed, Named
  <1>6. u \in Inode /\ u # NoFile /\ u.cluster \in Clusters /\ u.size = Len(T[dst])
    BY <1>0, <1>1, <1>5, UnitsApart
  (* The two lookups. *)
  <1>7. ASSUME NEW p \in DOMAIN T, Last(p) \in FileNames
        PROVE  /\ Directory(s, p, Last(p)).end = "file"
               /\ Entry(Directory(s, p, Last(p)).buffer, Directory(s, p, Last(p)).at) = ent[p]
    <2>1. PICK q, sec : q = Front(p) /\ sec = s.data[ent[Front(p)].cluster]
      OBVIOUS
    <2>2. /\ Navigate(s, p).end = "file" /\ Current(Navigate(s, p)) = ent[q]
          /\ Directory(s, p, Last(p)).end = "file"
          /\ ReadFile(s, ent[q]) = sec /\ SizeOf(s, ent[q]) = ent[q].size
          /\ Find(sec, ent[q].size, Last(p)) = place[p]
          /\ place[p] # 0 /\ sec[place[p]] = ent[p]
      BY <1>2, <1>7, <2>1, FileDirectory
    <2> QED
      BY <2>1, <2>2 DEF Directory, LookedIn, Entry
  <1>8. t = EditFile(s, u, d, m)
    <2>1. PICK from, to : from = Directory(s, src, Last(src)) /\ to = Directory(s, dst, Last(dst))
      OBVIOUS
    <2>2. /\ from.end = "file" /\ Entry(from.buffer, from.at) = ent[src]
          /\ to.end = "file" /\ Entry(to.buffer, to.at) = u
      BY <1>0, <1>1, <1>7, <2>1
    <2>3. t = CatFile(s, u, Content(s, ent[src]))
      BY <1>0, <1>1, <1>5, <2>1, <2>2 DEF Concatenated, IsStray
    <2> QED
      BY <1>0, <1>1, <1>3, <1>6, <2>3 DEF CatFile
  <1>9. /\ IsState(t, U) /\ SameOutside(t, s)
        /\ m = 0 => t.data = s.data
        /\ m > 0 => t.data = [s.data EXCEPT ![u.cluster] = Sector(d, m)]
    <2>1. d \in Seq(U)
      BY <1>4 DEF IsState
    <2> QED
      BY <1>2, <1>4, <1>6, <1>8, <2>1, EditIs
  <1>10. PICK sec : sec = IF m = 0 THEN s.data[u.cluster] ELSE Sector(d, m)
    OBVIOUS
  <1>11. DOMAIN s.data = Clusters /\ \A c \in Clusters : DOMAIN s.data[c] = 1..CLUSTER_SIZE /\ s.data[c] = [i \in 1..CLUSTER_SIZE |-> s.data[c][i]]
    BY <1>2 DEF IsState
  <1>12. \A c \in Clusters : t.data[c] = IF c = u.cluster THEN sec ELSE s.data[c]
    BY <1>4, <1>9, <1>10, <1>11
  <1>13. FileNow(t, s, ent, place, dst, u, sec)
    <2>1. PICK q, old : q = Front(dst) /\ old = s.data[ent[Front(dst)].cluster]
      OBVIOUS
    <2>2. dst # <<ROOT>>
      BY <1>0, <1>2, FileBelow DEF Listed
    <2>3. old[place[dst]] = u
      BY <1>0, <1>1, <1>2, <2>1, <2>2, InDirectory
    <2>4. ent[q].cluster \in Clusters
      <3>1. q \in DOMAIN T
        BY <1>0, <1>2, <2>1, <2>2, InDirectory
      <3> QED
        BY <1>5, <3>1, UnitsApart
    <2>5. [old EXCEPT ![place[dst]] = u] = old
      BY <1>11, <2>1, <2>3, <2>4
    <2> QED
      BY <1>1, <1>6, <1>9, <1>12, <2>1, <2>5 DEF FileNow
  <1>14. HoldsText(sec, u.size, d)
    <2>1. u.size \in 0..Len(d) /\ (u.size = 0 => d = <<>>)
      BY <1>0, <1>1, <1>3, <1>4, <1>6
    <2>2. ASSUME u.size > 0 PROVE \A i \in 1..CLUSTER_SIZE : sec[i] = IF i <= Len(d) THEN d[i] ELSE Zero
      <3>1. m > 0 /\ sec = Sector(d, m)
        BY <1>4, <1>6, <1>10, <2>1, <2>2
      <3>2. Zero \in U /\ d \in Seq(U)
        BY <1>4 DEF IsState
      <3>3. \A i \in 1..CLUSTER_SIZE : Sector(d, m)[i] = IF i > m THEN Zero ELSE d[i]
        BY <1>4, <3>1, <3>2, SectorIs
      <3> QED
        BY <1>4, <3>1, <3>3, Constants
    <2> QED
      BY <2>1, <2>2 DEF HoldsText
  <1>15. Tidy(t, [T EXCEPT ![dst] = d], ent2, place)
    BY <1>0, <1>1, <1>2, <1>4, <1>13, <1>14, FileChanged
  <1>16. t.fat = s0.fat /\ t.mode = s0.mode
    BY <1>2, <1>9 DEF SameOutside
  <1>17. Unreached(t, [T EXCEPT ![dst] = d], ent2) = Unreached(s0, T, ent)
    BY <1>0, <1>1, <1>16 DEF Unreached, EntryNow
  <1> QED
    BY <1>1, <1>9, <1>15, <1>16, <1>17

(* What the client knows of the size in an entry. *)
LEMMA SettledIs ==
  ASSUME NEW s, s = Now, NEW U, IsState(s, U), NEW T, T = files, NEW ent, NEW place, Tidy(s, T, ent, place),
         NEW p \in DOMAIN T, Last(p) \in FileNames, Settled(p)
  PROVE  ent[p].size = Len(T[p])
  <1>1. PICK s1, q, n : s1 = Loaded(s) /\ q = Front(p) /\ n = Last(p)
    OBVIOUS
  <1>2. IsState(s1, U) /\ Tidy(s1, T, ent, place) /\ s1.read
    BY <1>1, TidyLoaded
  <1>3. /\ q \in DOMAIN T /\ Last(q) \in DirNames /\ Append(q, n) = p
    BY <1>1, <1>2, FileDirectory
  <1>4. FileAt(s1, Append(q, n)) = IF Append(q, n) \in DOMAIN T THEN ent[Append(q, n)] ELSE NoFile
    BY <1>1, <1>2, <1>3, FileAtIs
  <1>5. FileAt(s1, p) = ent[p]
    BY <1>3, <1>4
  <1> QED
    BY <1>1, <1>5 DEF Settled

LEMMA ConcatenateKeeps ==
  ASSUME FilesInv, NEW dst, NEW src, Concatenate(dst, src) PROVE FilesInv'
  <1>1. PICK s, T, ent, place :
          /\ s = Now /\ T = files /\ IsState(s, Units) /\ Tidy(s, T, ent, place)
          /\ Unreached(s, T, ent) = {} /\ s.mode = mode /\ IsRecord(T)
    BY HeldNow
  <1>2. PICK t, d, T2, ent2 :
          /\ t = Concatenated(s, dst, src) /\ d = T[dst] \o T[src] /\ T2 = With(T, dst, d)
          /\ ent2 = EntryNow(T, ent, dst, ent[dst])
    OBVIOUS
  <1>3. /\ dst \in DOMAIN T /\ Last(dst) \in FileNames /\ Settled(dst)
        /\ src \in DOMAIN T /\ Last(src) \in FileNames /\ Settled(src)
        /\ T[dst] # <<>> \/ T[src] = <<>>
        /\ Len(d) < CLUSTER_SIZE /\ Call(t, T2) /\ s.mode = "shell"
    BY <1>1, <1>2 DEF Concatenate, Call, FilePaths, Paths
  <1>4. ent[dst].size = Len(T[dst]) /\ ent[src].size = Len(T[src])
    BY <1>1, <1>3, SettledIs
  <1>5. T2 = [T EXCEPT ![dst] = d]
    <2>1. DOMAIN T \cup {dst} = DOMAIN T
      BY <1>3
    <2> QED
      BY <1>2, <2>1 DEF With
  <1>6. LET t1 == Concatenated(s, dst, src)
            ent1 == EntryNow(T, ent, dst, ent[dst])
        IN  /\ IsState(t1, Units) /\ t1.mode = s.mode /\ t1.fat = s.fat
            /\ Tidy(t1, [T EXCEPT ![dst] = d], ent1, place)
            /\ Unreached(t1, [T EXCEPT ![dst] = d], ent1) = Unreached(s, T, ent)
    <2>1. SettledFile(T, ent, dst) /\ SettledFile(T, ent, src) /\ Joined(T, dst, src, d)
      BY <1>2, <1>3, <1>4 DEF SettledFile, Joined
    <2>2. IsState(s, Units) /\ Tidy(s, T, ent, place)
      BY <1>1
    <2> QED
      BY <2>1, <2>2, ConcatenatedTidy
  <1>7. Holds(t, T2, ent2, place) /\ t.mode = "shell"
    BY <1>1, <1>2, <1>3, <1>5, <1>6 DEF Holds
  <1>8. IsRecord(T2)
    BY <1>1, <1>2, RecordWith
  <1> QED
    BY <1>3, <1>7, <1>8, CallKeepsInv

(***************************************************************************)
(* rename_file                                                             *)
(***************************************************************************)

(* The tree, the entries and the places with another path for one of them. *)
Moving(T, p, r, x) == [y \in (DOMAIN T \ {p}) \cup {r} |-> IF y = r THEN x ELSE T[y]]

(* p is a file and r a name for it in its directory. *)
NewNameOf(T, p, n) ==
  /\ p \in DOMAIN T /\ Last(p) \in FileNames /\ n \in FileNames
  /\ <<n, Last(p)>> \in Covers /\ Append(Front(p), n) \notin DOMAIN T

(* The tree T2 has r where T has p, in the directory q. *)
Renames(T, T2, p, n, q, r) ==
  NewNameOf(T, p, n) /\ q = Front(p) /\ r = Append(q, n) /\ T2 = Moving(T, p, r, T[p])

NameReplaced(T, T2, p, n, q, r) ==
  /\ r \notin DOMAIN T /\ Last(r) = n /\ Front(r) = q
  /\ DOMAIN T2 = (DOMAIN T \ {p}) \cup {r} /\ T2[r] = T[p]
  /\ \A x \in DOMAIN T \ {p} : T2[x] = T[x]
  /\ Below(T2, q) = (Below(T, q) \ {p}) \cup {r}
  /\ \A x \in DOMAIN T : x # q => Below(T2, x) = Below(T, x)

LEMMA ShapeRenamed ==
  ASSUME NEW T, Shape(T), NEW p, NEW n, NEW q, NEW r, NEW T2, Renames(T, T2, p, n, q, r)
  PROVE  Shape(T2) /\ NameReplaced(T, T2, p, n, q, r)
  <1>0. NewNameOf(T, p, n) /\ q = Front(p) /\ r = Append(q, n) /\ T2 = Moving(T, p, r, T[p])
    BY DEF Renames
  <1>1. /\ p \in DOMAIN T /\ Last(p) \in FileNames /\ n \in FileNames /\ n \in Names
        /\ r \notin DOMAIN T /\ p # <<ROOT>> /\ Last(p) \notin DirNames /\ n \notin DirNames
    BY <1>0, FileBelow, FileSystemAssumption DEF NewNameOf, Names
  <1>2. /\ p \in Seq(Names) /\ Len(p) \in Nat \ {0} /\ Len(p) # 1 /\ Len(p) \in 1..MaxDepth + 1 /\ p[1] = ROOT
    BY <1>1, PathTyped DEF Shape
  <1>3. Len(p) > 1 /\ Len(p) > 0
    <2>1. PICK l \in Nat \ {0} : l = Len(p)
      BY <1>2
    <2> QED
      BY <1>2, <2>1
  <1>4. q \in Seq(Names) /\ Len(q) = Len(p) - 1 /\ q \in DOMAIN T /\ Last(q) \in DirNames /\ q # p
    BY <1>0, <1>1, <1>2, <1>3, FrontIs DEF Shape
  <1>5. /\ r \in Seq(Names) /\ Len(r) = Len(p) /\ Front(r) = q /\ Last(r) = n /\ r[1] = q[1]
    <2>1. PICK l \in Nat : l = Len(q)
      BY <1>4
    <2>2. l >= 1 /\ 1 \in 1..l
      BY <1>3, <1>4, <2>1
    <2> QED
      BY <1>0, <1>1, <1>2, <1>4, <2>1, <2>2, AppendIs
  <1>6. q[1] = ROOT
    BY <1>4 DEF Shape
  <1>7. /\ DOMAIN T2 = (DOMAIN T \ {p}) \cup {r} /\ T2[r] = T[p] /\ \A x \in DOMAIN T \ {p} : T2[x] = T[x]
    BY <1>0, <1>1 DEF Moving
  <1>8. Shape(T2)
    <2>1. <<ROOT>> \in DOMAIN T2
      BY <1>1, <1>7 DEF Shape
    <2>2. ASSUME NEW x \in DOMAIN T, x # p
          PROVE  /\ x \in Seq(Names) /\ Len(x) \in 1..MaxDepth + 1 /\ x[1] = ROOT
                 /\ Len(x) > 1 => Front(x) \in DOMAIN T2 /\ Last(Front(x)) \in DirNames
                 /\ T2[x] \in Seq(Bytes) /\ Len(T2[x]) < CLUSTER_SIZE
                 /\ Last(x) \in DirNames => T2[x] = <<>>
      <3>1. Len(x) > 1 => Front(x) # p
        BY <1>1, <2>2 DEF Shape
      <3> QED
        BY <1>7, <2>2, <3>1 DEF Shape
    <2>3. /\ Len(r) > 1 => Front(r) \in DOMAIN T2 /\ Last(Front(r)) \in DirNames
          /\ T2[r] \in Seq(Bytes) /\ Len(T2[r]) < CLUSTER_SIZE /\ Last(r) \notin DirNames
          /\ r[1] = ROOT /\ Len(r) \in 1..MaxDepth + 1
      BY <1>1, <1>2, <1>4, <1>5, <1>6, <1>7 DEF Shape
    <2>4. ASSUME NEW x \in DOMAIN T2
          PROVE  /\ x \in Seq(Names) /\ Len(x) \in 1..MaxDepth + 1 /\ x[1] = ROOT
                 /\ Len(x) > 1 => Front(x) \in DOMAIN T2 /\ Last(Front(x)) \in DirNames
                 /\ T2[x] \in Seq(Bytes) /\ Len(T2[x]) < CLUSTER_SIZE
                 /\ Last(x) \in DirNames => T2[x] = <<>>
      <3>1. CASE x = r
        BY <1>5, <2>3, <3>1
      <3>2. CASE x # r
        BY <1>7, <2>2, <2>4, <3>2
      <3> QED
        BY <3>1, <3>2
    <2> QED
      BY <2>1, <2>4 DEF Shape
  <1>9. Len(r) > 1
    BY <1>3, <1>5
  <1>10. Below(T2, q) = (Below(T, q) \ {p}) \cup {r}
    BY <1>0, <1>5, <1>7, <1>9 DEF Below
  <1>11. ASSUME NEW x \in DOMAIN T, x # q PROVE Below(T2, x) = Below(T, x)
    <2>1. Front(p) # x /\ Front(r) # x
      BY <1>0, <1>5, <1>11
    <2> QED
      BY <1>7, <2>1 DEF Below
  <1> QED
    BY <1>1, <1>5, <1>7, <1>8, <1>10, <1>11 DEF NameReplaced

OnPaths(T2, f, r, x) == [y \in DOMAIN T2 |-> IF y = r THEN x ELSE f[y]]

Relabelled(u, n) == [u EXCEPT !.name = n]

LEMMA RelabelledIs ==
  ASSUME NEW u \in Inode, NEW n \in Names
  PROVE  /\ Relabelled(u, n) \in Inode /\ Relabelled(u, n).name = n
         /\ Relabelled(u, n).cluster = u.cluster /\ Relabelled(u, n).size = u.size
  <1>1. NameRead(n) = n
    BY FilesAssumption DEF NameRead
  <1>2. n \in {NameRead(m) : m \in Names}
    BY <1>1
  <1> QED
    BY <1>2 DEF Relabelled, Inode

(* The new name over the one at a place. *)
Laid(buffer, at, n) == [buffer EXCEPT ![at].name = Overlaid(@, n)]

LEMMA RenamedTidy ==
  ASSUME NEW s0, NEW U, IsState(s0, U), NEW T, NEW ent, NEW place, Tidy(s0, T, ent, place),
         NEW p, NEW n, NEW q, NEW r, NEW T2, Renames(T, T2, p, n, q, r)
  PROVE  LET t == Renamed(s0, p, n)
             ent2 == OnPaths(T2, ent, r, Relabelled(ent[p], n))
         IN  /\ IsState(t, U) /\ t.mode = s0.mode
             /\ Tidy(t, T2, ent2, OnPaths(T2, place, r, place[p]))
             /\ Unreached(t, T2, ent2) = Unreached(s0, T, ent)
  <1>1. PICK s, t, f, ent2, place2 :
          /\ s = Loaded(s0) /\ t = Renamed(s0, p, n) /\ f = Relabelled(ent[p], n)
          /\ ent2 = OnPaths(T2, ent, r, f) /\ place2 = OnPaths(T2, place, r, place[p])
    OBVIOUS
  <1>2. /\ IsState(s, U) /\ Tidy(s, T, ent, place) /\ Listed(s, T, ent, place) /\ s.read
        /\ s.fat = s0.fat /\ s.mode = s0.mode /\ Shape(T) /\ Named(T, ent)
    BY <1>1, TidyLoaded DEF Tidy, Listed
  <1>0. NewNameOf(T, p, n) /\ q = Front(p) /\ r = Append(q, n)
    BY DEF Renames
  <1>3. PICK sec, k, c, i : /\ sec = s.data[ent[q].cluster] /\ k = ent[q].size /\ c = ent[q].cluster
                            /\ i = place[p]
    OBVIOUS
  <1>4. /\ p \in DOMAIN T /\ Last(p) \in FileNames /\ n \in FileNames /\ n \in Names
        /\ <<n, Last(p)>> \in Covers /\ p # <<ROOT>> /\ Last(p) \notin DirNames
    BY <1>0, <1>2, FileBelow DEF NewNameOf, Names
  <1>5. /\ q \in DOMAIN T /\ Last(q) \in DirNames /\ p # q /\ p \in Below(T, q) /\ Append(q, Last(p)) = p
        /\ Navigate(s, q).end = "open" /\ Current(Navigate(s, q)) = ent[q]
        /\ ReadFile(s, ent[q]) = sec /\ SizeOf(s, ent[q]) = k
        /\ Find(sec, k, Last(p)) = i /\ Directory(s, q, Last(p)).end = "open"
        /\ i \in 1..k /\ sec[i] = ent[p] /\ ListsBelow(sec, k, T, ent, place, q)
        /\ ent[p] \in Inode /\ ent[q] \in Inode /\ ent[p].cluster # c
    BY <1>0, <1>2, <1>3, <1>4, InDirectory
  <1>6. /\ \A x \in DOMAIN T : ent[x] \in Inode /\ ent[x].cluster \in Clusters /\ ent[x].name = Last(x)
        /\ \A x, y \in DOMAIN T : ent[x].cluster = ent[y].cluster => x = y
    BY <1>2, UnitsApart DEF Named
  <1>7. /\ Shape(T2) /\ r \notin DOMAIN T /\ Last(r) = n /\ Front(r) = q
        /\ DOMAIN T2 = (DOMAIN T \ {p}) \cup {r} /\ T2[r] = T[p]
        /\ \A x \in DOMAIN T \ {p} : T2[x] = T[x]
        /\ Below(T2, q) = (Below(T, q) \ {p}) \cup {r}
        /\ \A x \in DOMAIN T : x # q => Below(T2, x) = Below(T, x)
    <2>1. Shape(T)
      BY <1>2
    <2>2. Shape(T2) /\ NameReplaced(T, T2, p, n, q, r)
      BY <2>1, ShapeRenamed
    <2> QED
      BY <2>2 DEF NameReplaced
  <1>8. f \in Inode /\ f.name = n /\ f.cluster = ent[p].cluster /\ f.size = ent[p].size /\ f \in U
    BY <1>1, <1>4, <1>5, RelabelledIs DEF IsState
  <1>9. /\ ent2[r] = f /\ place2[r] = i
        /\ \A x \in DOMAIN T \ {p} : ent2[x] = ent[x] /\ place2[x] = place[x] /\ x \in DOMAIN T2
    BY <1>1, <1>3, <1>7 DEF OnPaths
  <1>10. PICK b : b = [sec EXCEPT ![i] = f]
    OBVIOUS
  <1>11. t = EditFile(s, ent[q], b, k)
    <2>1. PICK dir : dir = Directory(s, q, Last(p))
      OBVIOUS
    <2>2. dir.end = "open" /\ dir.file = ent[q] /\ dir.buffer = sec /\ dir.at = i
      BY <1>5, <2>1 DEF Directory, LookedIn
    <2>3. Overlaid(sec[i].name, n) = n
      BY <1>4, <1>5, <1>6 DEF Overlaid
    <2>4. [sec EXCEPT ![i].name = Overlaid(@, n)] = b
      BY <1>1, <1>5, <1>10, <2>3 DEF Relabelled
    <2>5. i # 0
      BY <1>5 DEF ListsBelow
    <2>6. Laid(dir.buffer, dir.at, n) = b
      <3>1. Laid(dir.buffer, dir.at, n) = Laid(sec, i, n)
        BY <2>2
      <3> QED
        BY <2>4, <3>1 DEF Laid
    <2>7. t = EditFile(s, dir.file, Laid(dir.buffer, dir.at, n), SizeOf(s, dir.file))
      BY <1>0, <1>1, <2>1, <2>2, <2>5 DEF Renamed, Laid, IsStray
    <2> QED
      BY <1>5, <2>2, <2>6, <2>7
  <1>12. c \in Clusters /\ DOMAIN s.data = Clusters /\ sec \in [1..CLUSTER_SIZE -> U] /\ b \in [1..CLUSTER_SIZE -> U]
    <2>1. c \in Clusters /\ DOMAIN s.data = Clusters /\ sec \in [1..CLUSTER_SIZE -> U]
      BY <1>2, <1>3, <1>5, <1>6 DEF IsState
    <2> QED
      BY <1>8, <1>10, <2>1
  <1>13. /\ IsState(t, U) /\ SameOutside(t, s) /\ t.data = [s.data EXCEPT ![c] = b]
    <2>1. PICK dir : dir = ent[q]
      OBVIOUS
    <2>2. dir \in Inode /\ ListsBelow(sec, dir.size, T, ent, place, q) /\ dir.size = k /\ dir.cluster = c
      BY <1>3, <1>5, <2>1
    <2>3. \A j \in 1..CLUSTER_SIZE : j # place[p] => b[j] = sec[j]
      BY <1>3, <1>10, <1>12
    <2>4. Padded(b, dir.size)
      BY <1>5, <2>2, <2>3, StaysPadded
    <2>5. /\ IsState(EditFile(s, dir, b, dir.size), U) /\ SameOutside(EditFile(s, dir, b, dir.size), s)
          /\ EditFile(s, dir, b, dir.size).data = [s.data EXCEPT ![dir.cluster] = b]
      BY <1>2, <1>12, <2>2, <2>4, EntryEdited
    <2> QED
      BY <1>11, <2>1, <2>2, <2>5
  <1>14. t.data[c] = b /\ \A x \in Clusters : x # c => t.data[x] = s.data[x]
    BY <1>12, <1>13
  <1>15. t.fat = s0.fat /\ t.mode = s0.mode
    BY <1>2, <1>13 DEF SameOutside
  <1>16. Named(T2, ent2) /\ Used(t, T2, ent2)
    <2>1. \A x \in DOMAIN T2 : ent2[x] \in Inode /\ ent2[x].name = Last(x)
      BY <1>6, <1>7, <1>8, <1>9
    <2>2. ASSUME NEW x \in DOMAIN T2
          PROVE  \E x0 \in DOMAIN T : ent2[x].cluster = ent[x0].cluster /\ x0 = IF x = r THEN p ELSE x
      BY <1>4, <1>7, <1>8, <1>9
    <2>3. ASSUME NEW x \in DOMAIN T2, NEW y \in DOMAIN T2, ent2[x].cluster = ent2[y].cluster PROVE x = y
      <3>1. PICK x0 \in DOMAIN T : ent2[x].cluster = ent[x0].cluster /\ x0 = IF x = r THEN p ELSE x
        BY <2>2
      <3>2. PICK y0 \in DOMAIN T : ent2[y].cluster = ent[y0].cluster /\ y0 = IF y = r THEN p ELSE y
        BY <2>2
      <3>3. x0 = y0
        BY <1>6, <2>3, <3>1, <3>2
      <3> QED
        BY <1>7, <3>1, <3>2, <3>3
    <2>4. ASSUME NEW x \in DOMAIN T2 PROVE t.fat[ent2[x].cluster] = EOC
      <3>1. \A x0 \in DOMAIN T : t.fat[ent[x0].cluster] = EOC
        BY <1>2, <1>15 DEF Tidy, Used
      <3> QED
        BY <2>2, <3>1
    <2> QED
      BY <2>1, <2>3, <2>4 DEF Named, Used
  <1>17. RootIs(t, ent2[<<ROOT>>])
    <2>1. <<ROOT>> \in DOMAIN T \ {p} /\ RootIs(s, ent[<<ROOT>>])
      BY <1>2, <1>4 DEF Shape, Listed
    <2> QED
      BY <1>9, <1>13, <2>1 DEF RootIs, SameOutside
  <1>18. InSectors(t, T2, ent2, place2, q)
    <2>1. \A x \in Below(T, q) : place[x] = place[p] => x = p
      BY <1>2, <1>5, PlacesApart
    <2>2. \A x \in Below(T, q) : x \in DOMAIN T
      BY DEF Below
    <2>3. InPlaceOf(T, ent, place, T2, ent2, place2, q, p, r)
      BY <1>3, <1>5, <1>7, <1>9, <2>1, <2>2 DEF InPlaceOf
    <2>4. ListsBelow([sec EXCEPT ![place[p]] = ent2[r]], k, T2, ent2, place2, q)
      <3>1. DOMAIN sec = 1..CLUSTER_SIZE
        BY <1>12
      <3> QED
        BY <1>5, <2>3, <3>1, ListsReplaced
    <2>5. ent2[q] = ent[q] /\ Last(q) \notin FileNames
      BY <1>5, <1>9, FileSystemAssumption
    <2> QED
      BY <1>3, <1>9, <1>10, <1>14, <2>4, <2>5 DEF InSectors
  <1>19. InSectors(t, T2, ent2, place2, r)
    <2>1. t.data[f.cluster] = s.data[ent[p].cluster]
      BY <1>4, <1>5, <1>6, <1>8, <1>14
    <2>2. HoldsText(s.data[ent[p].cluster], ent[p].size, T[p])
      BY <1>2, <1>4 DEF Listed, InSectors
    <2>3. Last(r) \notin DirNames
      BY <1>4, <1>7, FileSystemAssumption
    <2> QED
      BY <1>7, <1>8, <1>9, <2>1, <2>2, <2>3 DEF InSectors
  <1>20. ASSUME NEW x \in DOMAIN T, x # p, x # q PROVE InSectors(t, T2, ent2, place2, x)
    <2>1. t.data[ent[x].cluster] = s.data[ent[x].cluster] /\ ent2[x] = ent[x] /\ T2[x] = T[x]
      BY <1>3, <1>5, <1>6, <1>7, <1>9, <1>14, <1>20
    <2>2. Below(T2, x) = Below(T, x)
      BY <1>7, <1>20
    <2>3. \A y \in Below(T, x) : ent2[y] = ent[y] /\ place2[y] = place[y]
      <3>1. \A y \in Below(T, x) : y \in DOMAIN T \ {p}
        BY <1>0, <1>20 DEF Below
      <3> QED
        BY <1>9, <3>1
    <2>4. /\ Last(x) \in DirNames => ListsBelow(s.data[ent[x].cluster], ent[x].size, T, ent, place, x)
          /\ Last(x) \in FileNames => HoldsText(s.data[ent[x].cluster], ent[x].size, T[x])
      BY <1>2 DEF Listed, InSectors
    <2>5. Last(x) \in DirNames => ListsBelow(s.data[ent[x].cluster], ent[x].size, T2, ent2, place2, x)
      BY <2>2, <2>3, <2>4, ListsKept
    <2> QED
      BY <2>1, <2>4, <2>5 DEF InSectors
  <1>21. Listed(t, T2, ent2, place2)
    BY <1>7, <1>16, <1>17, <1>18, <1>19, <1>20 DEF Listed
  <1>22. Unreached(t, T2, ent2) = Unreached(s0, T, ent)
    <2>1. \A x \in DOMAIN T2 : \E y \in DOMAIN T : ent2[x].cluster = ent[y].cluster
      BY <1>4, <1>7, <1>8, <1>9
    <2>2. \A y \in DOMAIN T : \E x \in DOMAIN T2 : ent2[x].cluster = ent[y].cluster
      <3>1. ASSUME NEW y \in DOMAIN T PROVE \E x \in DOMAIN T2 : ent2[x].cluster = ent[y].cluster
        <4>1. CASE y = p
          BY <1>7, <1>8, <1>9, <4>1
        <4>2. CASE y # p
          BY <1>9, <4>2
        <4> QED
          BY <4>1, <4>2
      <3> QED
        BY <3>1
    <2>3. {ent2[x].cluster : x \in DOMAIN T2} = {ent[x].cluster : x \in DOMAIN T}
      BY <2>1, <2>2
    <2> QED
      BY <1>15, <2>3 DEF Unreached
  <1> QED
    BY <1>1, <1>13, <1>15, <1>16, <1>21, <1>22 DEF Tidy

LEMMA RenameKeeps ==
  ASSUME FilesInv, NEW p, NEW n, Rename(p, n) PROVE FilesInv'
  <1>1. PICK s, T, ent, place :
          /\ s = Now /\ T = files /\ IsState(s, Units) /\ Tidy(s, T, ent, place)
          /\ Unreached(s, T, ent) = {} /\ s.mode = mode /\ IsRecord(T)
    BY HeldNow
  <1>2. PICK t, q, r, T2, ent2, place2 :
          /\ t = Renamed(s, p, n) /\ q = Front(p) /\ r = Append(q, n) /\ T2 = Moving(T, p, r, T[p])
          /\ ent2 = OnPaths(T2, ent, r, Relabelled(ent[p], n)) /\ place2 = OnPaths(T2, place, r, place[p])
    OBVIOUS
  <1>3. T2 = With(Without(T, p), r, T[p]) /\ IsRecord(T2)
    <2>1. IsRecord(Without(T, p))
      BY <1>1, RecordWithout
    <2>2. IsRecord(With(Without(T, p), r, T[p]))
      BY <2>1, RecordWith
    <2>3. T2 = With(Without(T, p), r, T[p])
      BY <1>2 DEF With, Without, Moving
    <2> QED
      BY <2>2, <2>3
  <1>4. Renames(T, T2, p, n, q, r) /\ Call(t, T2) /\ s.mode = "shell"
    BY <1>1, <1>2, <1>3 DEF Rename, Renames, NewNameOf, Call, FilePaths, Paths
  <1>5. LET t1 == Renamed(s, p, n)
            ent1 == OnPaths(T2, ent, r, Relabelled(ent[p], n))
        IN  /\ IsState(t1, Units) /\ t1.mode = s.mode
            /\ Tidy(t1, T2, ent1, OnPaths(T2, place, r, place[p]))
            /\ Unreached(t1, T2, ent1) = Unreached(s, T, ent)
    <2>1. IsState(s, Units) /\ Tidy(s, T, ent, place)
      BY <1>1
    <2> QED
      BY <1>4, <2>1, RenamedTidy
  <1>6. Holds(t, T2, ent2, place2) /\ t.mode = "shell"
    BY <1>1, <1>2, <1>4, <1>5 DEF Holds
  <1> QED
    BY <1>3, <1>4, <1>6, CallKeepsInv

(***************************************************************************)
(* copy_file                                                               *)
(***************************************************************************)

(* The directory q has room for one more name, and r is that of p there. *)
RoomFor(T, ent, p, q, r) ==
  /\ q \in DOMAIN T /\ Last(q) \in DirNames /\ Len(q) <= MaxDepth /\ ent[q].size < CLUSTER_SIZE
  /\ r = Append(q, Last(p)) /\ r \notin DOMAIN T

(* The text of p under r too, and nothing else at another place. *)
CopyHolds(t, U, T, ent, place, ent2, place2, p, q, r) ==
  /\ IsState(t, U) /\ t.mode = "shell"
  /\ Tidy(t, With(T, r, T[p]), ent2, place2)
  /\ \A x \in DOMAIN T : (x # q => ent2[x] = ent[x]) /\ place2[x] = place[x]

LEMMA CopiedTidy ==
  ASSUME NEW s0, NEW U, IsState(s0, U), NEW T, NEW ent, NEW place, Tidy(s0, T, ent, place), s0.mode = "shell",
         NEW p, SettledFile(T, ent, p), NEW q, NEW r, RoomFor(T, ent, p, q, r)
  PROVE  /\ FreeClusters(s0) = {} => Copied(s0, p, q) = Filled(Loaded(s0))
         /\ FreeClusters(s0) # {} =>
              \E ent2, place2 :
                /\ CopyHolds(Copied(s0, p, q), U, T, ent, place, ent2, place2, p, q, r)
                /\ Unreached(Copied(s0, p, q), With(T, r, T[p]), ent2) = Unreached(s0, T, ent)
  <1>0. /\ p \in DOMAIN T /\ Last(p) \in FileNames /\ ent[p].size = Len(T[p])
        /\ q \in DOMAIN T /\ Last(q) \in DirNames /\ Len(q) <= MaxDepth /\ ent[q].size < CLUSTER_SIZE
        /\ r = Append(q, Last(p)) /\ r \notin DOMAIN T
    BY DEF SettledFile, RoomFor
  <1>1. PICK s, n, t, f : s = Loaded(s0) /\ n = Last(p) /\ t = Copied(s0, p, q) /\ f = ent[p]
    OBVIOUS
  <1>2. /\ IsState(s, U) /\ Tidy(s, T, ent, place) /\ s.read /\ s.mode = "shell" /\ s.fat = s0.fat
        /\ Shape(T) /\ Named(T, ent)
    BY <1>1, TidyLoaded DEF Tidy, Listed
  <1>3. f \in Inode /\ f # NoFile /\ f.name = n /\ n \in Names /\ n \in FileNames
    BY <1>0, <1>1, <1>2, UnitsApart DEF Named, Names
  (* The file is found, *)
  <1>4. FileAt(s, p) = f /\ FileEnd(s, p) = "file"
    <2>1. PICK up : up = Front(p)
      OBVIOUS
    <2>2. up \in DOMAIN T /\ Last(up) \in DirNames /\ Append(up, n) = p
      BY <1>0, <1>1, <1>2, <2>1, FileDirectory
    <2>3. /\ FileEnd(s, Append(up, n)) = "file"
          /\ FileAt(s, Append(up, n)) = IF Append(up, n) \in DOMAIN T THEN ent[Append(up, n)] ELSE NoFile
      <3>1. /\ IsState(s, U) /\ s.read /\ Tidy(s, T, ent, place) /\ up \in DOMAIN T /\ Last(up) \in DirNames
            /\ n \in FileNames
        BY <1>2, <1>3, <2>2
      <3> QED
        BY <3>1, FileAtIs
    <2> QED
      BY <1>0, <1>1, <2>2, <2>3
  (* a new one created, *)
  <1>5. PICK c : c = Created(s, n, q)
    OBVIOUS
  <1>6. t = Then(c, Written(c, r, Content(c, f)))
    BY <1>0, <1>1, <1>3, <1>4, <1>5 DEF Copied, IsStray
  <1>7. FreeClusters(s) = FreeClusters(s0)
    BY <1>2 DEF FreeClusters
  <1>8. ASSUME FreeClusters(s0) = {} PROVE t = Filled(s)
    <2>1. c = Filled(s)
      BY <1>5, <1>7, <1>8 DEF Created, Filled
    <2>2. c.mode = "full"
      BY <1>2, <2>1, FilledTidy
    <2> QED
      BY <1>6, <2>1, <2>2 DEF Then
  <1>9. ASSUME FreeClusters(s0) # {}
        PROVE  \E ent2, place2 :
                 /\ CopyHolds(t, U, T, ent, place, ent2, place2, p, q, r)
                 /\ Unreached(t, With(T, r, T[p]), ent2) = Unreached(s0, T, ent)
    <2>1. PICK T1, ent1, place1 : /\ T1 = Grown(T, r, <<>>) /\ ent1 = EntriesWith(T, ent, q, NewFile(s, n))
                                  /\ place1 = PlacesWith(T, ent, place, q, NewFile(s, n))
      OBVIOUS
    <2>2. IsState(c, U) /\ c.mode = "shell" /\ Tidy(c, T1, ent1, place1) /\ Unreached(c, T1, ent1) = Unreached(s, T, ent)
      <3>1. LET t1 == Created(s, n, q)
                T2 == Grown(T, Append(q, n), <<>>)
                ent2 == EntriesWith(T, ent, q, NewFile(s, n))
            IN  /\ IsState(t1, U) /\ t1.mode = s.mode
                /\ Tidy(t1, T2, ent2, PlacesWith(T, ent, place, q, NewFile(s, n)))
                /\ Unreached(t1, T2, ent2) = Unreached(s, T, ent)
        <4>1. IsState(s, U) /\ Tidy(s, T, ent, place) /\ Append(q, n) \notin DOMAIN T /\ FreeClusters(s) # {}
          BY <1>0, <1>1, <1>2, <1>7, <1>9
        <4> QED
          <5>1. n \in Names \ Misread
            BY <1>3, FilesAssumption
          <5> QED
            BY <1>0, <4>1, <5>1, CreatedTidy
      <3> QED
        BY <1>0, <1>1, <1>2, <1>5, <2>1, <3>1
    <2>3. NewFile(s, n).name = n
      BY DEF NewFile
    <2>4. /\ DOMAIN T1 = DOMAIN T \cup {r} /\ T1[r] = <<>> /\ \A x \in DOMAIN T : T1[x] = T[x]
          /\ \A x \in DOMAIN T : (x # q => ent1[x] = ent[x]) /\ place1[x] = place[x]
      BY <1>0, <1>1, <2>1, <2>3 DEF Grown, EntriesWith, PlacesWith
    <2>5. p # q /\ p # r
      BY <1>0, FileSystemAssumption
    (* and its data written. *)
    <2>6. Content(c, f) = T[p] /\ T[p] \in Seq(Bytes) /\ Len(T[p]) < CLUSTER_SIZE
      <3>1. p \in DOMAIN T1 /\ ent1[p] = f /\ T1[p] = T[p] /\ ent1[p].size = Len(T1[p])
        BY <1>0, <1>1, <2>4, <2>5
      <3>2. Content(c, ent1[p]) = T1[p] /\ T1[p] \in Seq(Bytes)
        BY <1>0, <2>2, <3>1, TextRead DEF Tidy
      <3> QED
        BY <1>0, <1>2, <3>1, <3>2 DEF Shape
    <2>7. PICK d : d = T[p]
      OBVIOUS
    <2>8. t = Written(c, r, d)
      BY <1>6, <2>2, <2>6, <2>7 DEF Then
    <2>9. r \in DOMAIN T1 /\ Last(r) = n /\ Last(r) \in FileNames
      <3>1. q \in Seq(Names)
        BY <1>0, <1>2, PathTyped
      <3> QED
        BY <1>0, <1>1, <1>3, <2>4, <3>1, AppendIs
    <2>10. PICK T2, ent2 : T2 = [T1 EXCEPT ![r] = d] /\ ent2 = EntryNow(T1, ent1, r, Resized(ent1[r], Len(d)))
      OBVIOUS
    <2>11. IsState(t, U) /\ t.mode = "shell" /\ Tidy(t, T2, ent2, place1) /\ Unreached(t, T2, ent2) = Unreached(c, T1, ent1)
      <3>1. LET t1 == Written(c, r, d)
                ent3 == EntryNow(T1, ent1, r, Resized(ent1[r], Len(d)))
            IN  /\ IsState(t1, U) /\ t1.mode = c.mode /\ t1.fat = c.fat
                /\ Tidy(t1, [T1 EXCEPT ![r] = d], ent3, place1)
                /\ Unreached(t1, [T1 EXCEPT ![r] = d], ent3) = Unreached(c, T1, ent1)
        <4>1. d \in Seq(Bytes) /\ Len(d) < CLUSTER_SIZE /\ IsState(c, U) /\ Tidy(c, T1, ent1, place1)
          BY <2>2, <2>6, <2>7
        <4> QED
          BY <2>9, <4>1, WrittenTidy
      <3> QED
        BY <2>2, <2>8, <2>10, <3>1
    <2>12. T2 = With(T, r, T[p])
      <3>1. T2 = [x \in DOMAIN T \cup {r} |-> IF x = r THEN d ELSE T[x]]
        BY <2>1, <2>4, <2>10 DEF Grown
      <3> QED
        BY <2>7, <3>1 DEF With
    <2>13. \A x \in DOMAIN T : (x # q => ent2[x] = ent[x]) /\ place1[x] = place[x]
      BY <1>0, <2>4, <2>10 DEF EntryNow
    <2>14. Unreached(s, T, ent) = Unreached(s0, T, ent)
      BY <1>2 DEF Unreached
    <2>15. CopyHolds(t, U, T, ent, place, ent2, place1, p, q, r)
      BY <2>11, <2>12, <2>13 DEF CopyHolds
    <2>16. Unreached(t, With(T, r, T[p]), ent2) = Unreached(s0, T, ent)
      BY <2>2, <2>11, <2>12, <2>14
    <2> QED
      BY <2>15, <2>16
  <1> QED
    BY <1>1, <1>8, <1>9

(* Where a directory takes one more name, there is room for its entry. *)
LEMMA TakesIs ==
  ASSUME FilesInv, NEW T, T = files, NEW ent, \A q \in DirPaths : Cardinality(Children(q)) = ent[q].size,
         NEW p \in FilePaths, NEW q \in DirPaths, Takes(q, Last(p)), NEW r, r = Append(q, Last(p))
  PROVE  RoomFor(T, ent, p, q, r)
  <1>1. q \in DOMAIN T /\ Last(q) \in DirNames /\ ent[q].size < CLUSTER_SIZE /\ r \notin DOMAIN T
    BY DEF Takes, DirPaths, Paths
  <1>2. Shape(T)
    BY HeldNow
  <1>3. Len(q) \in Nat /\ Len(q) < MaxDepth
    BY <1>1, <1>2, PathTyped DEF Takes
  <1> QED
    BY <1>1, <1>3, FileSystemAssumption DEF RoomFor

LEMMA CopyKeeps ==
  ASSUME FilesInv, NEW p, NEW q, Copy(p, q) PROVE FilesInv'
  <1>1. PICK s, T, ent, place :
          /\ s = Now /\ T = files /\ IsState(s, Units) /\ Tidy(s, T, ent, place)
          /\ Unreached(s, T, ent) = {} /\ s.mode = mode /\ IsRecord(T)
          /\ \A x \in DirPaths : Cardinality(Children(x)) = ent[x].size
    BY HeldNow
  <1>2. PICK t, r, T2 : t = Copied(s, p, q) /\ r = Append(q, Last(p)) /\ T2 = With(T, r, T[p])
    OBVIOUS
  <1>3. p \in FilePaths /\ Settled(p) /\ q \in DirPaths /\ Takes(q, Last(p)) /\ Call(t, T2) /\ s.mode = "shell"
    BY <1>1, <1>2 DEF Copy, Call
  <1>4. p \in DOMAIN T /\ Last(p) \in FileNames
    BY <1>1, <1>3 DEF FilePaths, Paths
  <1>5. SettledFile(T, ent, p) /\ RoomFor(T, ent, p, q, r)
    <2>1. ent[p].size = Len(T[p])
      BY <1>1, <1>3, <1>4, SettledIs
    <2>2. RoomFor(T, ent, p, q, r)
      BY <1>1, <1>2, <1>3, TakesIs
    <2> QED
      BY <1>4, <2>1, <2>2 DEF SettledFile
  <1>6. /\ FreeClusters(s) = {} => t = Filled(Loaded(s))
        /\ FreeClusters(s) # {} =>
             \E ent2, place2 :
               /\ CopyHolds(t, Units, T, ent, place, ent2, place2, p, q, r)
               /\ Unreached(t, T2, ent2) = {}
    BY <1>1, <1>2, <1>3, <1>5, CopiedTidy
  <1>7. CASE FreeClusters(s) = {}
    <2>1. /\ IsState(Loaded(s), Units) /\ Tidy(Loaded(s), T, ent, place)
          /\ Unreached(Loaded(s), T, ent) = {}
      BY <1>1, TidyLoaded DEF Unreached
    <2>2. t.mode = "full" /\ Holds(t, files, ent, place)
      BY <1>1, <1>6, <1>7, <2>1, FilledTidy DEF Holds
    <2> QED
      BY <1>1, <1>3, <2>2, CallKeepsInv
  <1>8. CASE FreeClusters(s) # {}
    <2>1. PICK ent2, place2 : /\ CopyHolds(t, Units, T, ent, place, ent2, place2, p, q, r)
                              /\ Unreached(t, T2, ent2) = {}
      BY <1>6, <1>8
    <2>2. Holds(t, T2, ent2, place2) /\ t.mode = "shell"
      BY <1>2, <2>1 DEF Holds, CopyHolds
    <2>3. IsRecord(T2)
      BY <1>1, <1>2, RecordWith
    <2> QED
      BY <1>3, <2>2, <2>3, CallKeepsInv
  <1> QED
    BY <1>7, <1>8

(***************************************************************************)
(* delete_file                                                             *)
(***************************************************************************)

(* What remove_dir_entry keeps. *)
UnitAt(old, i) == IF i <= Len(old) THEN old[i] ELSE Junk
Keeps(old, n, i) == ~(IsInode(UnitAt(old, i)) /\ UnitAt(old, i).name = n)
IsWalk(g, old, size, n) ==
  g = [k \in 0..size |-> IF k = 0 THEN 1
                         ELSE IF Keeps(old, n, g[k - 1]) THEN g[k - 1] + 2 ELSE g[k - 1] + 1]

LEMMA KeptEntriesIs ==
  ASSUME NEW old, Len(old) \in Nat, NEW n, NEW size \in {1, 2}, size <= Len(old),
         IsInode(old[1]), old[1].name = n, size = 2 => IsInode(old[2]) /\ old[2].name # n
  PROVE  /\ size = 1 => KeptEntries(old, size, n) = <<>>
         /\ size = 2 => KeptEntries(old, size, n) = <<old[2]>>
  <1>1. UnitAt(old, 1) = old[1] /\ (size = 2 => UnitAt(old, 2) = old[2])
    BY DEF UnitAt
  <1>2. ~Keeps(old, n, 1) /\ (size = 2 => Keeps(old, n, 2))
    BY <1>1 DEF Keeps
  <1>3. \E g : IsWalk(g, old, size, n)
    <2> DEFINE g == [k \in 0..size |-> IF k = 0 THEN 1 ELSE IF k = 1 THEN 2 ELSE 4]
    <2>1. ASSUME NEW k \in 0..size
          PROVE  g[k] = IF k = 0 THEN 1 ELSE IF Keeps(old, n, g[k - 1]) THEN g[k - 1] + 2 ELSE g[k - 1] + 1
      <3>1. k = 0 \/ k = 1 \/ (k = 2 /\ size = 2)
        OBVIOUS
      <3>2. CASE k = 0
        BY <3>2
      <3>3. CASE k = 1
        <4>1. g[k - 1] = 1 /\ g[k] = 2
          BY <3>3
        <4> HIDE DEF g
        <4> QED
          BY <1>2, <3>3, <4>1
      <3>4. CASE k = 2 /\ size = 2
        <4>1. g[k - 1] = 2 /\ g[k] = 4
          BY <3>4
        <4> HIDE DEF g
        <4> QED
          BY <1>2, <3>4, <4>1
      <3> QED
        BY <3>1, <3>2, <3>3, <3>4
    <2>2. g = [k \in 0..size |-> g[k]]
      OBVIOUS
    <2> HIDE DEF g
    <2>3. IsWalk(g, old, size, n)
      BY <2>1, <2>2 DEF IsWalk
    <2> QED
      BY <2>3
  <1> DEFINE at == CHOOSE g : IsWalk(g, old, size, n)
  <1>4. IsWalk(at, old, size, n)
    BY <1>3
  <1> DEFINE copied == {k \in 0..size - 1 : Keeps(old, n, at[k])}
  <1>5. KeptEntries(old, size, n) =
          [i \in 1..size - 1 |-> IF i = 1 /\ copied # {} THEN UnitAt(old, at[Largest(copied)]) ELSE Zero]
    BY DEF KeptEntries, IsWalk, Keeps, UnitAt
  <1> HIDE DEF at
  <1>6. at[0] = 1 /\ at[1] = 2
    <2>1. 0 \in 0..size /\ 1 \in 0..size /\ 1 - 1 = 0
      OBVIOUS
    <2>2. at[0] = 1
      BY <1>4, <2>1 DEF IsWalk
    <2>3. at[1] = IF Keeps(old, n, at[0]) THEN at[0] + 2 ELSE at[0] + 1
      BY <1>4, <2>1 DEF IsWalk
    <2> QED
      BY <1>2, <2>2, <2>3
  <1>7. CASE size = 1
    BY <1>5, <1>7
  <1>8. CASE size = 2
    <2>1. copied = {1}
      <3>1. \A k \in 0..1 : Keeps(old, n, at[k]) <=> k = 1
        BY <1>2, <1>6, <1>8
      <3> QED
        BY <1>8, <3>1
    <2> HIDE DEF copied
    <2>2. Largest(copied) = 1
      BY <2>1 DEF Largest
    <2>3. KeptEntries(old, size, n) = [i \in 1..1 |-> UnitAt(old, 2)]
      BY <1>5, <1>6, <1>8, <2>1, <2>2
    <2> QED
      BY <1>1, <1>8, <2>3
  <1> QED
    BY <1>7, <1>8

(* fat_delete_file leaves the sectors listed. *)
LEMMA StruckIs ==
  ASSUME NEW rt \in [1..ROOT_ENTRIES -> Units]
  PROVE  Struck(rt) \in [1..ROOT_ENTRIES -> Units] /\ Struck(rt)[1] = rt[1]
  <1>1. ASSUME NEW u \in Units, IsInode(u) PROVE [u EXCEPT !.size = 0] \in Units
    <2>1. u \in Inode
      BY <1>1 DEF Units, IsInode
    <2>2. [u EXCEPT !.size = 0] \in Inode
      BY <2>1 DEF Inode
    <2> QED
      BY <2>2 DEF Units
  <1>2. 1 \in 1..ROOT_ENTRIES /\ EOC_ENTRY # 1
    BY FileSystemAssumption, FileCallsAssumption
  <1>3. ASSUME NEW i \in 1..ROOT_ENTRIES PROVE Struck(rt)[i] \in Units
    BY <1>1 DEF Struck
  <1>4. Struck(rt) = [i \in 1..ROOT_ENTRIES |-> Struck(rt)[i]]
    BY DEF Struck
  <1>5. Struck(rt)[1] = rt[1]
    BY <1>2 DEF Struck
  <1> QED
    BY <1>3, <1>4, <1>5

LEMMA FatDeleteIs ==
  ASSUME NEW s, IsState(s, Units), s.read, NEW T, NEW ent, NEW place, Listed(s, T, ent, place),
         NEW f \in Inode, NEW t, t = FatDelete(s, f)
  PROVE  /\ IsState(t, Units) /\ Listed(t, T, ent, place) /\ t.read /\ t.mode = s.mode /\ t.data = s.data
         /\ t.fat = [s.fat EXCEPT ![f.cluster] = 0]
  <1>1. PICK s1 : s1 = [s EXCEPT !.fat[f.cluster] = 0, !.root = Struck(s.root)]
    OBVIOUS
  <1>2. f # NoFile /\ f.cluster \in Clusters
    BY UnitsApart
  <1>3. s1 = [fat |-> [s.fat EXCEPT ![f.cluster] = 0], data |-> s.data, root |-> Struck(s.root),
              diskRoot |-> s.diskRoot, entries |-> s.entries, read |-> s.read, mode |-> s.mode,
              writes |-> s.writes]
    BY <1>1 DEF IsState
  <1>4. s.root \in [1..ROOT_ENTRIES -> Units] /\ s.fat \in [Clusters -> {0, EOC}]
    BY DEF IsState
  <1>5. Struck(s.root) \in [1..ROOT_ENTRIES -> Units] /\ Struck(s.root)[1] = s.root[1]
    BY <1>4, StruckIs
  <1>6. IsState(s1, Units)
    BY <1>3, <1>4, <1>5 DEF IsState
  <1>7. t = Stored(s1)
    BY <1>1, <1>2 DEF FatDelete
  <1>8. /\ IsState(t, Units) /\ t.fat = [s.fat EXCEPT ![f.cluster] = 0] /\ t.data = s.data
        /\ t.root[1] = s.root[1] /\ t.diskRoot = s.diskRoot
        /\ t.entries = s.entries /\ t.read = s.read /\ t.mode = s.mode
    <2>1. /\ IsState(t, Units) /\ t.fat = s1.fat /\ t.data = s1.data /\ t.root = s1.root
          /\ t.diskRoot = s1.diskRoot /\ t.entries = s1.entries /\ t.read = s1.read /\ t.mode = s1.mode
      BY <1>6, <1>7, StoredIs
    <2>2. /\ s1.fat = [s.fat EXCEPT ![f.cluster] = 0] /\ s1.data = s.data /\ s1.root = Struck(s.root)
          /\ s1.diskRoot = s.diskRoot /\ s1.entries = s.entries /\ s1.read = s.read /\ s1.mode = s.mode
      BY <1>3
    <2> QED
      BY <1>5, <2>1, <2>2
  <1>9. RootIs(t, ent[<<ROOT>>])
    BY <1>8 DEF Listed, RootIs
  <1>10. \A p \in DOMAIN T : InSectors(t, T, ent, place, p)
    BY <1>8 DEF Listed, InSectors
  <1> QED
    BY <1>8, <1>9, <1>10 DEF Listed

(* The path p, with nothing below it, is the first of at most two names of *)
(* its directory q.                                                        *)
FirstOfTwo(T, ent, place, p, q) ==
  /\ p \in DOMAIN T /\ p # <<ROOT>> /\ Below(T, p) = {} /\ q = Front(p)
  /\ place[p] = 1 /\ ent[q].size <= 2

LEMMA ShapeWithout ==
  ASSUME NEW T, Shape(T), NEW p \in DOMAIN T, p # <<ROOT>>, Below(T, p) = {}
  PROVE  Shape(Without(T, p))
  <1>1. PICK T2 : T2 = Without(T, p)
    OBVIOUS
  <1>2. DOMAIN T2 = DOMAIN T \ {p} /\ \A x \in DOMAIN T2 : T2[x] = T[x]
    BY <1>1 DEF Without
  <1>3. <<ROOT>> \in DOMAIN T2
    BY <1>2 DEF Shape
  <1>4. ASSUME NEW x \in DOMAIN T2
        PROVE  /\ x \in Seq(Names) /\ Len(x) \in 1..MaxDepth + 1 /\ x[1] = ROOT
               /\ Len(x) > 1 => Front(x) \in DOMAIN T2 /\ Last(Front(x)) \in DirNames
               /\ T2[x] \in Seq(Bytes) /\ Len(T2[x]) < CLUSTER_SIZE
               /\ Last(x) \in DirNames => T2[x] = <<>>
    <2>1. Len(x) > 1 => Front(x) # p
      BY <1>2 DEF Below
    <2> QED
      BY <1>2, <2>1 DEF Shape
  <1> QED
    BY <1>1, <1>3, <1>4 DEF Shape

(* The listing of a directory of one or two names without the first. *)
MovedUp(T2, ent, ent2, place2, q) == \A x \in Below(T2, q) : ent2[x] = ent[x] /\ place2[x] = 1

LEMMA ListsWithout ==
  ASSUME NEW T, NEW ent, Named(T, ent), NEW place, NEW p, NEW q, FirstOfTwo(T, ent, place, p, q), p \in Below(T, q),
         NEW sec \in [1..CLUSTER_SIZE -> Units], NEW k, ListsBelow(sec, k, T, ent, place, q), k \in {1, 2},
         NEW T2, T2 = Without(T, p), NEW ent2, NEW place2,
         MovedUp(T2, ent, ent2, place2, q)
  PROVE  /\ k = 1 => ListsBelow(sec, 0, T2, ent2, place2, q)
         /\ k = 2 => ListsBelow(Sector(<<sec[2]>>, 1), 1, T2, ent2, place2, q)
  <1>1. p \in DOMAIN T /\ place[p] = 1
    BY DEF FirstOfTwo
  <1>2. Below(T2, q) = Below(T, q) \ {p}
    BY DEF Below, Without
  <1>3. /\ \A x \in Below(T, q) : place[x] \in 1..k /\ sec[place[x]] = ent[x] /\ x \in DOMAIN T /\ Front(x) = q
        /\ \A i \in 1..k : \E x \in Below(T, q) : place[x] = i
    BY DEF ListsBelow, Below
  <1>4. \A x, y \in Below(T, q) : place[x] = place[y] => x = y
    BY PlacesApart
  <1>5. CASE k = 1
    <2>1. \A x \in Below(T, q) : x = p
      BY <1>1, <1>3, <1>4, <1>5
    <2>2. Below(T2, q) = {}
      BY <1>2, <2>1
    <2>3. 0 \in 0..CLUSTER_SIZE /\ \A i \in 1..0 : FALSE
      BY Constants
    <2> QED
      BY <1>5, <2>2, <2>3 DEF ListsBelow
  <1>6. CASE k = 2
    <2>1. PICK x \in Below(T, q) : place[x] = 2
      BY <1>3, <1>6
    <2>2. x # p /\ sec[2] = ent[x] /\ x \in DOMAIN T /\ Front(x) = q
      BY <1>1, <1>3, <2>1
    <2>3. Below(T2, q) = {x}
      <3>1. ASSUME NEW y \in Below(T, q), y # p PROVE y = x
        BY <1>1, <1>3, <1>4, <1>6, <2>1, <3>1
      <3> QED
        BY <1>2, <2>1, <2>2, <3>1
    <2>4. PICK new : new = Sector(<<sec[2]>>, 1)
      OBVIOUS
    <2>5. new[1] = ent[x] /\ \A i \in 2..CLUSTER_SIZE : new[i] = Zero
      <3>1. 2 \in 1..CLUSTER_SIZE /\ CLUSTER_SIZE \in Nat
        BY FileSystemAssumption
      <3>2. sec[2] \in Units /\ Zero \in Units
        BY <3>1 DEF Units
      <3>3. <<sec[2]>> \in Seq(Units) /\ Len(<<sec[2]>>) = 1 /\ <<sec[2]>>[1] = sec[2] /\ 1 <= Len(<<sec[2]>>)
        BY <3>2
      <3>4. PICK b : b = <<sec[2]>>
        OBVIOUS
      <3>5. PICK m \in Nat : m = 1
        OBVIOUS
      <3>6. \A i \in 1..CLUSTER_SIZE : Sector(b, m)[i] = IF i > m THEN Zero ELSE b[i]
        <4>1. b \in Seq(Units) /\ m \in Nat /\ m <= Len(b) /\ Zero \in Units
          BY <3>2, <3>3, <3>4, <3>5
        <4> QED
          BY <4>1, SectorIs
      <3> QED
        BY <2>2, <2>4, <3>1, <3>3, <3>4, <3>5, <3>6
    <2>6. ListsBelow(new, 1, T2, ent2, place2, q)
      <3>1. 1 \in 0..CLUSTER_SIZE
        BY FileSystemAssumption
      <3>2. ent2[x] = ent[x] /\ place2[x] = 1
        BY <2>3 DEF MovedUp
      <3>3. \A i \in 1..1 : i = 1
        OBVIOUS
      <3>4. \A i \in 1 + 1..CLUSTER_SIZE : new[i] = Zero
        BY <2>5
      <3> QED
        BY <2>3, <2>5, <3>1, <3>2, <3>3, <3>4 DEF ListsBelow
    <2> QED
      BY <1>6, <2>4, <2>6
  <1> QED
    BY <1>5, <1>6

(* remove_dir_entry of the first of at most two names leaves the other. *)
LEMMA EntryRemoved ==
  ASSUME NEW s, IsState(s, Units), s.read, NEW T, NEW ent, NEW place, Listed(s, T, ent, place),
         NEW p, NEW q, FirstOfTwo(T, ent, place, p, q), NEW sec, sec = s.data[ent[q].cluster],
         NEW k, k = ent[q].size
  PROVE  /\ k \in {1, 2}
         /\ \E rest \in Seq(Units) :
              /\ DirEdited(RemoveDirEntry(s, q, Last(p)), s, Units, ent, place, q, rest)
              /\ Len(rest) = k - 1 /\ (k = 2 => rest = <<sec[2]>>)
  <1>1. p \in DOMAIN T /\ p # <<ROOT>> /\ q = Front(p) /\ place[p] = 1 /\ k <= 2
    BY DEF FirstOfTwo
  <1>2. /\ q \in DOMAIN T /\ Last(q) \in DirNames /\ p \in Below(T, q) /\ Append(q, Last(p)) = p
        /\ Navigate(s, q).end = "open" /\ Current(Navigate(s, q)) = ent[q]
        /\ ReadFile(s, ent[q]) = sec /\ SizeOf(s, ent[q]) = k
        /\ place[p] \in 1..k /\ sec[place[p]] = ent[p]
        /\ ListsBelow(sec, k, T, ent, place, q)
        /\ ent[p] \in Inode /\ ent[q] \in Inode
    BY <1>1, InDirectory
  <1>3. k \in {1, 2}
    BY <1>1, <1>2 DEF Inode
  <1>4. sec \in [1..CLUSTER_SIZE -> Units] /\ Len(sec) = CLUSTER_SIZE /\ CLUSTER_SIZE \in Nat /\ CLUSTER_SIZE >= 2
    <2>1. CLUSTER_SIZE \in Nat /\ CLUSTER_SIZE >= 2
      BY FileSystemAssumption
    <2>2. ent[q].cluster \in Clusters
      BY <1>2, UnitsApart
    <2>3. sec \in [1..CLUSTER_SIZE -> Units]
      BY <2>2 DEF IsState
    <2> QED
      BY <2>1, <2>3, FunctionIsSeq
  <1>5. IsInode(sec[1]) /\ sec[1].name = Last(p)
    BY <1>1, <1>2, UnitsApart DEF Listed, Named
  <1>6. ASSUME k = 2 PROVE IsInode(sec[2]) /\ sec[2].name # Last(p) /\ sec[2] \in Units
    <2>1. PICK x \in Below(T, q) : place[x] = 2
      BY <1>2, <1>6 DEF ListsBelow
    <2>2. sec[2] = ent[x] /\ x \in DOMAIN T /\ Front(x) = q /\ x # p
      BY <1>1, <1>2, <2>1 DEF ListsBelow, Below
    <2>3. ent[x] \in Inode /\ ent[x].name = Last(x)
      BY <2>2 DEF Listed, Named
    <2>4. x # <<ROOT>>
      <3>1. Len(x) > 1 /\ Len(<<ROOT>>) = 1
        BY <2>1 DEF Below
      <3> QED
        BY <3>1
    <2>5. Append(q, Last(x)) = x
      BY <2>2, <2>4, InDirectory
    <2> QED
      BY <1>2, <2>2, <2>3, <2>5, UnitsApart DEF Units
  <1>7. PICK n, rest : n = Last(p) /\ rest = KeptEntries(sec, k, n)
    OBVIOUS
  <1>8. (k = 1 => rest = <<>>) /\ (k = 2 => rest = <<sec[2]>>)
    <2>1. Len(sec) \in Nat /\ k \in {1, 2} /\ k <= Len(sec)
      BY <1>3, <1>4
    <2>2. IsInode(sec[1]) /\ sec[1].name = n /\ (k = 2 => IsInode(sec[2]) /\ sec[2].name # n)
      BY <1>5, <1>6, <1>7
    <2>3. /\ k = 1 => KeptEntries(sec, k, n) = <<>>
          /\ k = 2 => KeptEntries(sec, k, n) = <<sec[2]>>
      BY <2>1, <2>2, KeptEntriesIs
    <2> QED
      BY <1>7, <2>3
  <1>9. rest \in Seq(Units) /\ Len(rest) = k - 1
    <2>1. CASE k = 1
      BY <1>8, <2>1
    <2>2. CASE k = 2
      <3>1. PICK u \in Units : u = sec[2]
        BY <1>6, <2>2
      <3>2. <<u>> \in Seq(Units) /\ Len(<<u>>) = 1
        OBVIOUS
      <3>3. rest = <<u>> /\ k - 1 = 1
        BY <1>8, <2>2, <3>1
      <3> QED
        BY <3>2, <3>3
    <2> QED
      BY <1>3, <2>1, <2>2
  <1>10. RemoveDirEntry(s, q, n) = EditDirectory(s, Navigate(s, q), q, rest)
    <2>1. ent[q] # NoFile /\ k # 0 /\ ~IsStray(Navigate(s, q).end)
      BY <1>2, <1>3, UnitsApart DEF IsStray
    <2> QED
      BY <1>2, <1>7, <2>1 DEF RemoveDirEntry
  <1>11. DirEdited(EditDirectory(s, Navigate(s, q), q, rest), s, Units, ent, place, q, rest)
    BY <1>2, <1>9, EditDirectoryIs
  <1> QED
    BY <1>3, <1>7, <1>8, <1>9, <1>10, <1>11

(* The tree, its entries and places when p, the first of the names of q,   *)
(* is gone.                                                                *)
WithoutFirst(T, ent, place, p, q, T2, ent2, place2) ==
  /\ T2 = Without(T, p)
  /\ ent2 = [x \in DOMAIN T2 |-> IF x = q THEN Resized(ent[q], ent[q].size - 1) ELSE ent[x]]
  /\ place2 = [x \in DOMAIN T2 |-> IF x \in Below(T, q) THEN 1 ELSE place[x]]

LEMMA RemovedListed ==
  ASSUME NEW s, IsState(s, Units), s.read, NEW T, NEW ent, NEW place, Listed(s, T, ent, place),
         NEW p, NEW q, FirstOfTwo(T, ent, place, p, q), NEW T2, NEW ent2, NEW place2,
         WithoutFirst(T, ent, place, p, q, T2, ent2, place2)
  PROVE  LET t == RemoveDirEntry(s, q, Last(p))
         IN  IsState(t, Units) /\ t.fat = s.fat /\ t.mode = s.mode /\ Listed(t, T2, ent2, place2)
  <1>0. PICK t : t = RemoveDirEntry(s, q, Last(p))
    OBVIOUS
  <1>1. PICK k, sec : k = ent[q].size /\ sec = s.data[ent[q].cluster]
    OBVIOUS
  <1>2. k \in {1, 2}
    BY <1>1, EntryRemoved
  <1>3. PICK rest \in Seq(Units) : /\ DirEdited(t, s, Units, ent, place, q, rest)
                                   /\ Len(rest) = k - 1 /\ (k = 2 => rest = <<sec[2]>>)
    BY <1>0, <1>1, EntryRemoved
  <1>4. p \in DOMAIN T /\ p # <<ROOT>> /\ q = Front(p) /\ Below(T, p) = {}
    BY DEF FirstOfTwo
  <1>5. /\ q \in DOMAIN T /\ Last(q) \in DirNames /\ p # q /\ p \in Below(T, q)
        /\ ListsBelow(sec, k, T, ent, place, q) /\ ent[q] \in Inode
    BY <1>1, <1>4, InDirectory
  <1>6. DOMAIN T2 = DOMAIN T \ {p} /\ q \in DOMAIN T2 /\ \A x \in DOMAIN T2 : T2[x] = T[x]
    BY <1>4, <1>5 DEF WithoutFirst, Without
  <1>7. /\ \A x \in DOMAIN T2 : /\ x # q => ent2[x] = ent[x]
                                /\ Front(x) # q => place2[x] = place[x]
        /\ ent2[q] = Resized(ent[q], k - 1)
        /\ \A x \in DOMAIN T2 : x \in Below(T, q) => place2[x] = 1
    BY <1>1, <1>6 DEF WithoutFirst, Below
  <1>8. Shape(T2)
    BY <1>4, ShapeWithout DEF Listed, WithoutFirst
  <1>9. ent2[q] \in Inode /\ ent2[q].name = ent[q].name /\ ent2[q].cluster = ent[q].cluster /\ ent2[q].size = k - 1
    <2>1. PICK m \in Nat : m = k - 1
      <3>1. k - 1 \in Nat
        BY <1>2
      <3> QED
        BY <3>1
    <2>2. ent[q] \in Inode /\ ent2[q] = Resized(ent[q], m)
      BY <1>5, <1>7, <2>1
    <2> QED
      BY <2>1, <2>2, ResizedIs
  <1>10. \A x \in DOMAIN T2 : ent2[x] \in Inode /\ ent2[x].name = ent[x].name /\ ent2[x].cluster = ent[x].cluster
    BY <1>6, <1>7, <1>9 DEF Listed, Named
  <1>11. Named(T2, ent2)
    BY <1>6, <1>10 DEF Listed, Named
  <1>12. Around(T, ent, place, T2, ent2, place2, q)
    BY <1>4, <1>6, <1>7 DEF Around
  <1>13. /\ RootIs(t, ent2[<<ROOT>>])
         /\ \A x \in DOMAIN T \cap DOMAIN T2 : x # q => InSectors(t, T2, ent2, place2, x)
    <2>1. Len(rest) \in Nat /\ ent2[q] = Resized(ent[q], Len(rest))
      BY <1>2, <1>3, <1>7
    <2> QED
      BY <1>3, <1>5, <1>6, <1>8, <1>12, <2>1, OthersListed
  <1>14. InSectors(t, T2, ent2, place2, q)
    <2>1. MovedUp(T2, ent, ent2, place2, q)
      <3>1. \A x \in Below(T2, q) : x \in DOMAIN T2 /\ x \in Below(T, q) /\ x # q
        <4>1. ASSUME NEW x \in Below(T2, q) PROVE x \in DOMAIN T2 /\ x \in Below(T, q) /\ x # q
          <5>1. x \in DOMAIN T2 /\ x \in DOMAIN T /\ Len(x) > 1 /\ Front(x) = q
            BY <1>6 DEF Below
          <5>2. x # <<ROOT>>
            <6>1. Len(x) > 1 /\ Len(<<ROOT>>) = 1
              BY <5>1
            <6> QED
              BY <6>1
          <5> QED
            BY <5>1, <5>2, InDirectory
        <4> QED
          BY <4>1
      <3> QED
        BY <1>7, <3>1 DEF MovedUp
    <2>2. sec \in [1..CLUSTER_SIZE -> Units]
      BY <1>1, <1>5, UnitsApart DEF IsState
    <2>3. /\ k = 1 => ListsBelow(sec, 0, T2, ent2, place2, q)
          /\ k = 2 => ListsBelow(Sector(<<sec[2]>>, 1), 1, T2, ent2, place2, q)
      <3>1. Named(T, ent)
        BY DEF Listed
      <3>2. /\ FirstOfTwo(T, ent, place, p, q) /\ p \in Below(T, q) /\ ListsBelow(sec, k, T, ent, place, q)
            /\ T2 = Without(T, p)
        BY <1>5 DEF WithoutFirst
      <3> QED
        BY <1>2, <2>1, <2>2, <3>1, <3>2, ListsWithout
    <2>4. t.data[ent[q].cluster] = IF Len(rest) = 0 THEN sec ELSE Sector(rest, Len(rest))
      BY <1>1, <1>3, <1>5, UnitsApart DEF DirEdited
    <2>5. ListsBelow(t.data[ent[q].cluster], k - 1, T2, ent2, place2, q)
      BY <1>2, <1>3, <2>3, <2>4
    <2>6. Last(q) \notin FileNames
      BY <1>5, FileSystemAssumption
    <2> QED
      BY <1>9, <2>5, <2>6 DEF InSectors
  <1>15. \A x \in DOMAIN T2 : InSectors(t, T2, ent2, place2, x)
    BY <1>6, <1>13, <1>14
  <1> QED
    BY <1>0, <1>3, <1>8, <1>11, <1>13, <1>15 DEF Listed, DirEdited

(* delete_file of the first of at most two names. *)
LEMMA DeletedTidy ==
  ASSUME NEW s0, IsState(s0, Units), NEW T, NEW ent, NEW place, Tidy(s0, T, ent, place),
         NEW p, NEW q, FirstOfTwo(T, ent, place, p, q), NEW T2, NEW ent2, NEW place2,
         WithoutFirst(T, ent, place, p, q, T2, ent2, place2)
  PROVE  LET t == Deleted(s0, p)
         IN  /\ IsState(t, Units) /\ t.mode = s0.mode /\ Tidy(t, T2, ent2, place2)
             /\ Unreached(t, T2, ent2) = Unreached(s0, T, ent)
  <1>1. PICK s, t : s = Loaded(s0) /\ t = Deleted(s0, p)
    OBVIOUS
  <1>2. /\ IsState(s, Units) /\ Tidy(s, T, ent, place) /\ Listed(s, T, ent, place) /\ s.read
        /\ s.mode = s0.mode /\ s.fat = s0.fat
    BY <1>1, TidyLoaded DEF Tidy
  <1>3. p \in DOMAIN T /\ p # <<ROOT>> /\ q = Front(p) /\ place[p] = 1
    BY DEF FirstOfTwo
  <1>4. PICK sec : sec = s.data[ent[q].cluster]
    OBVIOUS
  <1>5. /\ q \in DOMAIN T /\ p # q /\ Navigate(s, q).end = "open" /\ Current(Navigate(s, q)) = ent[q]
        /\ ReadFile(s, ent[q]) = sec /\ SizeOf(s, ent[q]) = ent[q].size
        /\ Find(sec, ent[q].size, Last(p)) = place[p] /\ sec[place[p]] = ent[p]
        /\ ent[p] \in Inode /\ ent[q] \in Inode
        /\ Directory(s, q, Last(p)).end = "open"
    BY <1>2, <1>3, <1>4, InDirectory
  <1>6. PICK u : u = FatDelete(s, ent[p])
    OBVIOUS
  <1>7. /\ IsState(u, Units) /\ Listed(u, T, ent, place) /\ u.read /\ u.mode = s.mode
        /\ u.fat = [s.fat EXCEPT ![ent[p].cluster] = 0]
    <2>1. PICK f : f = ent[p]
      OBVIOUS
    <2>2. IsState(s, Units) /\ s.read /\ Listed(s, T, ent, place) /\ f \in Inode /\ u = FatDelete(s, f)
      BY <1>2, <1>5, <1>6, <2>1
    <2>3. /\ IsState(u, Units) /\ Listed(u, T, ent, place) /\ u.read /\ u.mode = s.mode
          /\ u.fat = [s.fat EXCEPT ![f.cluster] = 0]
      BY <2>2, FatDeleteIs
    <2> QED
      BY <2>1, <2>3
  <1>8. t = RemoveDirEntry(u, q, Last(p))
    <2>1. PICK dir : dir = Directory(s, q, Last(p))
      OBVIOUS
    <2>2. dir.buffer = sec /\ dir.at = place[p] /\ dir.end = "open"
      <3>1. dir.buffer = sec /\ dir.at = place[p]
        BY <1>5, <2>1 DEF Directory, LookedIn
      <3> QED
        BY <1>5, <2>1, <3>1
    <2>3. ~IsStray(dir.end) /\ Entry(dir.buffer, dir.at) = ent[p]
      BY <1>3, <1>5, <2>2 DEF Entry, IsStray
    <2>4. t = IF IsStray(dir.end) THEN Astray(s, dir.end)
              ELSE RemoveDirEntry(FatDelete(s, Entry(dir.buffer, dir.at)), q, Last(p))
      BY <1>1, <1>3, <2>1 DEF Deleted
    <2> QED
      BY <1>6, <2>3, <2>4
  <1>9. IsState(t, Units) /\ t.fat = u.fat /\ t.mode = u.mode /\ Listed(t, T2, ent2, place2)
    BY <1>7, <1>8, RemovedListed
  <1>10. DOMAIN T2 = DOMAIN T \ {p} /\ \A x \in DOMAIN T2 : ent2[x].cluster = ent[x].cluster
    <2>1. DOMAIN T2 = DOMAIN T \ {p}
      BY DEF WithoutFirst, Without
    <2>2. \A x \in DOMAIN T2 : ent2[x] = IF x = q THEN Resized(ent[q], ent[q].size - 1) ELSE ent[x]
      BY DEF WithoutFirst
    <2>3. Resized(ent[q], ent[q].size - 1).cluster = ent[q].cluster
      BY <1>5 DEF Resized, Inode
    <2> QED
      BY <2>1, <2>2, <2>3
  <1>11. /\ t.fat = [s0.fat EXCEPT ![ent[p].cluster] = 0] /\ DOMAIN s0.fat = Clusters
         /\ ent[p].cluster \in Clusters /\ s0.fat[ent[p].cluster] = EOC /\ EOC # 0
         /\ \A x \in DOMAIN T : ent[x].cluster = ent[p].cluster => x = p
    <2>1. DOMAIN s0.fat = Clusters
      BY DEF IsState
    <2>2. ent[p].cluster \in Clusters
      BY <1>5, UnitsApart
    <2> QED
      BY <1>2, <1>3, <1>7, <1>9, <2>1, <2>2, Constants DEF Tidy, Used, Listed, Named
  (* The cluster of p is not used any more, those of the others are. *)
  <1>12. \A c \in Clusters : t.fat[c] = IF c = ent[p].cluster THEN 0 ELSE s0.fat[c]
    BY <1>11
  <1>13. \A x \in DOMAIN T : s0.fat[ent[x].cluster] = EOC /\ ent[x].cluster \in Clusters
    <2>1. \A x \in DOMAIN T : ent[x].cluster \in Clusters
      BY UnitsApart DEF Tidy, Listed, Named
    <2> QED
      BY <2>1 DEF Tidy, Used
  <1>14. Used(t, T2, ent2)
    BY <1>10, <1>11, <1>12, <1>13 DEF Used
  <1>15. Unreached(t, T2, ent2) = Unreached(s0, T, ent)
    <2>1. \A c \in Clusters : (\E x \in DOMAIN T : ent[x].cluster = c) <=>
                                (c = ent[p].cluster \/ \E x \in DOMAIN T2 : ent2[x].cluster = c)
      BY <1>3, <1>10
    <2>2. ASSUME NEW c \in Clusters
          PROVE  c \in Unreached(t, T2, ent2) <=> c \in Unreached(s0, T, ent)
      <3>1. c \in Unreached(t, T2, ent2) <=> t.fat[c] # 0 /\ ~\E x \in DOMAIN T2 : ent2[x].cluster = c
        BY DEF Unreached
      <3>2. c \in Unreached(s0, T, ent) <=> s0.fat[c] # 0 /\ ~\E x \in DOMAIN T : ent[x].cluster = c
        BY DEF Unreached
      <3> QED
        BY <1>12, <2>1, <3>1, <3>2
    <2>3. Unreached(t, T2, ent2) \subseteq Clusters /\ Unreached(s0, T, ent) \subseteq Clusters
      BY DEF Unreached
    <2> QED
      BY <2>2, <2>3
  <1> QED
    BY <1>1, <1>2, <1>7, <1>9, <1>14, <1>15 DEF Tidy

(* What remove_dir_entry needs. *)
LEMMA RemovableIs ==
  ASSUME NEW s, s = Now, IsState(s, Units), NEW T, T = files, NEW ent, NEW place, Tidy(s, T, ent, place),
         \A x \in DirPaths : Cardinality(Children(x)) = ent[x].size,
         NEW p \in DOMAIN T, p # <<ROOT>>, Below(T, p) = {}, Removable(p), NEW q, q = Front(p)
  PROVE  FirstOfTwo(T, ent, place, p, q)
  <1>1. PICK l : l = Loaded(s)
    OBVIOUS
  <1>2. IsState(l, Units) /\ Listed(l, T, ent, place) /\ l.read
    BY <1>1, TidyLoaded DEF Tidy
  <1>3. PICK sec : sec = l.data[ent[q].cluster]
    OBVIOUS
  <1>4. /\ q \in DOMAIN T /\ Last(q) \in DirNames /\ Current(Navigate(l, q)) = ent[q]
        /\ ReadFile(l, ent[q]) = sec /\ SizeOf(l, ent[q]) = ent[q].size
        /\ Find(sec, ent[q].size, Last(p)) = place[p]
    BY <1>2, <1>3, InDirectory
  <1>5. Directory(l, q, Last(p)).at = place[p]
    BY <1>4 DEF Directory, LookedIn
  <1>6. place[p] = 1
    BY <1>1, <1>5 DEF Removable
  <1>7. ent[q].size <= 2
    <2>1. q \in DirPaths
      BY <1>4 DEF DirPaths, Paths
    <2> QED
      BY <2>1 DEF Removable
  <1> QED
    BY <1>6, <1>7 DEF FirstOfTwo

LEMMA DeleteKeeps ==
  ASSUME FilesInv, NEW p, Delete(p) PROVE FilesInv'
  <1>1. PICK s, T, ent, place :
          /\ s = Now /\ T = files /\ IsState(s, Units) /\ Tidy(s, T, ent, place)
          /\ Unreached(s, T, ent) = {} /\ s.mode = mode /\ IsRecord(T)
          /\ \A x \in DirPaths : Cardinality(Children(x)) = ent[x].size
    BY HeldNow
  <1>2. PICK t, q, T2 : t = Deleted(s, p) /\ q = Front(p) /\ T2 = Without(T, p)
    OBVIOUS
  <1>3. p \in DOMAIN T /\ p # <<ROOT>> /\ Below(T, p) = {} /\ Removable(p) /\ Call(t, T2) /\ s.mode = "shell"
    BY <1>1, <1>2, SameChildren DEF Delete, Call, Paths
  <1>4. FirstOfTwo(T, ent, place, p, q)
    BY <1>1, <1>2, <1>3, RemovableIs
  <1>5. \E ent2, place2 : WithoutFirst(T, ent, place, p, q, T2, ent2, place2)
    BY <1>2 DEF WithoutFirst
  <1>6. PICK ent2, place2 : WithoutFirst(T, ent, place, p, q, T2, ent2, place2)
    BY <1>5
  <1>7. /\ IsState(t, Units) /\ t.mode = s.mode /\ Tidy(t, T2, ent2, place2)
        /\ Unreached(t, T2, ent2) = Unreached(s, T, ent)
    BY <1>1, <1>2, <1>4, <1>6, DeletedTidy
  <1>8. Holds(t, T2, ent2, place2) /\ t.mode = "shell"
    BY <1>1, <1>3, <1>7 DEF Holds
  <1>9. IsRecord(T2)
    BY <1>1, <1>2, RecordWithout
  <1> QED
    BY <1>3, <1>8, <1>9, CallKeepsInv

(***************************************************************************)
(* move_file: a copy, and the file deleted                                 *)
(***************************************************************************)
LEMMA MoveKeeps ==
  ASSUME FilesInv, NEW p, NEW d, Move(p, d) PROVE FilesInv'
  <1>1. PICK s, T, ent, place :
          /\ s = Now /\ T = files /\ IsState(s, Units) /\ Tidy(s, T, ent, place)
          /\ Unreached(s, T, ent) = {} /\ s.mode = mode /\ IsRecord(T) /\ Shape(T)
          /\ \A x \in DirPaths : Cardinality(Children(x)) = ent[x].size
    BY HeldNow
  <1>2. PICK c, t, q, r, T1, T2 :
          /\ c = Copied(s, p, d) /\ t = Moved(s, p, d) /\ q = Front(p) /\ r = Append(d, Last(p))
          /\ T1 = With(T, r, T[p]) /\ T2 = Without(T1, p)
    OBVIOUS
  <1>3. /\ p \in FilePaths /\ Settled(p) /\ Removable(p) /\ d \in DirPaths /\ Takes(d, Last(p))
        /\ Call(t, T2) /\ s.mode = "shell"
    BY <1>1, <1>2 DEF Move, Call
  <1>4. p \in DOMAIN T /\ Last(p) \in FileNames
    BY <1>1, <1>3 DEF FilePaths, Paths
  <1>5. SettledFile(T, ent, p) /\ RoomFor(T, ent, p, d, r)
    <2>1. ent[p].size = Len(T[p])
      BY <1>1, <1>3, <1>4, SettledIs
    <2>2. RoomFor(T, ent, p, d, r)
      BY <1>1, <1>2, <1>3, TakesIs
    <2> QED
      BY <1>4, <2>1, <2>2 DEF SettledFile
  <1>6. /\ FreeClusters(s) = {} => c = Filled(Loaded(s))
        /\ FreeClusters(s) # {} =>
             \E ent1, place1 :
               /\ CopyHolds(c, Units, T, ent, place, ent1, place1, p, d, r)
               /\ Unreached(c, T1, ent1) = {}
    BY <1>1, <1>2, <1>3, <1>5, CopiedTidy
  <1>7. t = Then(c, Deleted(c, p))
    BY <1>2 DEF Moved
  <1>8. CASE FreeClusters(s) = {}
    <2>1. /\ IsState(Loaded(s), Units) /\ Tidy(Loaded(s), T, ent, place)
          /\ Unreached(Loaded(s), T, ent) = {}
      BY <1>1, TidyLoaded DEF Unreached
    <2>2. c.mode = "full" /\ Holds(c, files, ent, place)
      BY <1>1, <1>6, <1>8, <2>1, FilledTidy DEF Holds
    <2>3. t = c
      BY <1>7, <2>2 DEF Then
    <2> QED
      BY <1>1, <1>3, <2>2, <2>3, CallKeepsInv
  <1>9. CASE FreeClusters(s) # {}
    <2>1. PICK ent1, place1 : /\ CopyHolds(c, Units, T, ent, place, ent1, place1, p, d, r)
                              /\ Unreached(c, T1, ent1) = {}
      BY <1>6, <1>9
    <2>2. /\ IsState(c, Units) /\ c.mode = "shell" /\ Tidy(c, T1, ent1, place1)
          /\ \A x \in DOMAIN T : (x # d => ent1[x] = ent[x]) /\ place1[x] = place[x]
      BY <1>2, <2>1 DEF CopyHolds
    <2>3. t = Deleted(c, p)
      BY <1>7, <2>2 DEF Then
    <2>4. p # <<ROOT>> /\ p \in Seq(Names) /\ Len(p) > 0 /\ Append(q, Last(p)) = p
      <3>1. p # <<ROOT>>
        BY <1>1, <1>4, FileBelow
      <3>2. p \in Seq(Names) /\ Len(p) \in Nat \ {0}
        BY <1>1, <1>4, PathTyped
      <3>3. Len(p) > 0
        BY <3>2
      <3> QED
        BY <1>2, <3>1, <3>2, <3>3, FrontIs
    <2>5. \A X : Shape(X) => Below(X, p) = {}
      BY <1>4, FileSystemAssumption DEF Shape, Below
    (* The copy is at another place of the tree: it leaves the directory of p *)
    (* as it was.                                                             *)
    <2>6. FirstOfTwo(T, ent, place, p, q)
      BY <1>1, <1>2, <1>3, <1>4, <2>4, <2>5, RemovableIs
    <2>7. q # d
      BY <1>2, <1>4, <1>5, <2>4 DEF RoomFor
    <2>8. q \in DOMAIN T
      <3>1. Len(p) > 1
        <4>1. PICK l \in Nat \ {0} : l = Len(p)
          BY <1>1, <1>4, PathTyped
        <4>2. l # 1
          BY <1>1, <1>4, <2>4, <4>1, PathTyped
        <4> QED
          BY <4>1, <4>2
      <3> QED
        BY <1>1, <1>2, <1>4, <3>1 DEF Shape
    <2>9. FirstOfTwo(T1, ent1, place1, p, q)
      <3>1. p \in DOMAIN T1 /\ p # <<ROOT>> /\ Below(T1, p) = {} /\ q = Front(p)
        BY <1>2, <1>4, <2>2, <2>4, <2>5 DEF With, Tidy, Listed
      <3>2. place1[p] = 1 /\ ent1[q].size <= 2
        BY <1>4, <2>2, <2>6, <2>7, <2>8 DEF FirstOfTwo
      <3> QED
        BY <3>1, <3>2 DEF FirstOfTwo
    <2>10. \E ent2, place2 : WithoutFirst(T1, ent1, place1, p, q, T2, ent2, place2)
      BY <1>2 DEF WithoutFirst
    <2>11. PICK ent2, place2 : WithoutFirst(T1, ent1, place1, p, q, T2, ent2, place2)
      BY <2>10
    <2>12. /\ IsState(t, Units) /\ t.mode = c.mode /\ Tidy(t, T2, ent2, place2)
           /\ Unreached(t, T2, ent2) = Unreached(c, T1, ent1)
      BY <2>2, <2>3, <2>9, <2>11, DeletedTidy
    <2>13. Holds(t, T2, ent2, place2) /\ t.mode = "shell"
      BY <2>1, <2>2, <2>12 DEF Holds
    <2>14. IsRecord(T2)
      BY <1>1, <1>2, RecordWith, RecordWithout
    <2> QED
      BY <1>3, <2>13, <2>14, CallKeepsInv
  <1> QED
    BY <1>8, <1>9

(***************************************************************************)
(* The start, and every step                                               *)
(***************************************************************************)
LEMMA FilesInit ==
  ASSUME Init PROVE FilesInv
  <1>1. PICK s, t, place : s = EmptyDisk /\ t = Booted(s) /\ place = <<>>
    OBVIOUS
  <1>2. IsState(s, Units) /\ FreeClusters(s) = Clusters
    <2>1. NoRoot \in [1..ROOT_ENTRIES -> Units] /\ ZeroSector \in [1..CLUSTER_SIZE -> Units]
      BY DEF NoRoot, ZeroSector, Units
    <2>2. s = [fat |-> [c \in Clusters |-> 0], data |-> [c \in Clusters |-> ZeroSector],
               root |-> NoRoot, diskRoot |-> NoRoot, entries |-> 0, read |-> FALSE,
               mode |-> "off", writes |-> <<>>]
      BY <1>1 DEF EmptyDisk
    <2>3. IsState(s, Units)
      BY <2>1, <2>2 DEF IsState, Units
    <2> QED
      BY <2>2, <2>3 DEF FreeClusters
  <1>3. PICK ent : ent = RootEntry(s)
    OBVIOUS
  <1>4. /\ IsState(t, Units) /\ t.mode = "shell" /\ Tidy(t, RootOnly, ent, place)
        /\ t.fat = [s.fat EXCEPT ![Smallest(FreeClusters(s))] = EOC]
    <2>1. IsState(s, Units) /\ FreeClusters(s) # {}
      BY <1>2, FilesAssumption
    <2>2. LET b == Booted(s)
          IN  /\ IsState(b, Units) /\ b.mode = "shell" /\ Tidy(b, RootOnly, RootEntry(s), place)
              /\ b.fat = [s.fat EXCEPT ![Smallest(FreeClusters(s))] = EOC]
      BY <2>1, BootedTidy
    <2> QED
      BY <1>1, <1>3, <2>2
  <1>5. Unreached(t, RootOnly, ent) = {}
    <2>1. <<ROOT>> \in DOMAIN RootOnly /\ ent[<<ROOT>>].cluster = Smallest(FreeClusters(s))
      BY <1>3 DEF RootOnly, RootEntry, NewFile
    <2>2. \A c \in Clusters : c # Smallest(FreeClusters(s)) => t.fat[c] = 0
      BY <1>1, <1>4 DEF EmptyDisk
    <2> QED
      BY <2>1, <2>2 DEF Unreached
  <1>6. Now = Unwritten(t) /\ mode = t.mode
    <2>1. Is(t)
      BY <1>1 DEF Init
    <2>2. Unwritten(t) = [fat |-> t.fat, data |-> t.data, root |-> t.root, diskRoot |-> t.diskRoot,
                          entries |-> t.entries, read |-> t.read, mode |-> t.mode, writes |-> <<>>]
      BY <1>4 DEF IsState, Unwritten
    <2> QED
      BY <2>1, <2>2 DEF Is, Now
  <1>7. files = RootOnly /\ IsRecord(files)
    <2>1. files = RootOnly /\ DOMAIN files = {<<ROOT>>}
      BY DEF Init, RootOnly
    <2>2. IsFiniteSet(DOMAIN files)
      BY <2>1, FS_Singleton
    <2> QED
      BY <2>1, <2>2 DEF IsRecord, RootOnly
  <1>8. Holds(Now, files, ent, place)
    BY <1>4, <1>5, <1>6, <1>7, UnwrittenIs DEF Holds
  <1> QED
    BY <1>4, <1>6, <1>7, <1>8 DEF FilesInv

LEMMA FilesStep ==
  ASSUME FilesInv, [Next]_vars PROVE FilesInv'
  <1>1. CASE UNCHANGED vars
    <2>1. mode' = mode /\ files' = files /\ Now' = Now
      BY <1>1 DEF vars, fsVars, disk, rootBuffer, Now
    <2> QED
      BY <2>1 DEF FilesInv
  <1>2. CASE Next
    <2>1. PICK p \in Paths :
            \/ \E n \in Names : Create(p, n) \/ Rename(p, n)
            \/ \E d \in Contents : Write(p, d)
            \/ \E q \in Paths : Copy(p, q) \/ Move(p, q) \/ Concatenate(p, q)
            \/ Delete(p)
      BY <1>2 DEF Next
    <2>2. ASSUME NEW n \in Names, Create(p, n) PROVE FilesInv'
      BY <2>2, CreateKeeps
    <2>3. ASSUME NEW n \in Names, Rename(p, n) PROVE FilesInv'
      BY <2>3, RenameKeeps
    <2>4. ASSUME NEW d \in Contents, Write(p, d) PROVE FilesInv'
      BY <2>4, WriteKeeps
    <2>5. ASSUME NEW q \in Paths, Copy(p, q) PROVE FilesInv'
      BY <2>5, CopyKeeps
    <2>6. ASSUME NEW q \in Paths, Move(p, q) PROVE FilesInv'
      BY <2>6, MoveKeeps
    <2>7. ASSUME NEW q \in Paths, Concatenate(p, q) PROVE FilesInv'
      BY <2>7, ConcatenateKeeps
    <2>8. CASE Delete(p)
      BY <2>8, DeleteKeeps
    <2> QED
      BY <2>1, <2>2, <2>3, <2>4, <2>5, <2>6, <2>7, <2>8
  <1> QED
    BY <1>1, <1>2

LEMMA FilesAlways == Spec => []FilesInv
  <1>1. Init => FilesInv
    BY FilesInit
  <1>2. FilesInv /\ [Next]_vars => FilesInv'
    BY FilesStep
  <1> QED
    BY <1>1, <1>2, PTL DEF Spec

(***************************************************************************)
(* What follows from the invariant                                         *)
(***************************************************************************)
LEMMA InvGivesTypes == FilesInv => TypeOK
  <1> SUFFICES ASSUME FilesInv PROVE TypeOK
    OBVIOUS
  <1>1. PICK s, ent, place : s = Now /\ IsState(s, Units) /\ Tidy(s, files, ent, place) /\ Shape(files)
    BY HeldNow
  <1>2. s.fat = fat /\ s.data = data /\ s.entries = root_entries
    BY <1>1 DEF Now
  <1>3. fat \in [Clusters -> {0, EOC}] /\ data \in [Clusters -> [1..CLUSTER_SIZE -> Units]]
    BY <1>1, <1>2 DEF IsState
  <1>4. root_entries = 1 /\ 1 \in 0..ROOT_ENTRIES
    BY <1>1, <1>2, FileSystemAssumption DEF Tidy, Listed, RootIs
  <1>5. mode \in {"shell", "full"}
    BY DEF FilesInv
  <1>6. \A p \in Paths : files[p] \in Seq(Bytes)
    BY <1>1 DEF Shape, Paths
  <1> QED
    BY <1>3, <1>4, <1>5, <1>6 DEF TypeOK

LEMMA InvGivesTree == FilesInv => AsCalled
  <1> SUFFICES ASSUME FilesInv PROVE AsCalled
    OBVIOUS
  <1>1. PICK s, T, ent, place :
          s = Now /\ T = files /\ IsState(s, Units) /\ Tidy(s, T, ent, place) /\ IsRecord(T)
    BY HeldNow
  <1>2. OnDisk = OnDiskIn(s)
    BY <1>1, OnDiskNow
  <1>3. OnDiskIn(s) = [p \in DOMAIN T |-> T[p]]
    BY <1>1, OnDiskIs
  <1>4. T = [p \in DOMAIN T |-> T[p]]
    BY <1>1 DEF IsRecord
  <1> QED
    BY <1>1, <1>2, <1>3, <1>4 DEF AsCalled

LEMMA InvGivesClusters == FilesInv => OwnCluster
  <1> SUFFICES ASSUME FilesInv PROVE OwnCluster
    OBVIOUS
  <1>1. PICK s, T, ent, place :
          /\ s = Now /\ T = files /\ IsState(s, Units) /\ Tidy(s, T, ent, place) /\ IsRecord(T)
          /\ Unreached(s, T, ent) = {}
    BY HeldNow
  <1>2. Reached = {<<p, ent[p]>> : p \in DOMAIN T}
    BY <1>1, ReachedNow, ReachedIs
  <1>3. PICK K : K = {ent[p].cluster : p \in DOMAIN T}
    OBVIOUS
  <1>4. {e.cluster : e \in {pe[2] : pe \in Reached}} = K
    <2>1. PICK E : E = {pe[2] : pe \in Reached}
      OBVIOUS
    <2>2. E = {ent[p] : p \in DOMAIN T}
      <3>1. \A e \in E : \E p \in DOMAIN T : e = ent[p]
        BY <1>2, <2>1
      <3>2. \A p \in DOMAIN T : <<p, ent[p]>> \in Reached /\ <<p, ent[p]>>[2] = ent[p]
        BY <1>2
      <3>3. \A p \in DOMAIN T : ent[p] \in E
        BY <2>1, <3>2
      <3> QED
        BY <3>1, <3>3
    <2>3. {e.cluster : e \in E} = K
      BY <1>3, <2>2
    <2> QED
      BY <2>1, <2>3
  <1>5. /\ \A p \in DOMAIN T : ent[p].cluster \in Clusters /\ s.fat[ent[p].cluster] = EOC
        /\ \A p, q \in DOMAIN T : ent[p].cluster = ent[q].cluster => p = q
    BY <1>1, UnitsApart DEF Tidy, Used, Listed, Named
  <1>6. {c \in Clusters : fat[c] # 0} = K
    <2>1. s.fat = fat
      BY <1>1 DEF Now
    <2>2. \A c \in K : c \in Clusters /\ fat[c] # 0
      BY <1>3, <1>5, <2>1, Constants
    <2>3. \A c \in Clusters : fat[c] # 0 => c \in K
      BY <1>1, <1>3, <2>1 DEF Unreached
    <2> QED
      BY <2>2, <2>3
  <1>7. Cardinality(K) = Cardinality(DOMAIN T)
    <2>1. PICK f : f = [p \in DOMAIN T |-> ent[p].cluster]
      OBVIOUS
    <2>2. f \in [DOMAIN T -> K] /\ \A p, q \in DOMAIN T : f[p] = f[q] => p = q
      BY <1>3, <1>5, <2>1
    <2>3. \A c \in K : \E p \in DOMAIN T : f[p] = c
      BY <1>3, <2>1
    <2>4. f \in Bijection(DOMAIN T, K)
      BY <2>2, <2>3 DEF Bijection, Injection, Surjection, IsInjective
    <2>5. ExistsBijection(DOMAIN T, K)
      BY <2>4 DEF ExistsBijection
    <2> QED
      BY <1>1, <2>5, FS_Bijection DEF IsRecord
  <1> QED
    BY <1>1, <1>4, <1>6, <1>7 DEF OwnCluster, Paths

(* Whatever calls are made, the FAT, the sectors and the root directory    *)
(* keep their shapes, the root directory its one entry, and no call takes  *)
(* a text for an entry, runs past a buffer or uses a NULL inode (the mode  *)
(* stays "shell" until a call finds no free cluster).                      *)
THEOREM FilesTypeCorrect == Spec => []TypeOK
  BY FilesAlways, InvGivesTypes, PTL

(* Within the limits that the guards of the calls state, with names that   *)
(* find_file finds and up to a full disk, what the sectors amount to is    *)
(* always what the calls should have left: create_file, write_file,        *)
(* rename_file, copy_file, move_file, cat and delete_file of fs.c, in      *)
(* every order and on disks, trees and texts of every size, touch the one  *)
(* path they are given and no other.                                       *)
THEOREM DiskAsCalled == Spec => []AsCalled
  BY FilesAlways, InvGivesTree, PTL

(* Each path always has a cluster of its own that is marked in the FAT,    *)
(* and no other cluster is marked: what delete_file frees is the cluster   *)
(* of the file it was given, and what create_file takes was nobody's.      *)
THEOREM EachItsCluster == Spec => []OwnCluster
  BY FilesAlways, InvGivesClusters, PTL
=============================================================================
