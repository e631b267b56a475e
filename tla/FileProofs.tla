---------------------------- MODULE FileProofs ----------------------------
(***************************************************************************)
(* Whatever is typed and wherever the power fails, no cluster of the FAT   *)
(* belongs to two files, up to the first lookup that strays and as long as *)
(* the root directory has room.                                            *)
(* A call of fs.c moves entries from one buffer to another,                *)
(* changes their sizes and makes at most one new entry, whose cluster it   *)
(* has marked before: the keys of all entries, their clusters with their   *)
(* names, stay those that were there and that one.                         *)
(*                                                                         *)
(* And at the prompt of a user who keeps the limits the sectors are those  *)
(* of a tree of files, which a command changes as FileTree says.           *)
(***************************************************************************)
EXTENDS Shell, TreeProofs

(***************************************************************************)
(* Buffers and states that hold no entries but those with the keys K       *)
(***************************************************************************)
Sound(K) == {u \in Units : IsInode(u) => u \in Inode /\ <<u.cluster, u.name>> \in K}

Nodes(K) == {NoFile} \cup {u \in Inode : <<u.cluster, u.name>> \in K}

Sectors(K) == [Clusters -> [1..CLUSTER_SIZE -> Sound(K)]]
Roots(K) == [1..ROOT_ENTRIES -> Sound(K)]
Modes == {"off", "shell", "full", "forged", "overrun", "nullfile"}

Disks(K, f) == [fat : {f}, data : Sectors(K), diskRoot : Roots(K)]

States(K, f) ==
  [fat : {f}, data : Sectors(K), root : Roots(K), diskRoot : Roots(K),
   entries : Nat, read : BOOLEAN, mode : Modes, writes : Seq(Disks(K, f))]

LEMMA Plain ==
  ASSUME NEW K
  PROVE  Zero \in Sound(K) /\ Junk \in Sound(K) /\ Bytes \subseteq Sound(K)
  BY DEF Sound, Units, IsInode

LEMMA EntrySound ==
  ASSUME NEW K, NEW u \in Nodes(K), u # NoFile PROVE u \in Sound(K) /\ u \in Inode /\ u.cluster \in Clusters
  BY DEF Nodes, Sound, Units, Inode

(***************************************************************************)
(* The root directory, files                                               *)
(***************************************************************************)
LEMMA StoredSound ==
  ASSUME NEW K, NEW f, NEW s \in States(K, f)
  PROVE  /\ Stored(s) \in States(K, f)
         /\ Stored(s).entries = s.entries /\ Stored(s).mode = s.mode
  <1> DEFINE d == [fat |-> s.fat, data |-> s.data, diskRoot |-> s.diskRoot]
  <1>1. d \in Disks(K, f)
    BY DEF States, Disks
  <1>2. s.writes \in Seq(Disks(K, f))
    BY DEF States
  <1>3. Append(s.writes, d) \in Seq(Disks(K, f))
    BY <1>1, <1>2
  <1> QED
    BY <1>3 DEF Stored, States

LEMMA LoadedSound ==
  ASSUME NEW K, NEW f, NEW s \in States(K, f)
  PROVE  /\ Loaded(s) \in States(K, f)
         /\ Loaded(s).entries = s.entries /\ Loaded(s).mode = s.mode
  <1> DEFINE rt == [i \in 1..ROOT_ENTRIES |->
                      IF i <= RootSectorUnits(s.entries) THEN s.diskRoot[i] ELSE s.root[i]]
  <1>1. rt \in Roots(K)
    BY DEF States, Roots
  <1> HIDE DEF rt
  <1>2. [s EXCEPT !.read = TRUE, !.root = rt] \in States(K, f)
        /\ [s EXCEPT !.read = TRUE, !.root = rt].entries = s.entries
        /\ [s EXCEPT !.read = TRUE, !.root = rt].mode = s.mode
    BY <1>1 DEF States
  <1> QED
    BY <1>2 DEF Loaded, rt

LEMMA WithRootSound ==
  ASSUME NEW K, NEW f, NEW s \in States(K, f), NEW buffer \in Seq(Sound(K)), NEW size \in Nat
  PROVE  /\ WithRoot(s, buffer, size) \in States(K, f)
         /\ WithRoot(s, buffer, size).entries = s.entries
         /\ WithRoot(s, buffer, size).mode = s.mode
  <1> DEFINE rt == [i \in 1..ROOT_ENTRIES |->
                      IF i > RootSectorUnits(s.entries) THEN s.diskRoot[i]
                      ELSE IF i \in size + 1..RoundedUp(size) THEN Zero
                      ELSE IF i <= size /\ i <= Len(buffer) THEN buffer[i]
                      ELSE Junk]
  <1>1. rt \in Roots(K)
    <2> SUFFICES ASSUME NEW i \in 1..ROOT_ENTRIES PROVE rt[i] \in Sound(K)
      BY DEF Roots
    <2>1. s.diskRoot[i] \in Sound(K)
      BY DEF States, Roots
    <2>2. i <= Len(buffer) => buffer[i] \in Sound(K)
      BY Constants
    <2> QED
      BY <2>1, <2>2, Plain
  <1> HIDE DEF rt
  <1> DEFINE t == [s EXCEPT !.read = FALSE, !.diskRoot = rt]
  <1>2. t \in States(K, f) /\ t.entries = s.entries /\ t.mode = s.mode
    BY <1>1 DEF States
  <1>3. WithRoot(s, buffer, size) = Stored(t)
    BY DEF WithRoot, rt
  <1> HIDE DEF t
  <1> QED
    BY <1>2, <1>3, StoredSound

LEMMA ReadSound ==
  ASSUME NEW K, NEW f, NEW s \in States(K, f), s.entries <= ROOT_ENTRIES, NEW u \in Nodes(K)
  PROVE  /\ ReadFile(s, u) \in Seq(Sound(K))
         /\ SizeOf(s, u) \in Nat /\ SizeOf(s, u) <= Len(ReadFile(s, u))
  <1>1. CASE u = NoFile
    <2>1. s.entries \in Nat /\ s.root \in [1..ROOT_ENTRIES -> Sound(K)]
      BY DEF States, Roots
    <2>2. ReadFile(s, u) = [i \in 1..s.entries |-> s.root[i]]
      BY <1>1, <2>1, Constants DEF ReadFile
    <2>3. ReadFile(s, u) \in [1..s.entries -> Sound(K)]
      BY <2>1, <2>2, Constants
    <2> QED
      BY <1>1, <2>1, <2>3 DEF SizeOf
  <1>2. CASE u # NoFile
    <2>1. u \in Inode /\ u.cluster \in Clusters /\ u.size \in Nat
      BY <1>2, EntrySound DEF Inode
    <2>2. s.data[u.cluster] \in [1..CLUSTER_SIZE -> Sound(K)]
      BY <2>1 DEF States, Sectors
    <2>3. RoundedUp(u.size) \in Nat /\ u.size <= RoundedUp(u.size)
      BY <2>1, RoundedUpSize
    <2>4. ReadFile(s, u) \in [1..RoundedUp(u.size) -> Sound(K)]
      BY <1>2, <2>2, <2>3, Plain, Constants DEF ReadFile
    <2> QED
      BY <1>2, <2>1, <2>3, <2>4 DEF SizeOf
  <1> QED
    BY <1>1, <1>2

LEMMA ContentSound ==
  ASSUME NEW K, NEW f, NEW s \in States(K, f), s.entries <= ROOT_ENTRIES, NEW u \in Nodes(K)
  PROVE  Content(s, u) \in Seq(Sound(K))
  <1> DEFINE b == ReadFile(s, u)
  <1> DEFINE n == SizeOf(s, u)
  <1>1. b \in Seq(Sound(K)) /\ n \in Nat /\ n <= Len(b)
    BY ReadSound
  <1> HIDE DEF b, n
  <1>2. SubSeq(b, 1, n) = [i \in 1..n |-> b[i]]
    BY <1>1
  <1>3. SubSeq(b, 1, n) \in [1..n -> Sound(K)]
    <2>1. Len(b) \in Nat /\ \A i \in 1..Len(b) : b[i] \in Sound(K)
      BY <1>1
    <2>2. \A i \in 1..n : i \in 1..Len(b)
      BY <1>1, <2>1
    <2>3. \A i \in 1..n : b[i] \in Sound(K)
      BY <2>1, <2>2
    <2> QED
      BY <1>2, <2>3
  <1> QED
    BY <1>1, <1>3 DEF Content, b, n

LEMMA EditSound ==
  ASSUME NEW K, NEW f, NEW s \in States(K, f), NEW u \in Nodes(K),
         NEW buffer \in Seq(Sound(K)), NEW size \in Nat
  PROVE  /\ EditFile(s, u, buffer, size) \in States(K, f)
         /\ EditFile(s, u, buffer, size).entries = s.entries
         /\ EditFile(s, u, buffer, size).mode = s.mode
  <1>1. CASE u = NoFile
    BY <1>1, WithRootSound DEF EditFile
  <1>2. CASE u # NoFile /\ size = 0
    BY <1>2 DEF EditFile
  <1>3. CASE u # NoFile /\ size # 0
    <2> DEFINE sec == Sector(buffer, size)
    <2>1. sec \in [1..CLUSTER_SIZE -> Sound(K)]
      <3> SUFFICES ASSUME NEW i \in 1..CLUSTER_SIZE PROVE sec[i] \in Sound(K)
        BY DEF Sector
      <3>1. i <= Len(buffer) => buffer[i] \in Sound(K)
        BY Constants
      <3> QED
        BY <3>1, Plain DEF Sector
    <2>2. u.cluster \in Clusters
      BY <1>3, EntrySound
    <2> HIDE DEF sec
    <2> DEFINE t == [s EXCEPT !.data[u.cluster] = sec]
    <2>3. [s.data EXCEPT ![u.cluster] = sec] \in Sectors(K)
      BY <2>1, <2>2 DEF States, Sectors
    <2>4. t \in States(K, f) /\ t.entries = s.entries /\ t.mode = s.mode
      BY <2>3 DEF States
    <2>5. EditFile(s, u, buffer, size) = Stored(t)
      BY <1>3 DEF EditFile, sec
    <2> HIDE DEF t
    <2> QED
      BY <2>4, <2>5, StoredSound
  <1> QED
    BY <1>1, <1>2, <1>3

(***************************************************************************)
(* Lookups                                                                 *)
(***************************************************************************)
LEMMA FindIn ==
  ASSUME NEW K, NEW buffer \in Seq(Sound(K)), NEW size \in Nat, NEW n
  PROVE  /\ Find(buffer, size, n) \in 0..Len(buffer)
         /\ Find(buffer, size, n) # 0 => IsInode(buffer[Find(buffer, size, n)])
         /\ Entry(buffer, Find(buffer, size, n)) \in Nodes(K)
  <1> DEFINE hits == {i \in 1..Len(buffer) : i <= size /\ IsInode(buffer[i]) /\ buffer[i].name = n}
  <1> DEFINE at == Find(buffer, size, n)
  <1>1. CASE hits = {}
    <2>1. at = 0
      BY <1>1 DEF Find
    <2> QED
      BY <2>1 DEF Entry, Nodes
  <1>2. CASE hits # {}
    <2>1. hits \subseteq Nat
      OBVIOUS
    <2>2. Smallest(hits) \in hits
      BY <1>2, <2>1, SmallestIn
    <2>3. at = Smallest(hits)
      BY <1>2 DEF Find
    <2>4. at \in 1..Len(buffer) /\ IsInode(buffer[at])
      BY <2>2, <2>3
    <2> HIDE DEF at
    <2>5. buffer[at] \in Sound(K)
      BY <2>4
    <2>6. at # 0 /\ Entry(buffer, at) = buffer[at]
      BY <2>4 DEF Entry
    <2> QED
      BY <2>4, <2>5, <2>6 DEF Sound, Nodes, at
  <1> QED
    BY <1>1, <1>2

Lookups(K) ==
  {nav \in [at : Nat, holder : Seq(Sound(K)), buffer : Seq(Sound(K)), inRoot : BOOLEAN,
            end : {"open", "file", "forged", "overrun"}] : Entry(nav.holder, nav.at) \in Nodes(K)}

LEMMA StepSound ==
  ASSUME NEW K, NEW f, NEW s \in States(K, f), s.entries <= ROOT_ENTRIES,
         NEW nav \in Lookups(K), NEW p, NEW i \in Nat
  PROVE  NavigateStep(s, nav, p, i) \in Lookups(K)
  <1> DEFINE size == IF nav.at # 0 /\ i > 2 THEN Len(nav.buffer) + 1 ELSE SizeOf(s, Current(nav))
  <1> DEFINE hit == Find(nav.buffer, size, p[i])
  <1>1. /\ nav.at \in Nat /\ nav.holder \in Seq(Sound(K)) /\ nav.buffer \in Seq(Sound(K))
        /\ Current(nav) \in Nodes(K)
    BY DEF Lookups, Current
  <1>2. size \in Nat
    BY <1>1, ReadSound
  <1> HIDE DEF size
  <1>3. hit \in 0..Len(nav.buffer) /\ Entry(nav.buffer, hit) \in Nodes(K)
    BY <1>1, <1>2, FindIn
  <1> HIDE DEF hit
  <1>4. ReadFile(s, Entry(nav.buffer, hit)) \in Seq(Sound(K))
    BY <1>3, ReadSound
  <1>5. hit \in Nat
    BY <1>1, <1>3
  <1>6. ASSUME NEW end \in {"file", "forged", "overrun"} PROVE [nav EXCEPT !.end = end] \in Lookups(K)
    BY <1>6 DEF Lookups
  <1> DEFINE after(b) == [nav EXCEPT !.at = hit, !.holder = nav.buffer, !.inRoot = (i = 1), !.buffer = b]
  <1>7. ASSUME NEW b \in Seq(Sound(K)) PROVE after(b) \in Lookups(K)
    <2>1. (i = 1) \in BOOLEAN
      OBVIOUS
    <2>2. after(b) \in [at : Nat, holder : Seq(Sound(K)), buffer : Seq(Sound(K)), inRoot : BOOLEAN,
                        end : {"open", "file", "forged", "overrun"}]
      BY <1>1, <1>5, <1>7, <2>1 DEF Lookups
    <2>3. after(b).holder = nav.buffer /\ after(b).at = hit
      BY DEF Lookups
    <2> HIDE DEF after
    <2> QED
      BY <1>3, <2>2, <2>3 DEF Lookups
  <1> DEFINE next == IF i = Len(p) THEN nav.buffer ELSE ReadFile(s, Entry(nav.buffer, hit))
  <1>8. next \in Seq(Sound(K))
    BY <1>1, <1>4
  <1> HIDE DEF next
  <1>9. after(next) \in Lookups(K)
    BY <1>7, <1>8
  <1>10. NavigateStep(s, nav, p, i) =
           IF nav.end # "open" THEN nav
           ELSE IF p[i] \in FileNames THEN [nav EXCEPT !.end = "file"]
           ELSE IF ReadsText(nav.buffer, size, p[i]) THEN [nav EXCEPT !.end = "forged"]
           ELSE IF hit = 0 /\ size > Len(nav.buffer) THEN [nav EXCEPT !.end = "overrun"]
           ELSE after(next)
    BY DEF NavigateStep, size, hit, next
  <1> HIDE DEF after
  <1> QED
    BY <1>6, <1>9, <1>10

LEMMA LookupSound ==
  ASSUME NEW K, NEW f, NEW s \in States(K, f), s.entries <= ROOT_ENTRIES, NEW p, Len(p) \in Nat
  PROVE  Navigate(s, p) \in Lookups(K)
  <1> DEFINE after == CHOOSE g : IsLookup(g, s, p, Len(p))
  <1>1. IsLookup(after, s, p, Len(p))
    BY LookupExists
  <1>2. Navigate(s, p) = after[Len(p)]
    BY DEF Navigate, IsLookup, Start
  <1> HIDE DEF after
  <1> DEFINE S == {i \in Nat : i <= Len(p) => after[i] \in Lookups(K)}
  <1>3. 0 \in S
    <2>1. after[0] = Start(s)
      BY <1>1 DEF IsLookup
    <2>2. s.root \in Seq(Sound(K))
      BY Constants DEF States, Roots
    <2>3. Start(s) \in Lookups(K)
      BY <2>2 DEF Start, Lookups, Entry, Nodes
    <2> QED
      BY <2>1, <2>3
  <1>4. ASSUME NEW i \in S PROVE i + 1 \in S
    <2> SUFFICES ASSUME i + 1 <= Len(p) PROVE after[i + 1] \in Lookups(K)
      OBVIOUS
    <2>1. i \in Nat /\ i + 1 \in 0..Len(p) /\ i + 1 # 0 /\ (i + 1) - 1 = i
      OBVIOUS
    <2>2. after[i] \in Lookups(K)
      BY <2>1
    <2>3. after[i + 1] = NavigateStep(s, after[i], p, i + 1)
      BY <1>1, <2>1 DEF IsLookup
    <2> QED
      BY <2>1, <2>2, <2>3, StepSound
  <1>5. S \subseteq Nat
    OBVIOUS
  <1> HIDE DEF S
  <1>6. S = Nat
    BY <1>3, <1>4, <1>5, InductionOnNat
  <1>7. Len(p) \in S
    BY <1>6
  <1> QED
    BY <1>2, <1>7 DEF S

(***************************************************************************)
(* The calls of fs.c                                                       *)
(***************************************************************************)
LEMMA ResizedSound ==
  ASSUME NEW K, NEW u \in Inode, <<u.cluster, u.name>> \in K, NEW size \in Nat
  PROVE  Resized(u, size) \in Nodes(K) /\ Resized(u, size) \in Sound(K)
  <1> DEFINE v == Resized(u, size)
  <1>1. v \in Inode /\ v.cluster = u.cluster /\ v.name = u.name
    BY DEF Resized, Inode
  <1> HIDE DEF v
  <1>2. v \in Nodes(K) /\ v \in Sound(K)
    BY <1>1 DEF Nodes, Sound, Units
  <1> QED
    BY <1>2 DEF v

LEMMA ReplacedSound ==
  ASSUME NEW S, NEW b \in Seq(S), NEW at, NEW x \in S PROVE [b EXCEPT ![at] = x] \in Seq(S)
  <1>1. Len(b) \in Nat /\ b \in [1..Len(b) -> S]
    OBVIOUS
  <1>2. [b EXCEPT ![at] = x] \in [1..Len(b) -> S]
    BY <1>1
  <1> QED
    BY <1>1, <1>2

LEMMA FrontPath ==
  ASSUME NEW S, NEW p \in Seq(S) PROVE Front(p) \in Seq(S) /\ Len(p) \in Nat /\ Len(Front(p)) \in Nat
  <1>1. Len(p) \in Nat
    OBVIOUS
  <1>2. SubSeq(p, 1, Len(p) - 1) \in Seq(S)
    BY <1>1
  <1> QED
    BY <1>1, <1>2 DEF Front

LEMMA EditDirectorySound ==
  ASSUME NEW K, NEW f, NEW s \in States(K, f), s.entries <= ROOT_ENTRIES,
         NEW nav \in Lookups(K), Current(nav) # NoFile, NEW p \in Seq(Names),
         NEW content \in Seq(Sound(K))
  PROVE  /\ EditDirectory(s, nav, p, content) \in States(K, f)
         /\ EditDirectory(s, nav, p, content).entries = s.entries
  <1> DEFINE dir == Resized(Current(nav), Len(content))
  <1>1. dir \in Nodes(K) /\ dir \in Sound(K) /\ Len(content) \in Nat
    <2>1. Current(nav) \in Inode /\ <<Current(nav).cluster, Current(nav).name>> \in K
      BY DEF Lookups, Current, Nodes
    <2>2. Len(content) \in Nat
      OBVIOUS
    <2> QED
      BY <2>1, <2>2, ResizedSound
  <1> HIDE DEF dir
  <1> DEFINE held == IF nav.inRoot THEN [s EXCEPT !.root[nav.at] = dir] ELSE s
  <1>2. held \in States(K, f) /\ held.entries = s.entries
    <2>1. [s.root EXCEPT ![nav.at] = dir] \in Roots(K)
      BY <1>1 DEF States, Roots
    <2> QED
      BY <2>1 DEF States
  <1> HIDE DEF held
  <1> DEFINE edited == EditFile(held, dir, content, Len(content))
  <1>3. edited \in States(K, f) /\ edited.entries = s.entries
    BY <1>1, <1>2, EditSound
  <1> HIDE DEF edited
  <1> DEFINE buffer == IF nav.end = "file" THEN nav.buffer ELSE [nav.buffer EXCEPT ![nav.at] = dir]
  <1>4. buffer \in Seq(Sound(K))
    BY <1>1, ReplacedSound DEF Lookups
  <1> HIDE DEF buffer
  <1> DEFINE parent == Current(Navigate(edited, Front(p)))
  <1>5. parent \in Nodes(K)
    BY <1>3, LookupSound, FrontPath DEF Lookups, Current
  <1>6. SizeOf(edited, parent) \in Nat
    BY <1>3, <1>5, ReadSound
  <1>7. EditDirectory(s, nav, p, content) = EditFile(edited, parent, buffer, SizeOf(edited, parent))
    BY DEF EditDirectory, edited, held, dir, buffer
  <1> HIDE DEF parent
  <1> DEFINE size == SizeOf(edited, parent)
  <1>8. size \in Nat
    BY <1>6
  <1> HIDE DEF size
  <1>9. /\ EditFile(edited, parent, buffer, size) \in States(K, f)
        /\ EditFile(edited, parent, buffer, size).entries = edited.entries
    BY <1>3, <1>4, <1>5, <1>8, EditSound
  <1> QED
    BY <1>3, <1>7, <1>9 DEF size

LEMMA AstraySound ==
  ASSUME NEW K, NEW f, NEW s \in States(K, f), NEW end, IsStray(end)
  PROVE  Astray(s, end) \in States(K, f)
  BY DEF Astray, IsStray, States, Modes

LEMMA EnteredSound ==
  ASSUME NEW K, NEW f, NEW s \in States(K, f), s.entries <= ROOT_ENTRIES,
         NEW file \in Sound(K), NEW p \in Seq(Names)
  PROVE  Entered(s, file, p) \in States(K, f)
  <1> DEFINE nav == Navigate(s, p)
  <1> DEFINE dir == Current(nav)
  <1>1. nav \in Lookups(K) /\ dir \in Nodes(K)
    BY LookupSound, FrontPath DEF Lookups, Current
  <1>2. Content(s, dir) \in Seq(Sound(K))
    BY <1>1, ContentSound
  <1>3. CASE IsStray(nav.end)
    <2>1. Astray(s, nav.end) \in States(K, f)
      BY <1>3, AstraySound
    <2> QED
      BY <1>3, <2>1 DEF Entered
  <1>4. CASE ~IsStray(nav.end) /\ dir = NoFile
    <2> DEFINE grown == [s EXCEPT !.entries = @ + 1]
    <2> DEFINE content == Content(s, NoFile) \o <<file>>
    <2>1. grown \in States(K, f)
      BY DEF States
    <2>2. content \in Seq(Sound(K)) /\ Len(content) \in Nat
      BY <1>2, <1>4
    <2>3. NoFile \in Nodes(K)
      BY DEF Nodes
    <2>4. Entered(s, file, p) = EditFile(grown, NoFile, content, Len(content))
      BY <1>4 DEF Entered, CatFile
    <2> HIDE DEF grown, content
    <2> QED
      BY <2>1, <2>2, <2>3, <2>4, EditSound
  <1>5. CASE ~IsStray(nav.end) /\ dir # NoFile
    <2>1. Append(Content(s, dir), file) \in Seq(Sound(K))
      BY <1>2
    <2>2. Entered(s, file, p) = EditDirectory(s, nav, p, Append(Content(s, dir), file))
      BY <1>5 DEF Entered
    <2>3. Current(nav) # NoFile
      BY <1>5
    <2> DEFINE content == Append(Content(s, dir), file)
    <2>4. content \in Seq(Sound(K)) /\ Entered(s, file, p) = EditDirectory(s, nav, p, content)
      BY <2>1, <2>2
    <2> HIDE DEF content, dir, nav
    <2>5. EditDirectory(s, nav, p, content) \in States(K, f)
      BY <1>1, <2>3, <2>4, EditDirectorySound
    <2> QED
      BY <2>4, <2>5
  <1> QED
    BY <1>3, <1>4, <1>5

(* More keys allow more. *)
LEMMA MoreKeys ==
  ASSUME NEW K, NEW L, K \subseteq L, NEW f PROVE States(K, f) \subseteq States(L, f)
  <1>1. Sound(K) \subseteq Sound(L)
    BY DEF Sound
  <1>2. Sectors(K) \subseteq Sectors(L) /\ Roots(K) \subseteq Roots(L)
    BY <1>1 DEF Sectors, Roots
  <1>3. Disks(K, f) \subseteq Disks(L, f)
    BY <1>2 DEF Disks
  <1>4. Seq(Disks(K, f)) \subseteq Seq(Disks(L, f))
    BY <1>3
  <1> QED
    BY <1>2, <1>4 DEF States

(* The mark of a new cluster is on the disk before its entry is. *)
LEMMA CreatedSound ==
  ASSUME NEW K, NEW f \in [Clusters -> {0, EOC}], NEW s \in States(K, f), s.writes = <<>>,
         s.entries <= ROOT_ENTRIES, NEW n \in Names, NEW p \in Seq(Names)
  PROVE  \/ Created(s, n, p) \in States(K, f)
         \/ \E c \in Clusters :
              /\ f[c] = 0
              /\ Created(s, n, p) \in States(K \cup {<<c, NameRead(n)>>}, [f EXCEPT ![c] = EOC])
  <1>1. CASE FreeClusters(s) = {}
    <2>1. [s EXCEPT !.mode = "full"] \in States(K, f)
      BY DEF States, Modes
    <2> QED
      BY <1>1, <2>1 DEF Created
  <1>2. CASE FreeClusters(s) # {}
    <2> DEFINE c == Smallest(FreeClusters(s))
    <2> DEFINE L == K \cup {<<c, NameRead(n)>>}
    <2> DEFINE g == [f EXCEPT ![c] = EOC]
    <2> DEFINE file == [name |-> NameRead(n), cluster |-> c, size |-> 0]
    <2>1. c \in Clusters /\ f[c] = 0
      <3>1. FreeClusters(s) \subseteq Nat
        BY Constants DEF FreeClusters
      <3>2. c \in FreeClusters(s)
        BY <1>2, <3>1, SmallestIn
      <3> QED
        BY <3>2 DEF FreeClusters, States
    <2> HIDE DEF c
    <2> DEFINE t == [s EXCEPT !.fat[c] = EOC]
    <2>2. t \in States(K, g) /\ t.entries = s.entries
      <3>1. [s.fat EXCEPT ![c] = EOC] = g
        BY DEF States
      <3>2. s.writes \in Seq(Disks(K, g))
        OBVIOUS
      <3> QED
        BY <3>1, <3>2 DEF States
    <2> HIDE DEF t
    <2> HIDE DEF g
    <2>3. Stored(t) \in States(K, g) /\ Stored(t).entries = s.entries
      BY <2>2, StoredSound
    <2>4. Stored(t) \in States(L, g)
      BY <2>3, MoreKeys
    <2>5. Loaded(Stored(t)) \in States(L, g) /\ Loaded(Stored(t)).entries = s.entries
      BY <2>3, <2>4, LoadedSound
    <2>6. file \in Sound(L)
      BY <2>1 DEF Sound, Units, Inode
    <2>7. Created(s, n, p) = Entered(Loaded(Stored(t)), file, p)
      BY <1>2 DEF Created, InitFirstCluster, t, c
    <2> HIDE DEF L, file
    <2>8. Created(s, n, p) \in States(L, g)
      BY <2>5, <2>6, <2>7, EnteredSound
    <2> QED
      BY <2>1, <2>8 DEF L, g
  <1> QED
    BY <1>1, <1>2

LEMMA WrittenSound ==
  ASSUME NEW K, NEW f, NEW s0 \in States(K, f), s0.entries <= ROOT_ENTRIES,
         NEW p \in Seq(Names), NEW d \in Seq(Bytes)
  PROVE  Written(s0, p, d) \in States(K, f)
  <1> DEFINE s == Loaded(s0)
  <1>1. s \in States(K, f) /\ s.entries <= ROOT_ENTRIES
    BY LoadedSound
  <1> HIDE DEF s
  <1> DEFINE nav == Navigate(s, p)
  <1> DEFINE file == Current(nav)
  <1> DEFINE buffer == ReadFile(s, file)
  <1> DEFINE at == Find(buffer, SizeOf(s, file), Last(p))
  <1>2. nav \in Lookups(K) /\ file \in Nodes(K)
    BY <1>1, LookupSound, FrontPath DEF Lookups, Current
  <1>3. buffer \in Seq(Sound(K)) /\ SizeOf(s, file) \in Nat
    BY <1>1, <1>2, ReadSound
  <1>4. at \in 0..Len(buffer) /\ (at # 0 => IsInode(buffer[at]))
    BY <1>3, FindIn
  <1> DEFINE end == Directory(s, p, Last(p)).end
  <1>5. CASE IsStray(end)
    <2>1. Astray(s, end) \in States(K, f)
      BY <1>1, <1>5, AstraySound
    <2> QED
      BY <1>5, <2>1 DEF Written, s
  <1>6. CASE ~IsStray(end) /\ at = 0
    <2>1. NullFile(s) \in States(K, f)
      BY <1>1 DEF NullFile, States, Modes
    <2>2. Directory(s, p, Last(p)).at = at
      BY DEF Directory, LookedIn
    <2> QED
      BY <1>6, <2>1, <2>2 DEF Written, s
  <1>7. CASE ~IsStray(end) /\ at # 0
    <2> DEFINE u == buffer[at]
    <2> DEFINE edited == [buffer EXCEPT ![at] = Resized(u, Len(d))]
    <2>1. Written(s0, p, d) =
            EditFile(EditFile(s, u, d, Len(d)), file, edited, SizeOf(s, file))
      <3>1. /\ Directory(s, p, Last(p)).at = at /\ Directory(s, p, Last(p)).file = file
            /\ Directory(s, p, Last(p)).buffer = buffer
        BY DEF Directory, LookedIn
      <3> QED
        BY <1>7, <3>1 DEF Written, s
    <2> HIDE DEF at, buffer, file, nav
    <2>2. u \in Sound(K) /\ IsInode(u)
      BY <1>3, <1>4, <1>7
    <2> HIDE DEF u
    <2>3. u \in Inode /\ <<u.cluster, u.name>> \in K /\ u \in Nodes(K)
      BY <2>2 DEF Sound, Nodes
    <2>4. Len(d) \in Nat /\ d \in Seq(Sound(K))
      BY Plain
    <2>5. Resized(u, Len(d)) \in Sound(K)
      BY <2>3, <2>4, ResizedSound
    <2>6. edited \in Seq(Sound(K))
      BY <1>3, <2>5, ReplacedSound
    <2> HIDE DEF edited
    <2>7. EditFile(s, u, d, Len(d)) \in States(K, f)
      BY <1>1, <2>3, <2>4, EditSound
    <2> QED
      BY <1>2, <1>3, <2>1, <2>6, <2>7, EditSound
  <1> QED
    BY <1>5, <1>6, <1>7

(***************************************************************************)
(* The shell                                                               *)
(***************************************************************************)
Keys == {<<u.cluster, u.name>> : u \in EveryEntry}

ShellTypes ==
  /\ fat \in [Clusters -> {0, EOC}]
  /\ data \in [Clusters -> [1..CLUSTER_SIZE -> Units]]
  /\ root \in [1..ROOT_ENTRIES -> Units]
  /\ diskRoot \in [1..ROOT_ENTRIES -> Units]
  /\ root_entries \in Nat
  /\ was_root_read \in BOOLEAN
  /\ mode \in Modes
  /\ path \in Seq(Names)

ShellInv == ShellTypes /\ OneOwner

(* The root directory has room for its entries. *)
RootHasRoom == root_entries <= ROOT_ENTRIES

(* A FAT that marks the clusters of these keys, with one name for each. *)
Marked(K, f) ==
  /\ \A k \in K : k[1] \in Clusters /\ f[k[1]] = EOC
  /\ \A k, l \in K : k[1] = l[1] => k[2] = l[2]

LEMMA EntriesTyped == ShellInv => \A u \in EveryEntry : u \in Inode /\ u.cluster \in Clusters
  <1> SUFFICES ASSUME ShellInv, NEW u \in EveryEntry PROVE u \in Inode
    BY DEF Inode
  <1>1. ASSUME NEW n \in Nat, NEW b \in [1..n -> Units], u \in EntriesOf(b) PROVE u \in Inode
    BY <1>1 DEF EntriesOf, IsInode, Units
  <1>2. CASE u \in EntriesOf(root)
    BY <1>1, <1>2, Constants DEF ShellInv, ShellTypes
  <1>3. CASE u \in EntriesOf(diskRoot)
    BY <1>1, <1>3, Constants DEF ShellInv, ShellTypes
  <1>4. CASE u \in UNION {EntriesOf(data[c]) : c \in Clusters}
    <2>1. PICK c \in Clusters : u \in EntriesOf(data[c])
      BY <1>4
    <2>2. data[c] \in [1..CLUSTER_SIZE -> Units]
      BY DEF ShellInv, ShellTypes
    <2> QED
      BY <1>1, <2>1, <2>2, Constants
  <1> QED
    BY <1>2, <1>3, <1>4 DEF EveryEntry

LEMMA KeysMarked == ShellInv => Marked(Keys, fat)
  <1> SUFFICES ASSUME ShellInv PROVE Marked(Keys, fat)
    OBVIOUS
  <1>1. ASSUME NEW k \in Keys, NEW l \in Keys
        PROVE  k[1] \in Clusters /\ fat[k[1]] = EOC /\ (k[1] = l[1] => k[2] = l[2])
    <2>3. \A u \in EveryEntry : u.cluster \in Clusters
      BY EntriesTyped
    <2>1. PICK u \in EveryEntry : k = <<u.cluster, u.name>>
      BY DEF Keys
    <2>2. PICK v \in EveryEntry : l = <<v.cluster, v.name>>
      BY DEF Keys
    <2> QED
      BY <2>1, <2>2, <2>3 DEF ShellInv, OneOwner
  <1> QED
    BY <1>1 DEF Marked

LEMMA NowSound == ShellInv => Now \in States(Keys, fat)
  <1> SUFFICES ASSUME ShellInv PROVE Now \in States(Keys, fat)
    OBVIOUS
  <1>1. ASSUME NEW u \in EveryEntry, u \in Units, IsInode(u) PROVE u \in Sound(Keys)
    BY <1>1 DEF Sound, Keys, Units, IsInode
  <1>2. ASSUME NEW n \in Nat, NEW b \in [1..n -> Units], EntriesOf(b) \subseteq EveryEntry
        PROVE  b \in [1..n -> Sound(Keys)]
    <2> SUFFICES ASSUME NEW i \in 1..n PROVE b[i] \in Sound(Keys)
      OBVIOUS
    <2>1. CASE IsInode(b[i])
      <3>1. b[i] \in EntriesOf(b)
        BY <2>1 DEF EntriesOf
      <3> QED
        BY <1>1, <1>2, <2>1, <3>1
    <2>2. CASE ~IsInode(b[i])
      BY <2>2 DEF Sound
    <2> QED
      BY <2>1, <2>2
  <1>3. root \in Roots(Keys) /\ diskRoot \in Roots(Keys)
    BY <1>2, Constants DEF ShellInv, ShellTypes, Roots, EveryEntry
  <1>4. data \in Sectors(Keys)
    <2> SUFFICES ASSUME NEW c \in Clusters PROVE data[c] \in [1..CLUSTER_SIZE -> Sound(Keys)]
      BY DEF ShellInv, ShellTypes, Sectors
    <2>1. EntriesOf(data[c]) \subseteq EveryEntry
      BY DEF EveryEntry
    <2>2. data[c] \in [1..CLUSTER_SIZE -> Units]
      BY DEF ShellInv, ShellTypes
    <2> QED
      BY <1>2, <2>1, <2>2, Constants
  <1>5. <<>> \in Seq(Disks(Keys, fat))
    OBVIOUS
  <1> QED
    BY <1>3, <1>4, <1>5 DEF Now, States, ShellInv, ShellTypes

(* Entries with marked keys have one owner each. *)
LEMMA OwnersOfKeys ==
  ASSUME NEW K, NEW f, Marked(K, f), NEW rt \in Roots(K), NEW dr \in Roots(K), NEW dt \in Sectors(K)
  PROVE  \A u, v \in EntriesOf(rt) \cup EntriesOf(dr) \cup UNION {EntriesOf(dt[c]) : c \in Clusters} :
           /\ f[u.cluster] = EOC
           /\ u.cluster = v.cluster => u.name = v.name
  <1>1. ASSUME NEW n \in Nat, NEW b \in [1..n -> Sound(K)], NEW u \in EntriesOf(b)
        PROVE  <<u.cluster, u.name>> \in K
    <2>1. PICK i \in 1..n : IsInode(b[i]) /\ u = b[i]
      BY <1>1 DEF EntriesOf
    <2>2. b[i] \in Sound(K)
      OBVIOUS
    <2> QED
      BY <2>1, <2>2 DEF Sound
  <1>2. ASSUME NEW u \in EntriesOf(rt) \cup EntriesOf(dr) \cup UNION {EntriesOf(dt[c]) : c \in Clusters}
        PROVE  <<u.cluster, u.name>> \in K
    <2>1. CASE u \in EntriesOf(rt)
      BY <1>1, <2>1, Constants DEF Roots
    <2>2. CASE u \in EntriesOf(dr)
      BY <1>1, <2>2, Constants DEF Roots
    <2>3. CASE u \in UNION {EntriesOf(dt[c]) : c \in Clusters}
      <3>1. PICK c \in Clusters : u \in EntriesOf(dt[c])
        BY <2>3
      <3>2. dt[c] \in [1..CLUSTER_SIZE -> Sound(K)]
        BY DEF Sectors
      <3> QED
        BY <1>1, <3>1, <3>2, Constants
    <2> QED
      BY <1>2, <2>1, <2>2, <2>3
  <1>3. ASSUME NEW u, NEW v, <<u.cluster, u.name>> \in K, <<v.cluster, v.name>> \in K
        PROVE  f[u.cluster] = EOC /\ (u.cluster = v.cluster => u.name = v.name)
    <2> DEFINE k == <<u.cluster, u.name>>
    <2> DEFINE l == <<v.cluster, v.name>>
    <2>1. k \in K /\ l \in K /\ k[1] = u.cluster /\ k[2] = u.name /\ l[1] = v.cluster /\ l[2] = v.name
      BY <1>3
    <2> HIDE DEF k, l
    <2> QED
      BY <2>1 DEF Marked
  <1> QED
    BY <1>2, <1>3

LEMMA SoundUnits ==
  ASSUME NEW K
  PROVE  Sectors(K) \subseteq [Clusters -> [1..CLUSTER_SIZE -> Units]]
         /\ Roots(K) \subseteq [1..ROOT_ENTRIES -> Units]
  <1>1. Sound(K) \subseteq Units
    BY DEF Sound
  <1> QED
    BY <1>1 DEF Sectors, Roots

(* What a call returns is a state of the shell. *)
LEMMA BecomesKeepsInv ==
  ASSUME NEW K, NEW f \in [Clusters -> {0, EOC}], Marked(K, f), NEW s \in States(K, f), Becomes(s),
         path' \in Seq(Names)
  PROVE  ShellInv'
  <1>1. /\ fat' = f /\ data' \in Sectors(K) /\ root' \in Roots(K) /\ diskRoot' \in Roots(K)
        /\ root_entries' \in Nat /\ was_root_read' \in BOOLEAN /\ mode' \in Modes
    BY DEF Becomes, States
  <1>2. OneOwner'
    BY <1>1, OwnersOfKeys DEF OneOwner, EveryEntry
  <1>3. ShellTypes'
    BY <1>1, SoundUnits DEF ShellTypes
  <1> QED
    BY <1>2, <1>3 DEF ShellInv

LEMMA OffKeepsInv ==
  ASSUME NEW K, NEW f \in [Clusters -> {0, EOC}], Marked(K, f), NEW d \in Disks(K, f),
         fat' = d.fat, data' = d.data, diskRoot' = d.diskRoot, Off
  PROVE  ShellInv'
  <1>1. NoRoot \in Roots(K)
    BY Plain DEF NoRoot, Roots
  <1>2. /\ fat' = f /\ data' \in Sectors(K) /\ root' \in Roots(K) /\ diskRoot' \in Roots(K)
        /\ root_entries' \in Nat /\ was_root_read' \in BOOLEAN /\ mode' \in Modes
        /\ path' \in Seq(Names)
    <2>1. d.fat = f /\ d.data \in Sectors(K) /\ d.diskRoot \in Roots(K)
      BY DEF Disks
    <2>2. root' = NoRoot /\ root_entries' = 0 /\ was_root_read' = FALSE /\ mode' = "off" /\ path' = <<>>
      BY DEF Off
    <2>3. <<>> \in Seq(Names) /\ "off" \in Modes
      BY DEF Modes
    <2> QED
      BY <1>1, <2>1, <2>2, <2>3
  <1>3. OneOwner'
    BY <1>2, OwnersOfKeys DEF OneOwner, EveryEntry
  <1>4. ShellTypes'
    BY <1>2, SoundUnits DEF ShellTypes
  <1> QED
    BY <1>3, <1>4 DEF ShellInv

(* A new file marks its cluster, which has no name yet. *)
LEMMA NewKeyMarked ==
  ASSUME NEW K, NEW f \in [Clusters -> {0, EOC}], Marked(K, f), NEW c \in Clusters, f[c] = 0, NEW n
  PROVE  /\ [f EXCEPT ![c] = EOC] \in [Clusters -> {0, EOC}]
         /\ Marked(K \cup {<<c, n>>}, [f EXCEPT ![c] = EOC])
  <1> DEFINE g == [f EXCEPT ![c] = EOC]
  <1>1. g \in [Clusters -> {0, EOC}] /\ g[c] = EOC
    OBVIOUS
  <1>3. \A k \in K : k[1] \in Clusters /\ k[1] # c /\ f[k[1]] = EOC
    BY Constants DEF Marked
  <1>4. ASSUME NEW x \in Clusters, x # c PROVE g[x] = f[x]
    BY <1>4
  <1>5. <<c, n>>[1] = c /\ <<c, n>>[2] = n
    OBVIOUS
  <1> HIDE DEF g
  <1>6. \A k \in K \cup {<<c, n>>} : g[k[1]] = EOC
    BY <1>1, <1>3, <1>4, <1>5
  <1>7. \A k, l \in K \cup {<<c, n>>} : k[1] = l[1] => k[2] = l[2]
    BY <1>3, <1>5 DEF Marked
  <1> QED
    BY <1>1, <1>6, <1>7 DEF g, Marked

(* The state before a step, as the lemmas on calls want it. *)
LEMMA CreatingKeepsInv ==
  ASSUME NEW K, NEW f \in [Clusters -> {0, EOC}], Marked(K, f), NEW s \in States(K, f), s.writes = <<>>,
         s.entries <= ROOT_ENTRIES, NEW n \in Names, NEW p \in Seq(Names),
         \/ Becomes(Created(s, n, p)) /\ path' \in Seq(Names)
         \/ PowerFails(Created(s, n, p))
  PROVE  ShellInv'
  <1> DEFINE t == Created(s, n, p)
  <1>1. ASSUME NEW L, NEW g \in [Clusters -> {0, EOC}], Marked(L, g), t \in States(L, g)
        PROVE  ShellInv'
    <2> HIDE DEF t
    <2>1. CASE Becomes(t) /\ path' \in Seq(Names)
      BY <1>1, <2>1, BecomesKeepsInv
    <2>2. CASE PowerFails(t)
      <3>1. PICK k \in DOMAIN t.writes :
              fat' = t.writes[k].fat /\ data' = t.writes[k].data /\ diskRoot' = t.writes[k].diskRoot
        BY <2>2 DEF PowerFails
      <3>2. t.writes[k] \in Disks(L, g)
        <4>1. t.writes \in Seq(Disks(L, g))
          BY <1>1 DEF States
        <4> QED
          BY <4>1
      <3>3. Off
        BY <2>2 DEF PowerFails
      <3> QED
        BY <1>1, <3>1, <3>2, <3>3, OffKeepsInv
    <2> QED
      BY <2>1, <2>2 DEF t
  <1>2. CASE t \in States(K, f)
    BY <1>1, <1>2
  <1>3. CASE \E c \in Clusters : /\ f[c] = 0
                                 /\ t \in States(K \cup {<<c, NameRead(n)>>}, [f EXCEPT ![c] = EOC])
    <2>1. PICK c \in Clusters : f[c] = 0 /\ t \in States(K \cup {<<c, NameRead(n)>>}, [f EXCEPT ![c] = EOC])
      BY <1>3
    <2>2. [f EXCEPT ![c] = EOC] \in [Clusters -> {0, EOC}]
          /\ Marked(K \cup {<<c, NameRead(n)>>}, [f EXCEPT ![c] = EOC])
      BY <2>1, NewKeyMarked
    <2> HIDE DEF t
    <2> QED
      BY <1>1, <2>1, <2>2
  <1> QED
    BY <1>2, <1>3, CreatedSound

LEMMA WritingKeepsInv ==
  ASSUME NEW K, NEW f \in [Clusters -> {0, EOC}], Marked(K, f), NEW s \in States(K, f),
         s.entries <= ROOT_ENTRIES, NEW p \in Seq(Names), NEW d \in Seq(Bytes),
         \/ Becomes(Written(s, p, d)) /\ path' \in Seq(Names)
         \/ PowerFails(Written(s, p, d))
  PROVE  ShellInv'
  <1> DEFINE t == Written(s, p, d)
  <1>1. t \in States(K, f)
    BY WrittenSound
  <1> HIDE DEF t
  <1>2. CASE Becomes(t) /\ path' \in Seq(Names)
    BY <1>1, <1>2, BecomesKeepsInv
  <1>3. CASE PowerFails(t)
    <2>1. PICK k \in DOMAIN t.writes :
            fat' = t.writes[k].fat /\ data' = t.writes[k].data /\ diskRoot' = t.writes[k].diskRoot
      BY <1>3 DEF PowerFails
    <2>2. t.writes[k] \in Disks(K, f)
      <3>1. t.writes \in Seq(Disks(K, f))
        BY <1>1 DEF States
      <3> QED
        BY <3>1
    <2>3. Off
      BY <1>3 DEF PowerFails
    <2> QED
      BY <2>1, <2>2, <2>3, OffKeepsInv
  <1> QED
    BY <1>2, <1>3 DEF t

LEMMA InvInit == Init => ShellInv
  <1> SUFFICES ASSUME Init PROVE ShellInv
    OBVIOUS
  <1>1. /\ fat = [c \in Clusters |-> 0] /\ data = [c \in Clusters |-> ZeroSector]
        /\ root = NoRoot /\ diskRoot = NoRoot /\ root_entries = 0 /\ was_root_read = FALSE
        /\ mode = "off" /\ path = <<>>
    BY DEF Init, Is, EmptyDisk
  <1>2. data \in Sectors({}) /\ root \in Roots({}) /\ diskRoot \in Roots({})
    BY <1>1, Plain DEF Sectors, Roots, ZeroSector, NoRoot
  <1>3. Marked({}, fat)
    BY DEF Marked
  <1>4. OneOwner
    BY <1>2, <1>3, OwnersOfKeys DEF OneOwner, EveryEntry
  <1>5. fat \in [Clusters -> {0, EOC}]
    BY <1>1
  <1>6. <<>> \in Seq(Names)
    OBVIOUS
  <1>7. ShellTypes
    BY <1>1, <1>2, <1>5, <1>6, SoundUnits DEF ShellTypes, Modes
  <1> QED
    BY <1>4, <1>7 DEF ShellInv

LEMMA InvStep == ShellInv /\ RootHasRoom /\ [Machine \/ AnyCommand]_vars => ShellInv'
  <1> SUFFICES ASSUME ShellInv, RootHasRoom, [Machine \/ AnyCommand]_vars PROVE ShellInv'
    OBVIOUS
  <1>1. PICK K : K = Keys
    OBVIOUS
  <1>2. PICK f : f = fat
    OBVIOUS
  <1>3. PICK s : s = Now
    OBVIOUS
  <1>4. /\ f \in [Clusters -> {0, EOC}] /\ Marked(K, f) /\ s \in States(K, f) /\ s.writes = <<>>
        /\ s.entries <= ROOT_ENTRIES
    BY <1>1, <1>2, <1>3, KeysMarked, NowSound DEF ShellInv, ShellTypes, RootHasRoom, Now
  <1>5. path \in Seq(Names) /\ \A n \in Names : Here(n) \in Seq(Names)
    BY DEF ShellInv, ShellTypes, Here
  <1>6. Loaded(s) \in States(K, f)
    BY <1>4, LoadedSound
  (* A command that only looks something up. *)
  <1>7. ASSUME NEW a, Answer(a), path' \in Seq(Names) PROVE ShellInv'
    BY <1>3, <1>4, <1>6, <1>7, BecomesKeepsInv DEF Answer
  <1>8. CASE Boot
    <2> DEFINE t == [s EXCEPT !.root = NoRoot, !.entries = 0, !.read = FALSE, !.mode = "shell"]
    <2>1. NoRoot \in Roots(K)
      BY Plain DEF NoRoot, Roots
    <2>2. t \in States(K, f) /\ t.writes = <<>> /\ t.entries = 0
      BY <1>4, <2>1 DEF States, Modes
    <2>3. Becomes(Created(t, ROOT, <<>>))
      BY <1>3, <1>8 DEF Boot, Booted
    <2>4. path' \in Seq(Names) /\ <<>> \in Seq(Names) /\ ROOT \in Names
      BY <1>8, Constants DEF Boot
    <2>5. 0 <= ROOT_ENTRIES
      BY Constants
    <2> HIDE DEF t
    <2> QED
      BY <1>4, <2>2, <2>3, <2>4, <2>5, CreatingKeepsInv
  <1>9. CASE SwitchOff
    <2>1. PICK d : d = [fat |-> fat, data |-> data, diskRoot |-> diskRoot]
      OBVIOUS
    <2>2. d \in Disks(K, f)
      BY <1>3, <1>4, <2>1 DEF States, Disks, Now
    <2>3. fat' = d.fat /\ data' = d.data /\ diskRoot' = d.diskRoot /\ Off
      BY <1>9, <2>1 DEF SwitchOff, disk
    <2> QED
      BY <1>4, <2>2, <2>3, OffKeepsInv
  <1>10. CASE CdUp
    <2>1. path' \in Seq(Names)
      BY <1>5, <1>10, FrontPath DEF CdUp
    <2>2. Becomes(s)
      BY <1>3, <1>10 DEF CdUp, Becomes, Now, fsVars, disk, rootBuffer
    <2> QED
      BY <1>4, <2>1, <2>2, BecomesKeepsInv
  <1>11. ASSUME NEW end, Strays(end) PROVE ShellInv'
    <2>1. Astray(Loaded(s), end) \in States(K, f)
      BY <1>6, <1>11, AstraySound DEF Strays
    <2>2. Becomes(Astray(Loaded(s), end)) /\ path' \in Seq(Names)
      BY <1>3, <1>5, <1>11 DEF Strays
    <2> QED
      BY <1>4, <2>1, <2>2, BecomesKeepsInv
  <1>12. ASSUME NEW p, Ls(p) PROVE ShellInv'
    BY <1>5, <1>7, <1>11, <1>12 DEF Ls
  <1>13. ASSUME NEW n \in Names, WriteRefused(n) \/ Cat(n) PROVE ShellInv'
    BY <1>5, <1>7, <1>11, <1>13 DEF WriteRefused, Cat
  <1>18. ASSUME NEW n \in Names, Cd(n) PROVE ShellInv'
    <2>1. CASE Strays(Look(Here(n)).end)
      BY <1>11, <2>1
    <2>2. CASE ~Strays(Look(Here(n)).end)
      <3>1. path' \in Seq(Names)
        BY <1>5, <1>18, <2>2 DEF Cd
      <3>2. \E a : Answer(a)
        BY <1>18, <2>2 DEF Cd
      <3> QED
        BY <1>7, <3>1, <3>2
    <2> QED
      BY <2>1, <2>2
  <1>14. ASSUME NEW n \in Names, NEW p \in Seq(Names),
                \/ Becomes(Created(Now, n, p)) /\ path' \in Seq(Names)
                \/ PowerFails(Created(Now, n, p))
         PROVE  ShellInv'
    BY <1>3, <1>4, <1>14, CreatingKeepsInv
  <1>15. ASSUME NEW n \in Names, Create(n) \/ PowerFails(Created(Now, n, path)) PROVE ShellInv'
    BY <1>5, <1>14, <1>15 DEF Create
  <1>16. ASSUME NEW n \in Names, NEW p \in OtherPaths, CreateElsewhere(n, p) PROVE ShellInv'
    BY <1>5, <1>14, <1>16, ShellAssumption DEF CreateElsewhere, Call
  <1>17. ASSUME NEW n \in Names, NEW d \in Contents,
                Write(n, d) \/ PowerFails(Written(Now, Here(n), d))
         PROVE  ShellInv'
    <2>1. PICK p : p = Here(n)
      OBVIOUS
    <2>2. p \in Seq(Names) /\ d \in Seq(Bytes)
      BY <1>5, <2>1, ShellAssumption
    <2>3. \/ Strays(LookFile(n))
          \/ Becomes(Written(s, p, d)) /\ path' \in Seq(Names)
          \/ PowerFails(Written(s, p, d))
      BY <1>3, <1>5, <1>17, <2>1 DEF Write
    <2> QED
      BY <1>4, <1>11, <2>2, <2>3, WritingKeepsInv
  <1>19. CASE UNCHANGED vars
    <2>1. path' \in Seq(Names)
      BY <1>5, <1>19 DEF vars
    <2>2. Becomes(s)
      BY <1>3, <1>19 DEF vars, Becomes, Now, fsVars, disk, rootBuffer
    <2> QED
      BY <1>4, <2>1, <2>2, BecomesKeepsInv
  <1>20. CASE Machine
    BY <1>8, <1>9, <1>20 DEF Machine
  <1>21. CASE AnyCommand
    BY <1>10, <1>11, <1>12, <1>13, <1>15, <1>16, <1>17, <1>18, <1>21 DEF AnyCommand
  <1> QED
    BY <1>19, <1>20, <1>21

(***************************************************************************)
(* The theorems                                                            *)
(***************************************************************************)

(* Every call of fs.c leaves entries in the buffers and on the disk, and   *)
(* none that shares its cluster, as long as the root directory has room.   *)
(* The model ends where the code would leave its own data: at a lookup     *)
(* that takes text for an entry or leaves its buffer, at a NULL inode, and *)
(* with none of Clusters free.                                             *)
THEOREM Invariance == Spec /\ []RootHasRoom => []ShellInv
  BY InvInit, InvStep, PTL DEF Spec

(* Disk, root buffer and path hold what they are to hold, up to there.     *)
THEOREM TypeCorrect == Spec /\ []RootHasRoom => []TypeOK
  <1>1. ShellInv /\ RootHasRoom => TypeOK
    BY Constants DEF ShellInv, ShellTypes, RootHasRoom, TypeOK, Modes
  <1> QED
    BY <1>1, Invariance, PTL

(* create_file, write_file and a power failure between any two of their    *)
(* writes never give a cluster of the FAT to two files, up to a lookup     *)
(* that takes for an entry what is none (fs.c:314) and to a scan that      *)
(* leaves the FAT and the disk (fs.c:416).                                 *)
THEOREM NeverTwoOwners == Spec /\ []RootHasRoom => []OneOwner
  <1>1. ShellInv => OneOwner
    BY DEF ShellInv
  <1> QED
    BY <1>1, Invariance, PTL


(***************************************************************************)
(* The tree of a careful user                                              *)
(***************************************************************************)
(* The prompt is at p, in the tree T. *)
Running(s, p, T, ent, place) ==
  /\ IsState(s, Units) /\ Tidy(s, T, ent, place) /\ s.mode = "shell"
  /\ T = [x \in DOMAIN T |-> T[x]]
  /\ p \in DOMAIN T /\ Last(p) \in DirNames /\ Len(p) <= MaxDepth

LEMMA RunsOn ==
  ASSUME NEW t, IsState(t, Units), t.mode = "shell", Becomes(t), NEW T, NEW ent, NEW place,
         Tidy(t, T, ent, place), T = [x \in DOMAIN T |-> T[x]],
         path' \in DOMAIN T, Last(path') \in DirNames, Len(path') <= MaxDepth
  PROVE  Running(Now', path', T, ent, place) /\ mode' = "shell" /\ Unreached(Now', T, ent) = Unreached(t, T, ent)
  <1>1. Now' = Unwritten(t) /\ mode' = t.mode
    BY BecomesNow
  <1>2. /\ IsState(Unwritten(t), Units) /\ Tidy(Unwritten(t), T, ent, place)
        /\ Unwritten(t).mode = t.mode /\ Unreached(Unwritten(t), T, ent) = Unreached(t, T, ent)
    BY UnwrittenIs
  <1>3. /\ IsState(Now', Units) /\ Tidy(Now', T, ent, place) /\ Now'.mode = "shell"
        /\ Unreached(Now', T, ent) = Unreached(t, T, ent)
    BY <1>1, <1>2
  <1> QED
    BY <1>1, <1>3 DEF Running

(* A command that writes nothing. *)
LEMMA LooksOn ==
  ASSUME NEW T, NEW ent, NEW place, Running(Now, path, T, ent, place), Becomes(Loaded(Now)),
         path' \in DOMAIN T, Last(path') \in DirNames, Len(path') <= MaxDepth
  PROVE  /\ Running(Now', path', T, ent, place) /\ mode' = "shell"
         /\ Unreached(Now', T, ent) = Unreached(Now, T, ent)
  <1>1. PICK s : s = Now
    OBVIOUS
  <1>2. PICK t : t = Loaded(s)
    OBVIOUS
  <1>3. IsState(s, Units) /\ Tidy(s, T, ent, place) /\ s.mode = "shell" /\ T = [x \in DOMAIN T |-> T[x]]
    BY <1>1 DEF Running
  <1>4. IsState(t, Units) /\ Tidy(t, T, ent, place) /\ t.mode = "shell" /\ t.fat = s.fat
    BY <1>2, <1>3, TidyLoaded
  <1>5. Unreached(t, T, ent) = Unreached(s, T, ent)
    BY <1>4 DEF Unreached
  <1>6. Becomes(t)
    BY <1>1, <1>2
  <1>7. Running(Now', path', T, ent, place) /\ mode' = "shell" /\ Unreached(Now', T, ent) = Unreached(t, T, ent)
    BY <1>3, <1>4, <1>6, RunsOn
  <1> QED
    BY <1>1, <1>5, <1>7

(* What is seen of it. *)
LEMMA Seen ==
  ASSUME NEW s, NEW p, NEW T, NEW ent, NEW place, Running(s, p, T, ent, place)
  PROVE  /\ OnDiskIn(s) = T
         /\ {c \in Clusters : s.fat[c] # 0} \ {pe[2].cluster : pe \in ReachedIn(s)} = Unreached(s, T, ent)
  <1>1. IsState(s, Units) /\ Tidy(s, T, ent, place) /\ T = [x \in DOMAIN T |-> T[x]]
    BY DEF Running
  <1>2. OnDiskIn(s) = T
    BY <1>1, OnDiskIs
  <1>3. ReachedIn(s) = {<<x, ent[x]>> : x \in DOMAIN T}
    BY <1>1, ReachedIs
  <1>4. {pe[2].cluster : pe \in ReachedIn(s)} = {ent[x].cluster : x \in DOMAIN T}
    <2>1. ASSUME NEW pe \in ReachedIn(s) PROVE \E x \in DOMAIN T : pe[2] = ent[x]
      BY <1>3
    <2>2. ASSUME NEW x \in DOMAIN T PROVE \E pe \in ReachedIn(s) : pe[2] = ent[x]
      <3>1. PICK pe : pe = <<x, ent[x]>>
        OBVIOUS
      <3> QED
        BY <1>3, <3>1
    <2> QED
      BY <2>1, <2>2
  <1> QED
    BY <1>2, <1>4 DEF Unreached

LEMMA SeenNow ==
  ASSUME NEW T, NEW ent, NEW place, Running(Now, path, T, ent, place)
  PROVE  OnDisk = T /\ Lost = Unreached(Now, T, ent) /\ mode = "shell"
  <1>1. PICK s : s = Now
    OBVIOUS
  <1>2. s.fat = fat /\ s.mode = mode
    BY <1>1 DEF Now
  <1>3. /\ OnDiskIn(s) = T
        /\ {c \in Clusters : s.fat[c] # 0} \ {pe[2].cluster : pe \in ReachedIn(s)} = Unreached(s, T, ent)
    BY <1>1, Seen
  <1>4. OnDisk = OnDiskIn(s) /\ Reached = ReachedIn(s)
    BY <1>1, OnDiskNow, ReachedNow
  <1>5. Lost = Unreached(s, T, ent)
    BY <1>2, <1>3, <1>4 DEF Lost
  <1> QED
    BY <1>1, <1>2, <1>3, <1>4, <1>5 DEF Running

LEMMA SeenNext ==
  ASSUME NEW T, NEW ent, NEW place, Running(Now', path', T, ent, place)
  PROVE  OnDisk' = T /\ Lost' = Unreached(Now', T, ent) /\ mode' = "shell"
  <1>1. PICK s : s = Now'
    OBVIOUS
  <1>2. s.fat = fat' /\ s.mode = mode'
    BY <1>1 DEF Now
  <1>3. /\ OnDiskIn(s) = T
        /\ {c \in Clusters : s.fat[c] # 0} \ {pe[2].cluster : pe \in ReachedIn(s)} = Unreached(s, T, ent)
    BY <1>1, Seen
  <1>4. OnDisk' = OnDiskIn(s) /\ Reached' = ReachedIn(s)
    BY <1>1, OnDiskNow, ReachedNow
  <1>5. Lost' = Unreached(s, T, ent)
    BY <1>2, <1>3, <1>4 DEF Lost
  <1> QED
    BY <1>1, <1>2, <1>3, <1>4, <1>5 DEF Running

(***************************************************************************)
(* The steps of FileTree                                                   *)
(***************************************************************************)
LEMMA TreeCreates ==
  ASSUME mode = "shell", mode' = "shell", path # <<>>, path' = path, out' = Done, NEW n,
         Append(path, n) \notin DOMAIN OnDisk, OnDisk' = Grown(OnDisk, Append(path, n), <<>>)
  PROVE  Tree!Create(n)
  BY DEF Tree!Create, Tree!Here, Tree!Exists, Tree!Done, Done, Grown

LEMMA TreeRefuses ==
  ASSUME mode = "shell", mode' = "shell", path # <<>>, path' = path, out' = NoSuch, NEW n,
         Append(path, n) \notin DOMAIN OnDisk, OnDisk' = OnDisk
  PROVE  Tree!Refuse(n)
  BY DEF Tree!Refuse, Tree!Here, Tree!Exists, Tree!NoSuch, NoSuch

LEMMA TreeWrites ==
  ASSUME mode = "shell", mode' = "shell", path' = path, out' = Done, NEW n, NEW d,
         Append(path, n) \in DOMAIN OnDisk, OnDisk' = [OnDisk EXCEPT ![Append(path, n)] = d]
  PROVE  Tree!Write(n, d)
  BY DEF Tree!Write, Tree!Here, Tree!Exists, Tree!Done, Done

LEMMA TreeShows ==
  ASSUME mode = "shell", mode' = "shell", path' = path, NEW n,
         Append(path, n) \in DOMAIN OnDisk, OnDisk' = OnDisk, out' = [shown |-> OnDisk[Append(path, n)]]
  PROVE  Tree!Cat(n)
  BY DEF Tree!Cat, Tree!Here, Tree!Exists

LEMMA TreeEnters ==
  ASSUME mode = "shell", mode' = "shell", NEW n, path' = Append(path, n), out' = Done,
         Append(path, n) \in DOMAIN OnDisk, OnDisk' = OnDisk
  PROVE  Tree!Cd(n)
  BY DEF Tree!Cd, Tree!Here, Tree!Exists, Tree!Done, Done

LEMMA TreeLeaves ==
  ASSUME mode = "shell", mode' = "shell", Len(path) > 1, path' = Front(path), out' = Done, OnDisk' = OnDisk
  PROVE  Tree!CdUp
  BY DEF Tree!CdUp, Tree!Parent, Front, Tree!Done, Done

LEMMA TreeLists ==
  ASSUME mode = "shell", mode' = "shell", path # <<>>, path' = path, OnDisk' = OnDisk,
         out' = [listed |-> {Last(r) : r \in Below(OnDisk, path)}]
  PROVE  Tree!Ls
  BY DEF Tree!Ls, Tree!IsListing, Tree!Children, Tree!Parent, Below, Front, Last

LEMMA TreeListsIn ==
  ASSUME mode = "shell", mode' = "shell", NEW n, path' = path, OnDisk' = OnDisk,
         Append(path, n) \in DOMAIN OnDisk, out' = [listed |-> {Last(r) : r \in Below(OnDisk, Append(path, n))}]
  PROVE  Tree!LsIn(n)
  BY DEF Tree!LsIn, Tree!Here, Tree!Exists, Tree!IsListing, Tree!Children, Tree!Parent, Below, Front, Last

LEMMA TreeStops == ASSUME mode' \in {"off", "full"} PROVE Tree!Stop
  BY DEF Tree!Stop, Tree!Done, Tree!Nothing, Done

LEMMA TreeBoots ==
  ASSUME mode = "off", mode' = "shell", path' = <<ROOT>>, out' = Done, OnDisk' = RootOnly
  PROVE  Tree!Boot
  BY DEF Tree!Boot, Tree!Off, Tree!Done, Tree!Nothing, Done, RootOnly

(***************************************************************************)
(* The commands                                                            *)
(***************************************************************************)
LEMMA NamesInIs ==
  ASSUME NEW T, NEW ent, NEW place, Running(Now, path, T, ent, place), NEW q \in DOMAIN T, Last(q) \in DirNames
  PROVE  NamesIn(ent[q]) = {Last(r) : r \in Below(T, q)}
  <1>1. PICK s : s = Now
    OBVIOUS
  <1>2. IsState(s, Units) /\ Tidy(s, T, ent, place)
    BY <1>1 DEF Running
  <1>3. EntriesIn(s, ent[q]) = {ent[r] : r \in Below(T, q)}
    BY <1>2, EntriesInIs
  <1>4. NamesIn(ent[q]) = {e.name : e \in EntriesIn(s, ent[q])}
    BY <1>1 DEF NamesIn, Entries, EntriesIn
  <1>5. \A r \in Below(T, q) : ent[r].name = Last(r)
    BY <1>2 DEF Tidy, Listed, Named, Below
  <1>6. NamesIn(ent[q]) = {ent[r].name : r \in Below(T, q)}
    BY <1>3, <1>4
  <1> QED
    BY <1>5, <1>6

LEMMA NameThere ==
  ASSUME NEW T, Shape(T), NEW q \in DOMAIN T, NEW n \in Names
  PROVE  Append(q, n) \in DOMAIN T <=> n \in {Last(r) : r \in Below(T, q)}
  <1>1. q \in Seq(Names) /\ Len(q) \in Nat \ {0}
    BY PathTyped
  <1>2. PICK p : p = Append(q, n)
    OBVIOUS
  <1>3. Front(p) = q /\ Last(p) = n /\ Len(p) = Len(q) + 1
    BY <1>1, <1>2, AppendIs
  <1>4. p \in DOMAIN T => p \in Below(T, q)
    BY <1>1, <1>3 DEF Below
  <1>5. ASSUME NEW r \in Below(T, q) PROVE r \in DOMAIN T /\ Append(q, Last(r)) = r
    <2>1. r \in DOMAIN T /\ Front(r) = q
      BY DEF Below
    <2>2. r \in Seq(Names) /\ Len(r) \in Nat \ {0}
      BY <2>1, PathTyped
    <2>3. Append(Front(r), Last(r)) = r
      BY <2>2, FrontIs
    <2> QED
      BY <2>1, <2>3
  <1> QED
    BY <1>2, <1>3, <1>4, <1>5

LEMMA LookedIs ==
  ASSUME NEW T, NEW ent, NEW place, Running(Now, path, T, ent, place)
  PROVE  /\ Look(path).end = "open" /\ Current(Look(path)) = ent[path] /\ ent[path] # NoFile
         /\ \A n \in FileNames :
              /\ Look(Here(n)).end = "file" /\ LookFile(n) = "file"
              /\ File(n) = IF Here(n) \in DOMAIN T THEN ent[Here(n)] ELSE NoFile
         /\ \A n \in DirNames : Here(n) \in DOMAIN T \/ Len(path) = 1 =>
              /\ Look(Here(n)).end = "open"
              /\ Current(Look(Here(n))) = IF Here(n) \in DOMAIN T THEN ent[Here(n)] ELSE NoFile
         /\ \A p \in DOMAIN T : ent[p] # NoFile
  <1>1. PICK s, q : s = Loaded(Now) /\ q = path
    OBVIOUS
  <1>2. /\ IsState(s, Units) /\ Tidy(s, T, ent, place) /\ s.read
        /\ q \in DOMAIN T /\ Last(q) \in DirNames
    <2>1. PICK t : t = Now
      OBVIOUS
    <2>2. IsState(t, Units) /\ Tidy(t, T, ent, place) /\ q \in DOMAIN T /\ Last(q) \in DirNames
      BY <1>1, <2>1 DEF Running
    <2> QED
      BY <1>1, <2>1, <2>2, TidyLoaded
  <1>3. \A p : Look(p) = Navigate(s, p)
    BY <1>1 DEF Look
  <1>4. Navigate(s, q).end = "open" /\ Current(Navigate(s, q)) = ent[q]
    <2>1. Shape(T) /\ Named(T, ent) /\ Ready(s, T, ent, place, q)
      BY <1>2, ReadyFor DEF Tidy, Listed
    <2> QED
      BY <1>2, <2>1, FindDir
  <1>5. ASSUME NEW n \in FileNames
        PROVE  /\ Navigate(s, Append(q, n)).end = "file" /\ FileEnd(s, Append(q, n)) = "file"
               /\ FileAt(s, Append(q, n)) = IF Append(q, n) \in DOMAIN T THEN ent[Append(q, n)] ELSE NoFile
    BY <1>2, FileAtIs
  <1>6. ASSUME NEW n \in DirNames, Append(q, n) \in DOMAIN T \/ Len(q) = 1
        PROVE  /\ Navigate(s, Append(q, n)).end = "open"
               /\ Current(Navigate(s, Append(q, n))) = IF Append(q, n) \in DOMAIN T THEN ent[Append(q, n)] ELSE NoFile
    BY <1>2, <1>6, DirAtIs
  <1>7. \A p \in DOMAIN T : ent[p] # NoFile
    BY <1>2, UnitsApart DEF Tidy, Listed, Named
  <1> QED
    BY <1>1, <1>2, <1>3, <1>4, <1>5, <1>6, <1>7 DEF Here, File, LookFile

(* The user goes on in a tree, with no cluster more or less reached. *)
GoesOn ==
  /\ mode' = "shell" /\ Lost' = Lost
  /\ \E T, ent, place : Running(Now', path', T, ent, place)

LEMMA PathIs ==
  ASSUME NEW T, NEW ent, NEW place, Running(Now, path, T, ent, place)
  PROVE  /\ mode = "shell" /\ OnDisk = T /\ Shape(T) /\ path \in DOMAIN T /\ Last(path) \in DirNames
         /\ path \in Seq(Names) /\ Len(path) \in Nat \ {0} /\ Len(path) <= MaxDepth /\ path # <<>>
         /\ ent[path] \in Inode
  <1>1. mode = "shell" /\ OnDisk = T
    BY SeenNow
  <1>2. Shape(T) /\ path \in DOMAIN T /\ Last(path) \in DirNames /\ Len(path) <= MaxDepth /\ ent[path] \in Inode
    BY DEF Running, Tidy, Listed, Named
  <1>3. path \in Seq(Names) /\ Len(path) \in Nat \ {0}
    BY <1>2, PathTyped
  <1>4. path # <<>>
    BY <1>3
  <1> QED
    BY <1>1, <1>2, <1>3, <1>4

LEMMA NotStray == ~IsStray("open") /\ ~IsStray("file")
  BY DEF IsStray

LEMMA QuietStep ==
  ASSUME NEW T, NEW ent, NEW place, Running(Now, path, T, ent, place), Becomes(Loaded(Now)),
         path' \in DOMAIN T, Last(path') \in DirNames, Len(path') <= MaxDepth
  PROVE  GoesOn /\ OnDisk' = OnDisk /\ OnDisk = T
  <1>1. /\ Running(Now', path', T, ent, place) /\ mode' = "shell"
        /\ Unreached(Now', T, ent) = Unreached(Now, T, ent)
    BY LooksOn
  <1>2. OnDisk' = T /\ Lost' = Unreached(Now', T, ent)
    BY <1>1, SeenNext
  <1>3. OnDisk = T /\ Lost = Unreached(Now, T, ent)
    BY SeenNow
  <1> QED
    BY <1>1, <1>2, <1>3 DEF GoesOn

LEMMA CdUpGoesOn ==
  ASSUME NEW T, NEW ent, NEW place, Running(Now, path, T, ent, place), CdUp
  PROVE  GoesOn /\ Tree!CdUp
  <1>1. Now' = Now
    BY DEF CdUp, fsVars, disk, rootBuffer, Now
  <1>2. path # <<ROOT>> /\ path' = Front(path) /\ out' = Done
    BY DEF CdUp
  <1>3. /\ mode = "shell" /\ OnDisk = T /\ Shape(T) /\ path \in DOMAIN T /\ Last(path) \in DirNames
        /\ path \in Seq(Names) /\ Len(path) \in Nat \ {0} /\ Len(path) <= MaxDepth
    BY PathIs
  <1>4. Len(path) > 1
    <2>1. PICK l \in Nat \ {0} : l = Len(path)
      BY <1>3
    <2>2. l # 1
      BY <1>2, <1>3, <2>1, PathTyped
    <2> QED
      BY <2>1, <2>2
  <1>5. Front(path) \in DOMAIN T /\ Last(Front(path)) \in DirNames
    BY <1>3, <1>4 DEF Shape
  <1>6. Len(Front(path)) <= MaxDepth
    <2>1. Len(Front(path)) = Len(path) - 1 /\ MaxDepth \in Nat
      BY <1>3, <1>4, FrontIs, FileSystemAssumption
    <2> QED
      BY <1>3, <2>1
  <1>7. Running(Now', path', T, ent, place)
    BY <1>1, <1>2, <1>5, <1>6 DEF Running
  <1>8. mode' = "shell" /\ OnDisk' = T /\ Lost' = Unreached(Now', T, ent)
    BY <1>7, SeenNext
  <1>9. Lost = Unreached(Now, T, ent)
    BY SeenNow
  <1>10. GoesOn
    BY <1>1, <1>7, <1>8, <1>9 DEF GoesOn
  <1> QED
    BY <1>2, <1>3, <1>4, <1>8, <1>10, TreeLeaves

LEMMA LsGoesOn ==
  ASSUME NEW T, NEW ent, NEW place, Running(Now, path, T, ent, place), Ls(path)
  PROVE  GoesOn /\ Tree!Ls
  <1>1. Current(Look(path)) = ent[path] /\ ent[path] # NoFile /\ Look(path).end = "open"
    BY LookedIs
  <1>2. path' = path /\ Becomes(Loaded(Now)) /\ out' = [listed |-> NamesIn(ent[path])]
    BY <1>1, NotStray DEF Ls, Strays, Answer
  <1>3. /\ mode = "shell" /\ OnDisk = T /\ path \in DOMAIN T /\ Last(path) \in DirNames
        /\ path # <<>> /\ Len(path) <= MaxDepth
    BY PathIs
  <1>4. GoesOn /\ OnDisk' = OnDisk
    BY <1>2, <1>3, QuietStep
  <1>5. NamesIn(ent[path]) = {Last(r) : r \in Below(T, path)}
    BY <1>3, NamesInIs
  <1> QED
    BY <1>2, <1>3, <1>4, <1>5, TreeLists DEF GoesOn

LEMMA LsInGoesOn ==
  ASSUME NEW T, NEW ent, NEW place, Running(Now, path, T, ent, place), NEW n \in DirNames,
         Here(n) \in DOMAIN T \/ Len(path) = 1, Ls(Here(n))
  PROVE  GoesOn /\ (Tree!LsIn(n) \/ Tree!Refuse(n))
  <1>1. PICK p : p = Here(n)
    OBVIOUS
  <1>2. Current(Look(p)) = (IF p \in DOMAIN T THEN ent[p] ELSE NoFile) /\ Look(p).end = "open"
    BY <1>1, LookedIs
  <1>3. path' = path /\ Becomes(Loaded(Now))
        /\ out' = IF Current(Look(p)) = NoFile THEN NoSuch ELSE [listed |-> NamesIn(Current(Look(p)))]
    BY <1>1, <1>2, NotStray DEF Ls, Strays, Answer
  <1>4. /\ mode = "shell" /\ OnDisk = T /\ Shape(T) /\ path \in DOMAIN T /\ Last(path) \in DirNames
        /\ path # <<>> /\ Len(path) <= MaxDepth /\ path \in Seq(Names) /\ p = Append(path, n) /\ n \in Names
    BY <1>1, PathIs DEF Here, Names
  <1>5. GoesOn /\ OnDisk' = OnDisk
    BY <1>3, <1>4, QuietStep
  <1>6. CASE p \in DOMAIN T
    <2>1. ent[p] # NoFile
      BY <1>6, LookedIs
    <2>2. Last(p) = n
      BY <1>4, AppendIs
    <2>3. NamesIn(ent[p]) = {Last(r) : r \in Below(T, p)}
      BY <1>6, <2>2, NamesInIs
    <2>4. out' = [listed |-> {Last(r) : r \in Below(OnDisk, Append(path, n))}]
      BY <1>2, <1>3, <1>4, <1>6, <2>1, <2>3
    <2>5. mode = "shell" /\ mode' = "shell" /\ Append(path, n) \in DOMAIN OnDisk
      BY <1>4, <1>5, <1>6 DEF GoesOn
    <2>6. Tree!LsIn(n)
      BY <1>3, <1>5, <2>4, <2>5, TreeListsIn
    <2> QED
      BY <1>5, <2>6
  <1>7. CASE p \notin DOMAIN T
    <2>1. out' = NoSuch /\ mode' = "shell"
      BY <1>2, <1>3, <1>5, <1>7 DEF GoesOn
    <2>2. Tree!Refuse(n)
      BY <1>3, <1>4, <1>5, <1>7, <2>1, TreeRefuses
    <2> QED
      BY <1>5, <2>2
  <1> QED
    BY <1>6, <1>7

LEMMA CdGoesOn ==
  ASSUME NEW T, NEW ent, NEW place, Running(Now, path, T, ent, place), NEW n \in DirNames,
         Here(n) \in DOMAIN T \/ Len(path) = 1, Cd(n)
  PROVE  GoesOn /\ (Tree!Cd(n) \/ Tree!Refuse(n))
  <1>1. PICK p : p = Here(n)
    OBVIOUS
  <1>2. Current(Look(p)) = (IF p \in DOMAIN T THEN ent[p] ELSE NoFile) /\ Look(p).end = "open"
    BY <1>1, LookedIs
  <1>3. /\ Becomes(Loaded(Now)) /\ Len(path) < MaxDepth
        /\ IF Current(Look(p)) # NoFile THEN path' = p /\ out' = Done ELSE path' = path /\ out' = NoSuch
    BY <1>1, <1>2, NotStray DEF Cd, Strays, Answer
  <1>4. /\ mode = "shell" /\ OnDisk = T /\ Shape(T) /\ path \in DOMAIN T /\ Last(path) \in DirNames
        /\ path # <<>> /\ Len(path) <= MaxDepth /\ path \in Seq(Names) /\ p = Append(path, n) /\ n \in Names
    BY <1>1, PathIs DEF Here, Names
  <1>5. CASE p \in DOMAIN T
    <2>1. ent[p] # NoFile
      BY <1>5, LookedIs
    <2>2. path' = p /\ out' = Done
      BY <1>2, <1>3, <1>5, <2>1
    <2>3. Last(p) = n /\ Len(p) = Len(path) + 1
      BY <1>4, AppendIs
    <2>4. Len(p) <= MaxDepth
      <3>1. PICK l \in Nat : l = Len(path)
        BY <1>4
      <3> QED
        BY <1>3, <2>3, <3>1, FileSystemAssumption
    <2>5. GoesOn /\ OnDisk' = OnDisk
      BY <1>3, <1>5, <2>2, <2>3, <2>4, QuietStep
    <2>6. mode = "shell" /\ mode' = "shell" /\ Append(path, n) \in DOMAIN OnDisk /\ path' = Append(path, n)
      BY <1>4, <1>5, <2>2, <2>5 DEF GoesOn
    <2>7. Tree!Cd(n)
      BY <2>2, <2>5, <2>6, TreeEnters
    <2> QED
      BY <2>5, <2>7
  <1>6. CASE p \notin DOMAIN T
    <2>1. path' = path /\ out' = NoSuch
      BY <1>2, <1>3, <1>6
    <2>2. GoesOn /\ OnDisk' = OnDisk
      BY <1>3, <1>4, <2>1, QuietStep
    <2>3. mode' = "shell" /\ Append(path, n) \notin DOMAIN OnDisk
      BY <1>4, <1>6, <2>2 DEF GoesOn
    <2>4. Tree!Refuse(n)
      BY <1>4, <2>1, <2>2, <2>3, TreeRefuses
    <2> QED
      BY <2>2, <2>4
  <1> QED
    BY <1>5, <1>6

LEMMA RefusedGoesOn ==
  ASSUME NEW T, NEW ent, NEW place, Running(Now, path, T, ent, place), NEW n \in FileNames,
         Here(n) \notin DOMAIN T, Answer(NoSuch), path' = path
  PROVE  GoesOn /\ Tree!Refuse(n)
  <1>1. Becomes(Loaded(Now)) /\ out' = NoSuch
    BY DEF Answer
  <1>2. /\ mode = "shell" /\ OnDisk = T /\ path \in DOMAIN T /\ Last(path) \in DirNames
        /\ path # <<>> /\ Len(path) <= MaxDepth
    BY PathIs
  <1>3. GoesOn /\ OnDisk' = OnDisk
    BY <1>1, <1>2, QuietStep
  <1>4. mode' = "shell" /\ Append(path, n) \notin DOMAIN OnDisk
    BY <1>2, <1>3 DEF GoesOn, Here
  <1> QED
    BY <1>1, <1>2, <1>3, <1>4, TreeRefuses

LEMMA CatGoesOn ==
  ASSUME NEW T, NEW ent, NEW place, Running(Now, path, T, ent, place), NEW n \in FileNames, Cat(n)
  PROVE  GoesOn /\ (Tree!Cat(n) \/ Tree!Refuse(n))
  <1>1. PICK p : p = Here(n)
    OBVIOUS
  <1>2. File(n) = (IF p \in DOMAIN T THEN ent[p] ELSE NoFile) /\ LookFile(n) = "file"
    BY <1>1, LookedIs
  <1>3. path' = path /\ Answer(IF File(n) = NoFile THEN NoSuch ELSE [shown |-> TextOf(File(n))])
    BY <1>2, NotStray DEF Cat, Strays
  <1>4. CASE p \in DOMAIN T
    <2>1. /\ mode = "shell" /\ OnDisk = T /\ path \in DOMAIN T /\ Last(path) \in DirNames /\ path # <<>>
          /\ Len(path) <= MaxDepth /\ path \in Seq(Names) /\ p = Append(path, n) /\ n \in Names
      BY <1>1, PathIs DEF Here, Names
    <2>2. ent[p] # NoFile /\ Last(p) = n
      BY <1>4, <2>1, LookedIs, AppendIs
    <2>3. Becomes(Loaded(Now)) /\ out' = [shown |-> TextOf(ent[p])]
      BY <1>2, <1>3, <1>4, <2>2 DEF Answer
    <2>4. TextOf(ent[p]) = T[p]
      <3>1. PICK s : s = Now
        OBVIOUS
      <3>2. IsState(s, Units) /\ Tidy(s, T, ent, place)
        BY <3>1 DEF Running
      <3>3. TextIn(s, ent[p]) = T[p]
        BY <1>4, <2>2, <3>2, OnDiskIs
      <3> QED
        BY <3>1, <3>3 DEF TextOf, TextIn
    <2>5. GoesOn /\ OnDisk' = OnDisk
      BY <1>3, <2>1, <2>3, QuietStep
    <2>6. mode' = "shell" /\ Append(path, n) \in DOMAIN OnDisk /\ out' = [shown |-> OnDisk[Append(path, n)]]
      BY <1>4, <2>1, <2>3, <2>4, <2>5 DEF GoesOn
    <2>7. Tree!Cat(n)
      BY <1>3, <2>1, <2>5, <2>6, TreeShows
    <2> QED
      BY <2>5, <2>7
  <1>5. CASE p \notin DOMAIN T
    <2>1. Answer(NoSuch) /\ Here(n) \notin DOMAIN T
      BY <1>1, <1>2, <1>3, <1>5
    <2> QED
      BY <1>3, <2>1, RefusedGoesOn
  <1> QED
    BY <1>4, <1>5

LEMMA WriteRefusedGoesOn ==
  ASSUME NEW T, NEW ent, NEW place, Running(Now, path, T, ent, place), NEW n \in FileNames, WriteRefused(n)
  PROVE  GoesOn /\ Tree!Refuse(n)
  <1>1. File(n) = NoFile /\ Answer(NoSuch) /\ path' = path
    BY DEF WriteRefused
  <1>2. Here(n) \notin DOMAIN T
    BY <1>1, LookedIs
  <1> QED
    BY <1>1, <1>2, RefusedGoesOn

(* The model ends at a full disk, with nothing written. *)
LEMMA FullStops ==
  ASSUME NEW s, IsState(s, Units), Becomes([s EXCEPT !.mode = "full"])
  PROVE  IsState(Now', Units) /\ mode' = "full"
  <1>1. PICK t : t = [s EXCEPT !.mode = "full"]
    OBVIOUS
  <1>2. IsState(t, Units) /\ t.mode = "full"
    BY <1>1 DEF IsState
  <1>3. Becomes(t)
    BY <1>1
  <1>4. Now' = Unwritten(t) /\ mode' = t.mode
    BY <1>2, <1>3, BecomesNow
  <1>5. IsState(Unwritten(t), Units)
    BY <1>2 DEF IsState, Unwritten
  <1> QED
    BY <1>2, <1>4, <1>5

LEMMA CreateGoesOn ==
  ASSUME NEW T, NEW ent, NEW place, Running(Now, path, T, ent, place), NEW n \in Names \ Misread,
         n \notin NamesIn(CurrentDir), CurrentDir.size < CLUSTER_SIZE, Create(n)
  PROVE  \/ GoesOn /\ Tree!Create(n)
         \/ IsState(Now', Units) /\ mode' = "full"
  <1>1. PICK s, q, p : s = Now /\ q = path /\ p = Append(q, n)
    OBVIOUS
  <1>2. /\ IsState(s, Units) /\ Tidy(s, T, ent, place) /\ s.mode = "shell"
        /\ q \in DOMAIN T /\ Last(q) \in DirNames /\ Len(q) <= MaxDepth
    BY <1>1 DEF Running
  <1>3. CurrentDir = ent[q]
    BY <1>1, LookedIs DEF CurrentDir
  <1>4. mode = "shell" /\ OnDisk = T /\ Shape(T) /\ q \in Seq(Names) /\ q # <<>>
    BY <1>1, PathIs
  <1>5. p \notin DOMAIN T
    <2>1. NamesIn(ent[q]) = {Last(r) : r \in Below(T, q)}
      BY <1>1, <1>2, NamesInIs
    <2>2. n \notin {Last(r) : r \in Below(T, q)}
      BY <1>3, <2>1
    <2>3. Append(q, n) \in DOMAIN T <=> n \in {Last(r) : r \in Below(T, q)}
      BY <1>2, <1>4, NameThere
    <2> QED
      BY <1>1, <2>2, <2>3
  <1>6. Becomes(Created(s, n, q)) /\ path' = path /\ out' = IF mode' = "shell" THEN Done ELSE out
    BY <1>1 DEF Create
  <1>7. CASE FreeClusters(s) = {}
    <2>1. Becomes([s EXCEPT !.mode = "full"])
      BY <1>6, <1>7 DEF Created
    <2> QED
      BY <1>2, <2>1, FullStops
  <1>8. CASE FreeClusters(s) # {}
    <2>1. PICK t, T2, ent2, place2 :
            /\ t = Created(s, n, q) /\ T2 = Grown(T, p, <<>>)
            /\ ent2 = EntriesWith(T, ent, q, NewFile(s, n))
            /\ place2 = PlacesWith(T, ent, place, q, NewFile(s, n))
      OBVIOUS
    <2>2. /\ IsState(t, Units) /\ t.mode = "shell" /\ Tidy(t, T2, ent2, place2)
          /\ Unreached(t, T2, ent2) = Unreached(s, T, ent)
      <3>1. ent[q].size < CLUSTER_SIZE /\ Append(q, n) \notin DOMAIN T
        BY <1>1, <1>3, <1>5
      <3>2. LET t1 == Created(s, n, q)
                T1 == Grown(T, Append(q, n), <<>>)
                ent1 == EntriesWith(T, ent, q, NewFile(s, n))
            IN  /\ IsState(t1, Units) /\ t1.mode = s.mode
                /\ Tidy(t1, T1, ent1, PlacesWith(T, ent, place, q, NewFile(s, n)))
                /\ Unreached(t1, T1, ent1) = Unreached(s, T, ent)
        BY <1>2, <1>8, <3>1, CreatedTidy
      <3> QED
        BY <1>1, <1>2, <2>1, <3>2
    <2>3. T2 = [x \in DOMAIN T2 |-> T2[x]] /\ path' \in DOMAIN T2
      BY <1>1, <1>2, <1>6, <2>1 DEF Grown
    <2>4. Becomes(t) /\ Last(path') \in DirNames /\ Len(path') <= MaxDepth
      BY <1>1, <1>2, <1>6, <2>1
    <2>5. Running(Now', path', T2, ent2, place2) /\ mode' = "shell" /\ Unreached(Now', T2, ent2) = Unreached(t, T2, ent2)
      BY <2>2, <2>3, <2>4, RunsOn
    <2>6. OnDisk' = T2 /\ Lost' = Unreached(Now', T2, ent2)
      BY <2>5, SeenNext
    <2>7. Lost = Unreached(Now, T, ent)
      BY SeenNow
    <2>8. Lost' = Lost
      BY <1>1, <2>2, <2>5, <2>6, <2>7
    <2>9. GoesOn
      BY <2>5, <2>8 DEF GoesOn
    <2>10. path # <<>> /\ out' = Done /\ Append(path, n) \notin DOMAIN OnDisk
           /\ OnDisk' = Grown(OnDisk, Append(path, n), <<>>)
      BY <1>1, <1>4, <1>5, <1>6, <2>1, <2>5, <2>6
    <2>11. Tree!Create(n)
      BY <1>4, <1>6, <2>5, <2>10, TreeCreates
    <2> QED
      BY <2>9, <2>11
  <1> QED
    BY <1>7, <1>8

LEMMA WriteGoesOn ==
  ASSUME NEW T, NEW ent, NEW place, Running(Now, path, T, ent, place), NEW n \in FileNames,
         NEW d \in Contents, Len(d) < CLUSTER_SIZE, Write(n, d)
  PROVE  GoesOn /\ Tree!Write(n, d)
  <1>1. PICK s, p : s = Now /\ p = Here(n)
    OBVIOUS
  <1>2. /\ IsState(s, Units) /\ Tidy(s, T, ent, place) /\ s.mode = "shell"
        /\ path \in DOMAIN T /\ Last(path) \in DirNames /\ Len(path) <= MaxDepth
    BY <1>1 DEF Running
  <1>3. /\ mode = "shell" /\ OnDisk = T /\ path \in Seq(Names) /\ p = Append(path, n) /\ n \in Names
    BY <1>1, PathIs DEF Here, Names
  <1>4. File(n) # NoFile /\ Becomes(Written(s, p, d)) /\ out' = Done /\ path' = path
    <2>1. LookFile(n) = "file"
      BY LookedIs
    <2> QED
      BY <1>1, <2>1, NotStray DEF Write, Strays
  <1>5. p \in DOMAIN T
    BY <1>1, <1>4, LookedIs
  <1>6. Last(p) \in FileNames /\ d \in Seq(Bytes) /\ Last(path) # n
    <2>1. Last(p) = n
      BY <1>3, AppendIs
    <2> QED
      BY <1>2, <2>1, ShellAssumption, FileSystemAssumption
  <1>7. PICK t, T2, ent2 : /\ t = Written(s, p, d) /\ T2 = [T EXCEPT ![p] = d]
                           /\ ent2 = EntryNow(T, ent, p, Resized(ent[p], Len(d)))
    OBVIOUS
  <1>8. /\ IsState(t, Units) /\ t.mode = "shell" /\ Tidy(t, T2, ent2, place)
        /\ Unreached(t, T2, ent2) = Unreached(s, T, ent)
    <2>1. LET t1 == Written(s, p, d)
              ent1 == EntryNow(T, ent, p, Resized(ent[p], Len(d)))
          IN  /\ IsState(t1, Units) /\ t1.mode = s.mode /\ t1.fat = s.fat
              /\ Tidy(t1, [T EXCEPT ![p] = d], ent1, place)
              /\ Unreached(t1, [T EXCEPT ![p] = d], ent1) = Unreached(s, T, ent)
      BY <1>2, <1>5, <1>6, WrittenTidy
    <2> QED
      BY <1>2, <1>7, <2>1
  <1>9. T2 = [x \in DOMAIN T2 |-> T2[x]] /\ path' \in DOMAIN T2
    BY <1>2, <1>4, <1>7
  <1>10. Becomes(t) /\ Last(path') \in DirNames /\ Len(path') <= MaxDepth
    BY <1>2, <1>4, <1>7
  <1>11. Running(Now', path', T2, ent2, place) /\ mode' = "shell" /\ Unreached(Now', T2, ent2) = Unreached(t, T2, ent2)
    BY <1>8, <1>9, <1>10, RunsOn
  <1>12. OnDisk' = T2 /\ Lost' = Unreached(Now', T2, ent2)
    BY <1>11, SeenNext
  <1>13. Lost = Unreached(Now, T, ent)
    BY SeenNow
  <1>14. GoesOn
    BY <1>1, <1>8, <1>11, <1>12, <1>13 DEF GoesOn
  <1>15. Append(path, n) \in DOMAIN OnDisk /\ OnDisk' = [OnDisk EXCEPT ![Append(path, n)] = d]
    BY <1>3, <1>5, <1>7, <1>12
  <1> QED
    BY <1>3, <1>4, <1>11, <1>14, <1>15, TreeWrites

(***************************************************************************)
(* The machine                                                             *)
(***************************************************************************)
LEMMA BootStep ==
  ASSUME IsState(Now, Units), mode = "off", path = <<>>, out = Done, Boot
  PROVE  \/ /\ mode' = "shell" /\ Tree!Boot
            /\ \E T, ent, place : Running(Now', path', T, ent, place)
         \/ IsState(Now', Units) /\ mode' = "full"
  <1>1. PICK s : s = Now
    OBVIOUS
  <1>2. IsState(s, Units)
    BY <1>1
  <1>3. Becomes(Booted(s)) /\ path' = (IF mode' = "shell" THEN <<ROOT>> ELSE <<>>) /\ out' = Done
    BY <1>1 DEF Boot
  <1>4. CASE FreeClusters(s) # {}
    <2>1. PICK t, ent, place : t = Booted(s) /\ ent = RootEntry(s) /\ place = ent
      OBVIOUS
    <2>2. IsState(t, Units) /\ t.mode = "shell" /\ Tidy(t, RootOnly, ent, place)
      <3>1. LET t1 == Booted(s)
            IN  /\ IsState(t1, Units) /\ t1.mode = "shell" /\ Tidy(t1, RootOnly, RootEntry(s), place)
                /\ t1.fat = [s.fat EXCEPT ![Smallest(FreeClusters(s))] = EOC]
        BY <1>2, <1>4, BootedTidy
      <3> QED
        BY <2>1, <3>1
    <2>3. mode' = "shell" /\ path' = <<ROOT>>
      BY <1>3, <2>1, <2>2 DEF Becomes
    <2>4. RootOnly = [x \in DOMAIN RootOnly |-> RootOnly[x]] /\ path' \in DOMAIN RootOnly
      BY <2>3 DEF RootOnly
    <2>5. Last(path') \in DirNames /\ Len(path') <= MaxDepth
      BY <2>3, FileSystemAssumption DEF Last
    <2>6. Becomes(t)
      BY <1>3, <2>1
    <2>7. Running(Now', path', RootOnly, ent, place)
      BY <2>2, <2>4, <2>5, <2>6, RunsOn
    <2>8. OnDisk' = RootOnly
      BY <2>7, SeenNext
    <2>9. Tree!Boot
      BY <1>3, <2>3, <2>8, TreeBoots
    <2> QED
      BY <2>3, <2>7, <2>9
  <1>5. CASE FreeClusters(s) = {}
    <2>1. PICK s0 : s0 = [s EXCEPT !.root = NoRoot, !.entries = 0, !.read = FALSE, !.mode = "shell"]
      OBVIOUS
    <2>2. IsState(s0, Units) /\ s0.fat = s.fat
      <3>1. NoRoot \in [1..ROOT_ENTRIES -> Units]
        BY DEF NoRoot, Units
      <3> QED
        BY <1>2, <2>1, <3>1 DEF IsState
    <2>3. Booted(s) = [s0 EXCEPT !.mode = "full"]
      <3>1. FreeClusters(s0) = {}
        BY <1>5, <2>2 DEF FreeClusters
      <3> QED
        BY <2>1, <3>1 DEF Booted, Created
    <2>4. Becomes([s0 EXCEPT !.mode = "full"])
      BY <1>3, <2>3
    <2> QED
      BY <2>2, <2>4, FullStops
  <1> QED
    BY <1>4, <1>5

LEMMA OffStep ==
  ASSUME IsState(Now, Units), SwitchOff
  PROVE  IsState(Now', Units) /\ mode' = "off" /\ path' = <<>> /\ out' = Done
  <1>1. /\ fat' = fat /\ data' = data /\ diskRoot' = diskRoot /\ root' = NoRoot
        /\ root_entries' = 0 /\ was_root_read' = FALSE /\ mode' = "off" /\ path' = <<>> /\ out' = Done
    BY DEF SwitchOff, Off, disk
  <1>2. NoRoot \in [1..ROOT_ENTRIES -> Units]
    BY DEF NoRoot, Units
  <1>3. PICK s, t : s = Now /\ t = Now'
    OBVIOUS
  <1>4. /\ fat \in [Clusters -> {0, EOC}] /\ data \in [Clusters -> [1..CLUSTER_SIZE -> Units]]
        /\ diskRoot \in [1..ROOT_ENTRIES -> Units] /\ Inode \cup Bytes \cup {Zero, Junk} \subseteq Units
    <2>1. IsState(s, Units) /\ s.fat = fat /\ s.data = data /\ s.diskRoot = diskRoot
      BY <1>3 DEF Now
    <2> QED
      BY <2>1 DEF IsState
  <1>5. IsState(t, Units)
    <2>1. t = [fat |-> fat, data |-> data, root |-> NoRoot, diskRoot |-> diskRoot,
               entries |-> 0, read |-> FALSE, mode |-> "off", writes |-> <<>>]
      BY <1>1, <1>3 DEF Now
    <2> QED
      BY <1>2, <1>4, <2>1 DEF IsState
  <1> QED
    BY <1>1, <1>3, <1>5

(***************************************************************************)
(* The tree and the clusters of a careful user                             *)
(***************************************************************************)

(* The inductive invariant: at the prompt the sectors are those of a tree. *)
CarefulInv ==
  /\ IsState(Now, Units)
  /\ mode \in {"off", "shell", "full"}
  /\ mode = "off" => path = <<>> /\ out = Done
  /\ mode = "shell" => \E T, ent, place : Running(Now, path, T, ent, place)

LEMMA CarefulInit ==
  ASSUME Init PROVE CarefulInv /\ Tree!Init
  <1>1. mode = "off" /\ path = <<>> /\ out = Done
    BY DEF Init, Is, EmptyDisk
  <1>2. IsState(Now, Units)
    <2>1. /\ fat = [c \in Clusters |-> 0] /\ data = [c \in Clusters |-> ZeroSector]
          /\ root = NoRoot /\ diskRoot = NoRoot /\ root_entries = 0 /\ was_root_read = FALSE
      BY DEF Init, Is, EmptyDisk
    <2>2. NoRoot \in [1..ROOT_ENTRIES -> Units] /\ ZeroSector \in [1..CLUSTER_SIZE -> Units]
      BY DEF NoRoot, ZeroSector, Units
    <2>3. fat \in [Clusters -> {0, EOC}] /\ data \in [Clusters -> [1..CLUSTER_SIZE -> Units]]
      BY <2>1, <2>2
    <2>4. PICK s : s = Now
      OBVIOUS
    <2>5. s = [fat |-> fat, data |-> data, root |-> NoRoot, diskRoot |-> NoRoot,
               entries |-> 0, read |-> FALSE, mode |-> "off", writes |-> <<>>]
      BY <1>1, <2>1, <2>4 DEF Now
    <2>6. IsState(s, Units)
      BY <2>2, <2>3, <2>5 DEF IsState, Units
    <2> QED
      BY <2>4, <2>6
  <1>3. CarefulInv
    BY <1>1, <1>2 DEF CarefulInv
  <1>4. Tree!Init
    BY <1>1 DEF Tree!Init, Tree!Off, Tree!Done, Tree!Nothing, Done
  <1> QED
    BY <1>3, <1>4

LEMMA CommandStep ==
  ASSUME CarefulInv, CarefulCommand
  PROVE  (GoesOn \/ (IsState(Now', Units) /\ mode' = "full")) /\ Tree!Next
  <1>1. mode = "shell"
    BY DEF CarefulCommand, CdUp, Ls, WriteRefused, Cat, Write, Cd, Looked, Strays
  <1>2. PICK T, ent, place : Running(Now, path, T, ent, place)
    BY <1>1 DEF CarefulInv
  <1>3. CASE CdUp
    BY <1>2, <1>3, CdUpGoesOn DEF Tree!Next
  <1>4. CASE Ls(path)
    BY <1>2, <1>4, LsGoesOn DEF Tree!Next
  <1>5. ASSUME NEW n \in Names \ Misread, n \notin NamesIn(CurrentDir), CurrentDir.size < CLUSTER_SIZE, Create(n)
        PROVE  (GoesOn \/ (IsState(Now', Units) /\ mode' = "full")) /\ Tree!Next
    <2>1. \/ GoesOn /\ Tree!Create(n)
          \/ IsState(Now', Units) /\ mode' = "full"
      BY <1>2, <1>5, CreateGoesOn
    <2>2. CASE GoesOn /\ Tree!Create(n)
      BY <2>2 DEF Tree!Next, Names
    <2>3. CASE IsState(Now', Units) /\ mode' = "full"
      BY <2>3, TreeStops DEF Tree!Next
    <2> QED
      BY <2>1, <2>2, <2>3
  <1>6. ASSUME NEW n \in FileNames, WriteRefused(n)
        PROVE  GoesOn /\ Tree!Next
    BY <1>2, <1>6, WriteRefusedGoesOn DEF Tree!Next
  <1>7. ASSUME NEW n \in FileNames, Cat(n)
        PROVE  GoesOn /\ Tree!Next
    BY <1>2, <1>7, CatGoesOn DEF Tree!Next
  <1>8. ASSUME NEW n \in FileNames, NEW d \in Contents, Len(d) < CLUSTER_SIZE, Write(n, d)
        PROVE  GoesOn /\ Tree!Next
    BY <1>2, <1>8, WriteGoesOn DEF Tree!Next
  <1>9. ASSUME NEW n \in DirNames, Len(path) = 1 \/ n \in NamesIn(CurrentDir), Cd(n) \/ Ls(Here(n))
        PROVE  GoesOn /\ Tree!Next
    <2>1. Here(n) \in DOMAIN T \/ Len(path) = 1
      <3>1. CASE n \in NamesIn(CurrentDir)
        <4>1. /\ Shape(T) /\ path \in DOMAIN T /\ Last(path) \in DirNames /\ n \in Names
              /\ CurrentDir = ent[path]
          BY <1>2, PathIs, LookedIs DEF CurrentDir, Names
        <4>2. n \in {Last(r) : r \in Below(T, path)}
          BY <1>2, <3>1, <4>1, NamesInIs
        <4> QED
          BY <4>1, <4>2, NameThere DEF Here
      <3> QED
        BY <1>9, <3>1
    <2>2. CASE Cd(n)
      BY <1>2, <2>1, <2>2, CdGoesOn DEF Tree!Next
    <2>3. CASE Ls(Here(n))
      BY <1>2, <2>1, <2>3, LsInGoesOn DEF Tree!Next
    <2> QED
      BY <1>9, <2>2, <2>3
  <1> QED
    BY <1>3, <1>4, <1>5, <1>6, <1>7, <1>8, <1>9 DEF CarefulCommand

LEMMA CarefulStep ==
  ASSUME CarefulInv, [Machine \/ CarefulCommand]_vars
  PROVE  /\ CarefulInv' /\ [Tree!Next]_(Tree!vars)
         /\ mode = "shell" /\ mode' = "shell" => Lost' = Lost
  <1>1. CASE CarefulCommand
    <2>1. (GoesOn \/ (IsState(Now', Units) /\ mode' = "full")) /\ Tree!Next
      BY <1>1, CommandStep
    <2>2. CASE GoesOn
      <3>1. mode' = "shell" /\ Lost' = Lost /\ \E T, ent, place : Running(Now', path', T, ent, place)
        BY <2>2 DEF GoesOn
      <3>2. IsState(Now', Units)
        BY <3>1 DEF Running
      <3> QED
        BY <2>1, <3>1, <3>2 DEF CarefulInv
    <2>3. CASE IsState(Now', Units) /\ mode' = "full"
      BY <2>1, <2>3 DEF CarefulInv
    <2> QED
      BY <2>1, <2>2, <2>3
  <1>2. CASE Boot
    <2>1. IsState(Now, Units) /\ mode = "off" /\ path = <<>> /\ out = Done
      BY <1>2 DEF CarefulInv, Boot
    <2>2. CASE mode' = "shell" /\ Tree!Boot /\ \E T, ent, place : Running(Now', path', T, ent, place)
      <3>1. IsState(Now', Units)
        BY <2>2 DEF Running
      <3> QED
        BY <2>1, <2>2, <3>1 DEF CarefulInv, Tree!Next
    <2>3. CASE IsState(Now', Units) /\ mode' = "full"
      BY <2>1, <2>3, TreeStops DEF CarefulInv, Tree!Next
    <2> QED
      BY <1>2, <2>1, <2>2, <2>3, BootStep
  <1>3. CASE SwitchOff
    <2>1. IsState(Now', Units) /\ mode' = "off" /\ path' = <<>> /\ out' = Done
      BY <1>3, OffStep DEF CarefulInv
    <2> QED
      BY <2>1, TreeStops DEF CarefulInv, Tree!Next
  <1>4. CASE UNCHANGED vars
    <2>1. Now' = Now /\ mode' = mode /\ path' = path /\ out' = out /\ fat' = fat
      BY <1>4 DEF vars, fsVars, disk, rootBuffer, Now
    <2>2. OnDisk' = OnDisk /\ Lost' = Lost
      BY <2>1, OnDiskNow, ReachedNow DEF Lost
    <2>3. CarefulInv'
      BY <2>1 DEF CarefulInv
    <2>4. UNCHANGED Tree!vars
      BY <2>1, <2>2 DEF Tree!vars
    <2> QED
      BY <2>2, <2>3, <2>4
  <1> QED
    BY <1>1, <1>2, <1>3, <1>4 DEF Machine

LEMMA CarefulAlways == CarefulSpec => []CarefulInv
  <1>1. Init => CarefulInv
    BY CarefulInit
  <1>2. CarefulInv /\ [Machine \/ CarefulCommand]_vars => CarefulInv'
    BY CarefulStep
  <1> QED
    BY <1>1, <1>2, PTL DEF CarefulSpec

(* What a careful user does on the file system is what a tree of files     *)
(* does: every command, with its lookups, its copies of directories and    *)
(* its writes to sectors, changes the one name it is given, and cat and ls *)
(* show what was written and created (Kernel/fs/fs.c and the commands of   *)
(* Kernel/kernel.c).                                                       *)
THEOREM ShellIsFileTree == CarefulSpec => IsFileTree
  <1>1. CarefulSpec => []CarefulInv
    BY CarefulAlways
  <1>2. Init => Tree!Init
    BY CarefulInit
  <1>3. CarefulInv /\ [Machine \/ CarefulCommand]_vars => [Tree!Next]_(Tree!vars)
    BY CarefulStep
  <1> QED
    BY <1>1, <1>2, <1>3, PTL DEF CarefulSpec, IsFileTree, Tree!Spec

(* No command of a careful user makes a cluster that no path leads to:     *)
(* what create_file marks in the FAT is entered in the directory before    *)
(* the prompt comes back, and writing a directory drops no entry.          *)
THEOREM CarefulNoLeak == CarefulSpec => NoLeak
  <1>1. CarefulSpec => []CarefulInv
    BY CarefulAlways
  <1>2. CarefulInv /\ [Machine \/ CarefulCommand]_vars => [mode = "shell" /\ mode' = "shell" => Lost' = Lost]_vars
    BY CarefulStep
  <1> QED
    BY <1>1, <1>2, PTL DEF CarefulSpec, NoLeak
=============================================================================
