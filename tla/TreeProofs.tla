----------------------------- MODULE TreeProofs -----------------------------
(***************************************************************************)
(* What the functions of fs.c leave of a tree of files.  A state is tidy   *)
(* when every path of a tree has one entry, whose cluster is its own, and  *)
(* the sectors of a directory list the entries of the paths below it.  A   *)
(* lookup in a tidy state finds the entry of its path, and a call takes a  *)
(* tidy state to a tidy one.                                               *)
(***************************************************************************)
EXTENDS FileSystem, WellFoundedInduction, TLAPS

(***************************************************************************)
(* Induction over the naturals, and functions defined by it                *)
(***************************************************************************)
Less == {pair \in Nat \X Nat : pair[1] < pair[2]}

LEMMA LessWellFounded == IsWellFoundedOn(Less, Nat)
  BY NatLessThanWellFounded DEF OpToRel, Less

LEMMA LeastNatural ==
  ASSUME NEW T, T \subseteq Nat, T # {} PROVE \E x \in T : \A y \in T : x <= y
  <1>1. PICK x \in T : \A y \in T : <<y, x>> \notin Less
    BY LessWellFounded, WFMin
  <1>2. ASSUME NEW y \in T PROVE x <= y
    <2>1. x \in Nat /\ y \in Nat /\ <<y, x>> \notin Less
      BY <1>1
    <2>2. ~(y < x)
      BY <2>1 DEF Less
    <2> QED
      BY <2>1, <2>2
  <1> QED
    BY <1>2

LEMMA InductionOnNat ==
  ASSUME NEW S, S \subseteq Nat, 0 \in S, \A n \in S : n + 1 \in S PROVE S = Nat
  <1> SUFFICES ASSUME Nat \ S # {} PROVE FALSE
    OBVIOUS
  <1>1. PICK x \in Nat \ S : \A y \in Nat \ S : x <= y
    BY LeastNatural
  <1>2. x # 0 /\ x - 1 \in Nat
    BY <1>1
  <1>3. x - 1 \in S
    BY <1>1, <1>2
  <1>4. (x - 1) + 1 \in S
    BY <1>3
  <1> QED
    BY <1>1, <1>4

LEMMA SmallestIn == ASSUME NEW T, T \subseteq Nat, T # {} PROVE Smallest(T) \in T
  BY LeastNatural DEF Smallest

LEMMA Constants ==
  /\ CLUSTER_SIZE \in Nat \ {0} /\ ROOT_ENTRIES \in Nat /\ Clusters \subseteq Nat
  /\ EOC # 0 /\ ROOT \in Names
  BY FileSystemAssumption DEF Names

(* A longer buffer of whole sectors. *)
LEMMA RoundedUpSize ==
  ASSUME NEW n \in Nat PROVE RoundedUp(n) \in Nat /\ n <= RoundedUp(n)
  <1> DEFINE a == n + CLUSTER_SIZE - 1
  <1> DEFINE q == a \div CLUSTER_SIZE
  <1> DEFINE r == a % CLUSTER_SIZE
  <1>1. CLUSTER_SIZE \in Nat \ {0} /\ a \in Nat
    BY Constants
  <1>2. q \in Nat
    BY <1>1
  <1>3. r \in 0..CLUSTER_SIZE - 1
    BY <1>1
  <1>4. r = a - CLUSTER_SIZE * q
    BY <1>1
  <1>5. RoundedUp(n) = q * CLUSTER_SIZE
    BY DEF RoundedUp
  <1> HIDE DEF q, r
  <1>6. CLUSTER_SIZE * q = q * CLUSTER_SIZE /\ q * CLUSTER_SIZE \in Nat
    BY <1>1, <1>2
  <1>7. q * CLUSTER_SIZE = a - r
    BY <1>1, <1>3, <1>4, <1>6
  <1> QED
    BY <1>1, <1>3, <1>5, <1>6, <1>7

(* The lookup of a path is defined for every path, whatever its length. *)
Start(s) == [at |-> 0, holder |-> s.root, buffer |-> s.root, inRoot |-> TRUE, end |-> "open"]

IsLookup(g, s, p, n) ==
  g = [i \in 0..n |-> IF i = 0 THEN Start(s) ELSE NavigateStep(s, g[i - 1], p, i)]

LEMMA LookupExists ==
  ASSUME NEW s, NEW p PROVE \A n \in Nat : \E g : IsLookup(g, s, p, n)
  <1> DEFINE S == {n \in Nat : \E g : IsLookup(g, s, p, n)}
  <1>1. 0 \in S
    <2> DEFINE g == [i \in 0..0 |-> Start(s)]
    <2>1. IsLookup(g, s, p, 0)
      BY DEF IsLookup
    <2> QED
      BY <2>1
  <1>2. ASSUME NEW n \in S PROVE n + 1 \in S
    <2>1. n \in Nat
      OBVIOUS
    <2>2. PICK g : IsLookup(g, s, p, n)
      OBVIOUS
    <2> DEFINE h == [i \in 0..n + 1 |-> IF i = n + 1 THEN NavigateStep(s, g[n], p, n + 1) ELSE g[i]]
    <2>3. ASSUME NEW i \in 0..n + 1
          PROVE  h[i] = IF i = 0 THEN Start(s) ELSE NavigateStep(s, h[i - 1], p, i)
      <3>1. CASE i = n + 1
        <4>1. n \in 0..n + 1 /\ n # n + 1 /\ i - 1 = n /\ i # 0
          BY <2>1, <3>1
        <4>2. h[n] = g[n]
          BY <4>1
        <4> QED
          BY <3>1, <4>1, <4>2
      <3>2. CASE i \in 0..n
        <4>1. i # n + 1 /\ (i # 0 => i - 1 \in 0..n + 1 /\ i - 1 # n + 1)
          BY <2>1, <3>2
        <4>2. h[i] = g[i] /\ (i # 0 => h[i - 1] = g[i - 1])
          BY <4>1
        <4>3. g[i] = IF i = 0 THEN Start(s) ELSE NavigateStep(s, g[i - 1], p, i)
          BY <2>2, <3>2 DEF IsLookup
        <4> HIDE DEF h
        <4> QED
          BY <4>2, <4>3
      <3> QED
        BY <2>1, <2>3, <3>1, <3>2
    <2>4. h = [i \in 0..n + 1 |-> h[i]]
      OBVIOUS
    <2> HIDE DEF h
    <2>5. IsLookup(h, s, p, n + 1)
      BY <2>3, <2>4 DEF IsLookup
    <2> QED
      BY <2>1, <2>5
  <1>3. S \subseteq Nat
    OBVIOUS
  <1> HIDE DEF S
  <1>4. S = Nat
    BY <1>1, <1>2, <1>3, InductionOnNat
  <1> QED
    BY <1>4 DEF S

(***************************************************************************)
(* Sectors, texts and lookups of one name                                  *)
(***************************************************************************)
LEMMA UnitsApart ==
  /\ \A u \in Inode : IsInode(u) /\ u # NoFile /\ u.cluster \in Clusters /\ u.size \in Nat
  /\ ~IsInode(Zero) /\ \A b \in Bytes : ~IsInode(b) /\ b # Zero
  BY UnitsAssumption, FileSystemAssumption DEF IsInode, Inode

LEMMA FunctionIsSeq ==
  ASSUME NEW S, NEW n \in Nat, NEW f \in [1..n -> S] PROVE f \in Seq(S) /\ Len(f) = n
  OBVIOUS

LEMMA RoundedUpIs ==
  /\ RoundedUp(0) = 0
  /\ \A n \in 1..CLUSTER_SIZE : RoundedUp(n) = CLUSTER_SIZE
  <1>1. PICK m : m = CLUSTER_SIZE
    OBVIOUS
  <1>2. m \in Nat \ {0}
    BY <1>1, Constants
  <1>3. RoundedUp(0) = ((m - 1) \div m) * m
    BY <1>1, <1>2 DEF RoundedUp
  <1>4. (m - 1) \div m = 0
    BY <1>2
  <1>5. 0 * m = 0
    BY <1>2
  <1>6. ASSUME NEW n \in 1..m PROVE RoundedUp(n) = m
    <2>1. (n + m - 1) \div m = 1
      <3>1. PICK q, r : q = (n + m - 1) \div m /\ r = (n + m - 1) % m
        OBVIOUS
      <3>2. q \in Int /\ r \in 0..m - 1 /\ n + m - 1 = m * q + r
        BY <1>2, <3>1
      <3>3. ASSUME q >= 2 PROVE FALSE
        <4>1. m * q >= m * 2
          BY <1>2, <3>2, <3>3
        <4> QED
          BY <1>2, <3>2, <4>1
      <3>4. ASSUME q <= 0 PROVE FALSE
        <4>1. m * q <= 0
          BY <1>2, <3>2, <3>4
        <4> QED
          BY <1>2, <3>2, <4>1
      <3> QED
        BY <3>1, <3>2, <3>3, <3>4
    <2>2. RoundedUp(n) = ((n + m - 1) \div m) * m
      BY <1>1 DEF RoundedUp
    <2>3. 1 * m = m
      BY <1>2
    <2> QED
      BY <2>1, <2>2, <2>3
  <1> QED
    BY <1>1, <1>3, <1>4, <1>5, <1>6

(* The place i of b has the entry u, and no other has its name. *)
Only(b, i, u) ==
  /\ Len(b) \in Nat /\ i \in 1..Len(b) /\ b[i] = u /\ IsInode(u)
  /\ \A j \in 1..Len(b) : IsInode(b[j]) /\ b[j].name = u.name => j = i

LEMMA SmallestOf == ASSUME NEW i \in Nat PROVE Smallest({i}) = i
  BY SmallestIn

LEMMA FindOnly ==
  ASSUME NEW b, NEW i, NEW u, Only(b, i, u), NEW size \in Nat, i <= size
  PROVE  Find(b, size, u.name) = i /\ Entry(b, i) = u
  <1> DEFINE hits == {j \in 1..Len(b) : j <= size /\ IsInode(b[j]) /\ b[j].name = u.name}
  <1>1. i \in Nat \ {0}
    BY DEF Only
  <1>2. hits = {i}
    BY DEF Only
  <1> HIDE DEF hits
  <1>3. Find(b, size, u.name) = Smallest(hits)
    BY <1>2 DEF Find, hits
  <1> QED
    BY <1>1, <1>2, <1>3, SmallestOf DEF Entry, Only

LEMMA FindNone ==
  ASSUME NEW b, NEW size, NEW n,
         \A j \in 1..Len(b) : ~(j <= size /\ IsInode(b[j]) /\ b[j].name = n)
  PROVE  Find(b, size, n) = 0
  BY DEF Find

(* A buffer of entries and zeros. *)
NoTextIn(b) == \A i \in 1..Len(b) : b[i] \notin Bytes \cup {Junk}

LEMMA ReadsNone == ASSUME NEW b, NoTextIn(b), NEW size, NEW n PROVE ~ReadsText(b, size, n)
  BY DEF ReadsText, NoTextIn

(***************************************************************************)
(* navigate_dir along a path all of whose directories are there            *)
(***************************************************************************)

(* e[i] is the entry of the i-th name of p, at the place at[i]. *)
Trail(s, e, at, p, m) ==
  /\ s.entries = 1 /\ s.root[1] = e[1] /\ Len(s.root) \in Nat \ {0} /\ at[1] = 1
  /\ \A i \in 1..m : e[i] \in Inode /\ e[i].name = p[i] /\ p[i] \notin FileNames
  /\ \A i \in 2..m : /\ at[i] <= e[i - 1].size /\ Only(ReadFile(s, e[i - 1]), at[i], e[i])
                     /\ NoTextIn(ReadFile(s, e[i - 1]))

(* The buffer with the i-th entry, and where the lookup is with it. *)
HolderOf(s, e, i) == IF i = 1 THEN s.root ELSE ReadFile(s, e[i - 1])

LookupAt(s, e, at, p, i) ==
  IF i = 0 THEN Start(s)
  ELSE [at |-> at[i], holder |-> HolderOf(s, e, i),
        buffer |-> IF i = Len(p) THEN HolderOf(s, e, i) ELSE ReadFile(s, e[i]),
        inRoot |-> (i = 1), end |-> "open"]

LEMMA RootFound ==
  ASSUME NEW s, NEW e, NEW at, NEW p, NEW m \in Nat \ {0}, Trail(s, e, at, p, m)
  PROVE  Find(s.root, 1, p[1]) = 1 /\ Entry(s.root, 1) = e[1] /\ ~ReadsText(s.root, 1, p[1])
  <1> DEFINE hits == {j \in 1..Len(s.root) : j <= 1 /\ IsInode(s.root[j]) /\ s.root[j].name = p[1]}
  <1>1. s.root[1] \in Inode /\ s.root[1].name = p[1] /\ s.root[1] = e[1] /\ Len(s.root) \in Nat \ {0}
    BY DEF Trail
  <1>2. hits = {1}
    BY <1>1, UnitsApart
  <1> HIDE DEF hits
  <1>3. Find(s.root, 1, p[1]) = Smallest(hits)
    BY <1>2 DEF Find, hits
  <1>4. Find(s.root, 1, p[1]) = 1
    BY <1>2, <1>3, SmallestOf
  <1>5. ~ReadsText(s.root, 1, p[1])
    BY <1>4 DEF ReadsText
  <1> QED
    BY <1>1, <1>4, <1>5 DEF Entry

LEMMA StepWalks ==
  ASSUME NEW s, NEW e, NEW at, NEW p, Len(p) \in Nat, NEW m \in Nat, Trail(s, e, at, p, m),
         NEW i \in 1..m, i <= Len(p)
  PROVE  NavigateStep(s, LookupAt(s, e, at, p, i - 1), p, i) = LookupAt(s, e, at, p, i)
  <1> PICK nav : nav = LookupAt(s, e, at, p, i - 1)
    OBVIOUS
  <1>0. m \in Nat \ {0} /\ i \in Nat /\ 1 \in 1..m
    OBVIOUS
  <1> DEFINE size == IF nav.at # 0 /\ i > 2 THEN Len(nav.buffer) + 1 ELSE SizeOf(s, Current(nav))
  <1> DEFINE hit == Find(nav.buffer, size, p[i])
  <1>1. /\ nav.end = "open" /\ nav.buffer = HolderOf(s, e, i)
        /\ DOMAIN nav = {"at", "holder", "buffer", "inRoot", "end"}
        /\ nav = [at |-> nav.at, holder |-> nav.holder, buffer |-> nav.buffer, inRoot |-> nav.inRoot,
                  end |-> nav.end]
    <2>1. CASE i = 1
      BY <2>1 DEF LookupAt, Start, HolderOf
    <2>2. CASE i # 1
      BY <2>2 DEF LookupAt, HolderOf
    <2> QED
      BY <2>1, <2>2
  <1> DEFINE text == ReadsText(nav.buffer, size, p[i])
  <1>2. /\ hit = at[i] /\ Entry(nav.buffer, at[i]) = e[i] /\ at[i] # 0 /\ p[i] \notin FileNames
        /\ ~text
    <2>1. CASE i = 1
      <3>1. Current(nav) = NoFile /\ nav.at = 0
        BY <2>1 DEF LookupAt, Start, Current, Entry
      <3>2. size = 1
        BY <3>1 DEF SizeOf, Trail
      <3>3. nav.buffer = s.root /\ at[1] = 1
        BY <1>1, <2>1 DEF HolderOf, Trail
      <3>4. /\ Find(s.root, 1, p[1]) = 1 /\ Entry(s.root, 1) = e[1] /\ p[1] \notin FileNames
            /\ ~ReadsText(s.root, 1, p[1])
        BY <1>0, <2>1, RootFound DEF Trail
      <3> HIDE DEF size
      <3> QED
        BY <2>1, <3>2, <3>3, <3>4
    <2>2. CASE i # 1
      <3>1. i \in 2..m
        BY <2>2
      <3>2. /\ Only(nav.buffer, at[i], e[i]) /\ at[i] <= e[i - 1].size /\ e[i].name = p[i]
            /\ NoTextIn(nav.buffer)
        BY <1>1, <2>2, <3>1 DEF Trail, HolderOf
      <3>3. size \in Nat /\ at[i] <= size
        <4>1. CASE i = 2
          <5>1. Current(nav) = Entry(s.root, 1)
            BY <4>1 DEF LookupAt, Current, HolderOf, Trail
          <5>2. Current(nav) = e[1] /\ e[1] \in Inode
            BY <1>0, <5>1, <4>1, RootFound DEF Trail
          <5>3. SizeOf(s, Current(nav)) = e[1].size /\ e[1].size \in Nat
            BY <5>2, UnitsApart DEF SizeOf
          <5> QED
            BY <3>2, <4>1, <5>3
        <4>2. CASE i # 2
          <5>1. nav.at = at[i - 1] /\ i - 1 \in 2..m
            BY <3>1, <4>2 DEF LookupAt
          <5>2. nav.at # 0
            <6>1. PICK j \in 2..m : j = i - 1
              BY <5>1
            <6>2. PICK b : Only(b, at[j], e[j])
              BY <6>1 DEF Trail
            <6>3. at[j] # 0
              BY <6>2 DEF Only
            <6> QED
              BY <5>1, <6>1, <6>3
          <5>3. size = Len(nav.buffer) + 1
            BY <3>1, <4>2, <5>2
          <5> QED
            BY <3>2, <5>3 DEF Only
        <4> QED
          BY <4>1, <4>2
      <3> HIDE DEF size
      <3>4. Find(nav.buffer, size, e[i].name) = at[i] /\ Entry(nav.buffer, at[i]) = e[i]
        BY <3>2, <3>3, FindOnly
      <3>5. ~text
        BY <3>2, ReadsNone
      <3> HIDE DEF text
      <3> QED
        BY <3>1, <3>2, <3>4, <3>5 DEF Trail, Only
    <2> QED
      BY <2>1, <2>2
  <1> HIDE DEF size
  <1>3. NavigateStep(s, nav, p, i) =
          IF nav.end # "open" THEN nav
          ELSE IF p[i] \in FileNames THEN [nav EXCEPT !.end = "file"]
          ELSE IF text THEN [nav EXCEPT !.end = "forged"]
          ELSE IF hit = 0 /\ size > Len(nav.buffer) THEN [nav EXCEPT !.end = "overrun"]
          ELSE [nav EXCEPT !.at = hit, !.holder = nav.buffer, !.inRoot = (i = 1),
                           !.buffer = IF i = Len(p) THEN nav.buffer
                                      ELSE ReadFile(s, Entry(nav.buffer, hit))]
    BY DEF NavigateStep, size, hit, text
  <1> HIDE DEF hit, text
  <1>4. NavigateStep(s, nav, p, i) =
          [nav EXCEPT !.at = at[i], !.holder = HolderOf(s, e, i), !.inRoot = (i = 1),
                      !.buffer = IF i = Len(p) THEN HolderOf(s, e, i) ELSE ReadFile(s, e[i])]
    BY <1>1, <1>2, <1>3
  <1>5. LookupAt(s, e, at, p, i) =
          [at |-> at[i], holder |-> HolderOf(s, e, i),
           buffer |-> IF i = Len(p) THEN HolderOf(s, e, i) ELSE ReadFile(s, e[i]),
           inRoot |-> (i = 1), end |-> "open"]
    BY DEF LookupAt
  <1> QED
    BY <1>1, <1>4, <1>5

LEMMA Walk ==
  ASSUME NEW s, NEW e, NEW at, NEW p, Len(p) \in Nat, NEW m \in Nat, Trail(s, e, at, p, m), m <= Len(p),
         NEW g, IsLookup(g, s, p, Len(p))
  PROVE  g[m] = LookupAt(s, e, at, p, m)
  <1> DEFINE S == {i \in Nat : i <= m => g[i] = LookupAt(s, e, at, p, i)}
  <1>1. 0 \in S
    BY DEF IsLookup, LookupAt
  <1>2. ASSUME NEW i \in S PROVE i + 1 \in S
    <2> SUFFICES ASSUME i + 1 <= m PROVE g[i + 1] = LookupAt(s, e, at, p, i + 1)
      OBVIOUS
    <2>1. i + 1 \in 0..Len(p) /\ i + 1 # 0 /\ (i + 1) - 1 = i /\ i + 1 \in 1..m /\ i + 1 <= Len(p)
      OBVIOUS
    <2>2. g[i + 1] = NavigateStep(s, g[i], p, i + 1)
      BY <2>1 DEF IsLookup
    <2>3. g[i] = LookupAt(s, e, at, p, i)
      BY <2>1
    <2>4. PICK j : j = i + 1
      OBVIOUS
    <2>5. NavigateStep(s, LookupAt(s, e, at, p, j - 1), p, j) = LookupAt(s, e, at, p, j)
      BY <2>1, <2>4, StepWalks
    <2> QED
      BY <2>1, <2>2, <2>3, <2>4, <2>5
  <1>3. S \subseteq Nat
    OBVIOUS
  <1> HIDE DEF S
  <1>4. m \in S
    BY <1>1, <1>2, <1>3, InductionOnNat
  <1> QED
    BY <1>4 DEF S

(* navigate_dir of a directory, of a file in it, and of a name that is not *)
(* in it.                                                                  *)
LEMMA NavigateIs ==
  ASSUME NEW s, NEW p, Len(p) \in Nat
  PROVE  \E g : IsLookup(g, s, p, Len(p)) /\ Navigate(s, p) = g[Len(p)]
  <1> DEFINE after == CHOOSE g : IsLookup(g, s, p, Len(p))
  <1>1. IsLookup(after, s, p, Len(p))
    BY LookupExists
  <1>2. Navigate(s, p) = after[Len(p)]
    BY DEF Navigate, IsLookup, Start
  <1> QED
    BY <1>1, <1>2

LEMMA WalkToDir ==
  ASSUME NEW s, NEW e, NEW at, NEW p, Len(p) \in Nat, Trail(s, e, at, p, Len(p))
  PROVE  Navigate(s, p) = LookupAt(s, e, at, p, Len(p))
  <1>1. PICK g : IsLookup(g, s, p, Len(p)) /\ Navigate(s, p) = g[Len(p)]
    BY NavigateIs
  <1> QED
    BY <1>1, Walk

LEMMA WalkPast ==
  ASSUME NEW s, NEW e, NEW at, NEW p, NEW m \in Nat, Len(p) = m + 1, Trail(s, e, at, p, m)
  PROVE  Navigate(s, p) = NavigateStep(s, LookupAt(s, e, at, p, m), p, m + 1)
  <1>1. PICK g : IsLookup(g, s, p, Len(p)) /\ Navigate(s, p) = g[Len(p)]
    BY NavigateIs
  <1>2. m + 1 \in 0..Len(p) /\ m + 1 # 0 /\ (m + 1) - 1 = m
    OBVIOUS
  <1>3. g[m + 1] = NavigateStep(s, g[m], p, m + 1)
    BY <1>1, <1>2 DEF IsLookup
  <1> QED
    BY <1>1, <1>3, Walk
(***************************************************************************)
(* Paths                                                                   *)
(***************************************************************************)
Prefix(q, i) == SubSeq(q, 1, i)

LEMMA PrefixIs ==
  ASSUME NEW S, NEW q \in Seq(S), NEW i \in 0..Len(q)
  PROVE  /\ Prefix(q, i) \in Seq(S) /\ Len(Prefix(q, i)) = i
         /\ \A j \in 1..i : Prefix(q, i)[j] = q[j]
         /\ i > 0 => Last(Prefix(q, i)) = q[i] /\ Front(Prefix(q, i)) = Prefix(q, i - 1)
         /\ Prefix(q, Len(q)) = q
  <1>0. PICK n : n = Len(q)
    OBVIOUS
  <1>1. n \in Nat /\ i \in Nat /\ i <= n /\ q \in [1..n -> S]
    BY <1>0
  <1>2. ASSUME NEW k \in 0..n
        PROVE Prefix(q, k) = [j \in 1..k |-> q[j]] /\ Prefix(q, k) \in Seq(S) /\ Len(Prefix(q, k)) = k
    <2>1. Prefix(q, k) = [j \in 1..(k - 1 + 1) |-> q[j + 1 - 1]]
      BY <1>0, <1>1 DEF Prefix
    <2>2. Prefix(q, k) = [j \in 1..k |-> q[j]]
      BY <1>1, <2>1
    <2>3. Prefix(q, k) \in [1..k -> S]
      BY <1>1, <2>2
    <2> QED
      BY <2>2, <2>3, FunctionIsSeq
  <1>3. ASSUME i > 0 PROVE Last(Prefix(q, i)) = q[i] /\ Front(Prefix(q, i)) = Prefix(q, i - 1)
    <2>1. PICK f : f = Prefix(q, i)
      OBVIOUS
    <2>2. f \in Seq(S) /\ Len(f) = i /\ f = [j \in 1..i |-> q[j]]
      BY <1>0, <1>2, <2>1
    <2>3. Last(f) = q[i]
      BY <1>1, <1>3, <2>2 DEF Last
    <2>4. Front(f) = [j \in 1..i - 1 |-> f[j]]
      BY <1>1, <1>3, <2>2 DEF Front
    <2>5. \A j \in 1..i - 1 : f[j] = q[j]
      BY <1>1, <2>2
    <2>6. Prefix(q, i - 1) = [j \in 1..i - 1 |-> q[j]]
      <3>1. i - 1 \in 0..n
        BY <1>1, <1>3
      <3> QED
        BY <1>2, <3>1
    <2>7. Front(f) = [j \in 1..i - 1 |-> q[j]]
      BY <2>4, <2>5
    <2> QED
      BY <2>1, <2>3, <2>6, <2>7
  <1>4. Prefix(q, n) = q
    BY <1>1, <1>2
  <1> QED
    BY <1>0, <1>2, <1>3, <1>4

LEMMA AppendIs ==
  ASSUME NEW S, NEW q \in Seq(S), NEW n \in S
  PROVE  /\ Append(q, n) \in Seq(S) /\ Len(Append(q, n)) = Len(q) + 1
         /\ Front(Append(q, n)) = q /\ Last(Append(q, n)) = n
         /\ \A i \in 1..Len(q) : Append(q, n)[i] = q[i]
  <1>0. PICK m : m = Len(q)
    OBVIOUS
  <1>1. m \in Nat /\ q \in [1..m -> S] /\ q = [i \in 1..m |-> q[i]]
    BY <1>0
  <1>2. PICK p : p = Append(q, n)
    OBVIOUS
  <1>3. p \in Seq(S) /\ Len(p) = m + 1 /\ p[m + 1] = n /\ \A i \in 1..m : p[i] = q[i]
    BY <1>0, <1>1, <1>2
  <1>4. Front(p) = [i \in 1..m |-> p[i]]
    BY <1>1, <1>3 DEF Front
  <1>5. Front(p) = q
    BY <1>1, <1>3, <1>4
  <1> QED
    BY <1>0, <1>1, <1>2, <1>3, <1>5 DEF Last

LEMMA FrontIs ==
  ASSUME NEW S, NEW p \in Seq(S), Len(p) > 0
  PROVE  /\ Front(p) \in Seq(S) /\ Len(Front(p)) = Len(p) - 1
         /\ Last(p) \in S /\ Append(Front(p), Last(p)) = p
         /\ Front(p) = Prefix(p, Len(p) - 1)
  <1>1. PICK m \in Nat : Len(p) = m + 1
    <2>1. Len(p) \in Nat /\ Len(p) - 1 \in Nat /\ Len(p) = (Len(p) - 1) + 1
      OBVIOUS
    <2> QED
      BY <2>1
  <1>2. Front(p) = [i \in 1..m |-> p[i]] /\ p[m + 1] \in S
    BY <1>1 DEF Front
  <1>3. \A i \in 1..m : p[i] \in S
    BY <1>1
  <1>4. Front(p) \in Seq(S) /\ Len(Front(p)) = m
    BY <1>2, <1>3
  <1>5. PICK q : q = Append(Front(p), Last(p))
    OBVIOUS
  <1>6. q \in Seq(S) /\ Len(q) = m + 1 /\ \A i \in 1..m + 1 : q[i] = p[i]
    BY <1>1, <1>2, <1>4, <1>5 DEF Last
  <1>7. q = p
    BY <1>1, <1>6
  <1> QED
    BY <1>1, <1>2, <1>4, <1>5, <1>7 DEF Last, Front, Prefix

(***************************************************************************)
(* Tidy states.  T is the tree, path -> text; ent[p] the entry of a path,  *)
(* place[p] its place in the sector of its directory.                      *)
(***************************************************************************)
IsState(s, U) ==
  /\ Inode \cup Bytes \cup {Zero, Junk} \subseteq U
  /\ s \in [fat : [Clusters -> {0, EOC}], data : [Clusters -> [1..CLUSTER_SIZE -> U]],
            root : [1..ROOT_ENTRIES -> U], diskRoot : [1..ROOT_ENTRIES -> U],
            entries : Nat, read : BOOLEAN, mode : {s.mode}, writes : {s.writes}]

Below(T, q) == {r \in DOMAIN T : Len(r) > 1 /\ Front(r) = q}

Shape(T) ==
  /\ <<ROOT>> \in DOMAIN T
  /\ \A p \in DOMAIN T :
       /\ p \in Seq(Names) /\ Len(p) \in 1..MaxDepth + 1 /\ p[1] = ROOT
       /\ Len(p) > 1 => Front(p) \in DOMAIN T /\ Last(Front(p)) \in DirNames
       /\ T[p] \in Seq(Bytes) /\ Len(T[p]) < CLUSTER_SIZE
       /\ Last(p) \in DirNames => T[p] = <<>>

Named(T, ent) ==
  /\ \A p \in DOMAIN T : ent[p] \in Inode /\ ent[p].name = Last(p)
  /\ \A p, q \in DOMAIN T : ent[p].cluster = ent[q].cluster => p = q

ListsBelow(sec, k, T, ent, place, q) ==
  /\ k \in 0..CLUSTER_SIZE
  /\ \A r \in Below(T, q) : place[r] \in 1..k /\ sec[place[r]] = ent[r]
  /\ \A i \in 1..k : \E r \in Below(T, q) : place[r] = i
  /\ k > 0 => \A i \in k + 1..CLUSTER_SIZE : sec[i] = Zero

HoldsText(sec, k, text) ==
  /\ k \in 0..Len(text) /\ (k = 0 => text = <<>>)
  /\ k > 0 => \A i \in 1..CLUSTER_SIZE : sec[i] = IF i <= Len(text) THEN text[i] ELSE Zero

InSectors(s, T, ent, place, p) ==
  /\ Last(p) \in DirNames => ListsBelow(s.data[ent[p].cluster], ent[p].size, T, ent, place, p)
  /\ Last(p) \in FileNames => HoldsText(s.data[ent[p].cluster], ent[p].size, T[p])

RootIs(s, u) == s.entries = 1 /\ u = IF s.read THEN s.root[1] ELSE s.diskRoot[1]

Listed(s, T, ent, place) ==
  /\ RootIs(s, ent[<<ROOT>>])
  /\ Shape(T) /\ Named(T, ent)
  /\ \A p \in DOMAIN T : InSectors(s, T, ent, place, p)

Used(s, T, ent) == \A p \in DOMAIN T : s.fat[ent[p].cluster] = EOC

Tidy(s, T, ent, place) == Listed(s, T, ent, place) /\ Used(s, T, ent)

(* As much of it as the lookup of q needs: the directories above q. *)
Ready(s, T, ent, place, q) ==
  /\ s.entries = 1 /\ s.root[1] = ent[<<ROOT>>]
  /\ \A i \in 1..Len(q) - 1 :
       ListsBelow(s.data[ent[Prefix(q, i)].cluster], ent[Prefix(q, i)].size, T, ent, place, Prefix(q, i))

LEMMA PathTyped ==
  ASSUME NEW T, Shape(T), NEW p \in DOMAIN T
  PROVE  /\ p \in Seq(Names) /\ Len(p) \in Nat \ {0} /\ Last(p) \in Names
         /\ Len(p) = 1 => p = <<ROOT>>
         /\ p = <<ROOT>> => Len(p) = 1
  <1>1. p \in Seq(Names) /\ Len(p) \in 1..MaxDepth + 1 /\ p[1] = ROOT
    BY DEF Shape
  <1>2. Len(p) \in Nat \ {0}
    BY <1>1
  <1>3. Last(p) \in Names
    BY <1>1, <1>2 DEF Last
  <1>4. Len(p) = 1 => p = <<ROOT>>
    BY <1>1
  <1> QED
    BY <1>1, <1>2, <1>3, <1>4

LEMMA PrefixesThere ==
  ASSUME NEW T, Shape(T), NEW q \in DOMAIN T, NEW i \in 1..Len(q)
  PROVE  Prefix(q, i) \in DOMAIN T /\ (i < Len(q) => Last(Prefix(q, i)) \in DirNames)
  <1>0. PICK n : n = Len(q)
    OBVIOUS
  <1>a. q \in Seq(Names) /\ n \in Nat \ {0} /\ i \in 1..n
    BY <1>0, PathTyped
  <1> DEFINE S == {k \in Nat : k < n => /\ Prefix(q, n - k) \in DOMAIN T
                                        /\ k > 0 => Last(Prefix(q, n - k)) \in DirNames}
  <1>1. 0 \in S
    BY <1>0, <1>a, PrefixIs
  <1>2. ASSUME NEW k \in S PROVE k + 1 \in S
    <2> SUFFICES ASSUME k + 1 < n
                 PROVE  Prefix(q, n - (k + 1)) \in DOMAIN T /\ Last(Prefix(q, n - (k + 1))) \in DirNames
      OBVIOUS
    <2>1. PICK j : j = n - k
      OBVIOUS
    <2>2. k \in Nat /\ j \in 2..n /\ j - 1 = n - (k + 1) /\ k < n
      BY <1>a, <2>1
    <2>3. Prefix(q, j) \in DOMAIN T
      BY <2>1, <2>2
    <2>4. Len(Prefix(q, j)) = j /\ Front(Prefix(q, j)) = Prefix(q, j - 1)
      BY <1>0, <1>a, <2>2, PrefixIs
    <2>5. Len(Prefix(q, j)) > 1
      BY <2>2, <2>4
    <2> QED
      BY <2>2, <2>3, <2>4, <2>5 DEF Shape
  <1>3. S \subseteq Nat
    OBVIOUS
  <1> HIDE DEF S
  <1>4. PICK k : k = n - i
    OBVIOUS
  <1>5. k \in Nat /\ k < n /\ n - k = i /\ (i < n => k > 0)
    BY <1>a, <1>4
  <1>6. k \in S
    BY <1>1, <1>2, <1>3, <1>5, InductionOnNat
  <1> QED
    BY <1>0, <1>5, <1>6 DEF S
(***************************************************************************)
(* What a lookup finds in a tidy state                                     *)
(***************************************************************************)
LEMMA ReadIs ==
  ASSUME NEW s, NEW U, IsState(s, U), NEW u \in Inode, u.size <= CLUSTER_SIZE
  PROVE  /\ u.size = 0 => ReadFile(s, u) = <<>>
         /\ u.size > 0 => ReadFile(s, u) = s.data[u.cluster]
         /\ s.data[u.cluster] \in [1..CLUSTER_SIZE -> U] /\ s.data[u.cluster] \in Seq(U)
         /\ Len(s.data[u.cluster]) = CLUSTER_SIZE
         /\ SizeOf(s, u) = u.size
  <1>1. u # NoFile /\ u.cluster \in Clusters /\ u.size \in 0..CLUSTER_SIZE
    BY UnitsApart, Constants
  <1>2. PICK sec : sec = s.data[u.cluster]
    OBVIOUS
  <1>3. sec \in [1..CLUSTER_SIZE -> U]
    BY <1>1, <1>2 DEF IsState
  <1>4. ReadFile(s, u) = [i \in 1..RoundedUp(u.size) |-> IF i <= CLUSTER_SIZE THEN sec[i] ELSE Zero]
    BY <1>1, <1>2 DEF ReadFile
  <1>5. CASE u.size = 0
    <2>1. ReadFile(s, u) = <<>>
      BY <1>4, <1>5, RoundedUpIs
    <2> QED
      BY <1>1, <1>2, <1>3, <1>5, <2>1, FunctionIsSeq, Constants DEF SizeOf
  <1>6. CASE u.size # 0
    <2>1. RoundedUp(u.size) = CLUSTER_SIZE
      BY <1>1, <1>6, RoundedUpIs, Constants
    <2>2. ReadFile(s, u) = [i \in 1..CLUSTER_SIZE |-> sec[i]]
      BY <1>4, <2>1, Constants
    <2>3. ReadFile(s, u) = sec
      BY <1>3, <2>2
    <2> QED
      BY <1>1, <1>2, <1>3, <1>6, <2>3, FunctionIsSeq, Constants DEF SizeOf
  <1> QED
    BY <1>5, <1>6

(* The name at a place of a listing is that of the path with that place. *)
LEMMA ListedOnly ==
  ASSUME NEW T, Shape(T), NEW ent, \A p \in DOMAIN T : ent[p] \in Inode /\ ent[p].name = Last(p),
         NEW sec, Len(sec) = CLUSTER_SIZE, NEW k, NEW place, NEW q, ListsBelow(sec, k, T, ent, place, q),
         NEW r \in Below(T, q)
  PROVE  k \in 1..CLUSTER_SIZE /\ place[r] \in 1..k /\ Only(sec, place[r], ent[r])
  <1>1. k \in 0..CLUSTER_SIZE /\ place[r] \in 1..k /\ sec[place[r]] = ent[r] /\ CLUSTER_SIZE \in Nat
    BY Constants DEF ListsBelow
  <1>2. k \in 1..CLUSTER_SIZE /\ place[r] \in 1..CLUSTER_SIZE
    BY <1>1
  <1>3. r \in DOMAIN T /\ Front(r) = q /\ r = Append(q, Last(r)) /\ ent[r] \in Inode /\ ent[r].name = Last(r)
    BY PathTyped, FrontIs DEF Below
  <1>4. ASSUME NEW j \in 1..CLUSTER_SIZE, IsInode(sec[j]), sec[j].name = ent[r].name
        PROVE  j = place[r]
    <2>1. j \in 1..k
      BY <1>2, <1>4, UnitsApart DEF ListsBelow
    <2>2. PICK t \in Below(T, q) : place[t] = j
      BY <2>1 DEF ListsBelow
    <2>3. sec[j] = ent[t]
      BY <2>2 DEF ListsBelow
    <2>4. t \in DOMAIN T /\ t = Append(q, Last(t)) /\ ent[t].name = Last(t)
      BY PathTyped, FrontIs DEF Below
    <2>5. t = r
      BY <1>3, <1>4, <2>3, <2>4
    <2> QED
      BY <2>2, <2>5
  <1>5. IsInode(ent[r])
    BY <1>3, UnitsApart
  <1> QED
    BY <1>1, <1>2, <1>4, <1>5 DEF Only

(* The sector of a directory holds nothing but entries and zeros. *)
LEMMA ListedEntries ==
  ASSUME NEW T, NEW ent, \A p \in DOMAIN T : ent[p] \in Inode,
         NEW sec, Len(sec) = CLUSTER_SIZE, NEW k, k > 0, NEW place, NEW q,
         ListsBelow(sec, k, T, ent, place, q)
  PROVE  NoTextIn(sec)
  <1>1. k \in Nat /\ CLUSTER_SIZE \in Nat
    BY Constants DEF ListsBelow
  <1>2. ASSUME NEW i \in 1..CLUSTER_SIZE PROVE sec[i] \notin Bytes \cup {Junk}
    <2>1. CASE i <= k
      <3>1. PICK r \in Below(T, q) : place[r] = i
        BY <1>1, <2>1 DEF ListsBelow
      <3>2. sec[i] = ent[r] /\ r \in DOMAIN T
        BY <3>1 DEF ListsBelow, Below
      <3> QED
        BY <3>2, UnitsAssumption
    <2>2. CASE i > k
      <3>1. sec[i] = Zero
        BY <1>1, <2>2 DEF ListsBelow
      <3> QED
        BY <3>1, FileSystemAssumption
    <2> QED
      BY <1>1, <2>1, <2>2
  <1> QED
    BY <1>2 DEF NoTextIn

EntriesTo(ent, q) == [i \in 1..Len(q) |-> ent[Prefix(q, i)]]
PlacesTo(place, q) == [i \in 1..Len(q) |-> IF i = 1 THEN 1 ELSE place[Prefix(q, i)]]

LEMMA StartsAtRoot ==
  ASSUME NEW T, Shape(T), NEW q \in DOMAIN T PROVE Prefix(q, 1) = <<ROOT>>
  <1>1. q \in Seq(Names) /\ 1 \in 0..Len(q) /\ 1 \in 1..Len(q)
    BY PathTyped
  <1>2. PICK x : x = Prefix(q, 1)
    OBVIOUS
  <1>3. x \in DOMAIN T
    BY <1>1, <1>2, PrefixesThere
  <1>4. Len(x) = 1
    BY <1>1, <1>2, PrefixIs
  <1>5. x = <<ROOT>>
    BY <1>3, <1>4, PathTyped
  <1> QED
    BY <1>2, <1>5

LEMMA TrailTo ==
  ASSUME NEW s, NEW U, IsState(s, U), NEW T, NEW ent, NEW place, Shape(T), Named(T, ent),
         NEW q \in DOMAIN T, Last(q) \in DirNames, Ready(s, T, ent, place, q)
  PROVE  Trail(s, EntriesTo(ent, q), PlacesTo(place, q), q, Len(q))
  <1>1. q \in Seq(Names) /\ Len(q) \in Nat \ {0}
    BY PathTyped
  <1>2. PICK e : e = EntriesTo(ent, q)
    OBVIOUS
  <1>3. PICK at : at = PlacesTo(place, q)
    OBVIOUS
  <1>4. \A i \in 1..Len(q) : e[i] = ent[Prefix(q, i)]
    BY <1>2 DEF EntriesTo
  <1>5. at[1] = 1 /\ \A i \in 2..Len(q) : at[i] = place[Prefix(q, i)]
    BY <1>1, <1>3 DEF PlacesTo
  <1>6. s.entries = 1 /\ s.root[1] = e[1] /\ Len(s.root) \in Nat \ {0}
    <2>1. Prefix(q, 1) = <<ROOT>>
      BY StartsAtRoot
    <2>2. s.root \in [1..ROOT_ENTRIES -> U] /\ ROOT_ENTRIES \in Nat \ {0}
      BY FileSystemAssumption DEF IsState
    <2>3. Len(s.root) = ROOT_ENTRIES
      BY <2>2, FunctionIsSeq
    <2> QED
      BY <1>1, <1>4, <2>1, <2>2, <2>3 DEF Ready
  <1>7. ASSUME NEW i \in 1..Len(q) PROVE e[i] \in Inode /\ e[i].name = q[i] /\ q[i] \notin FileNames
    <2>1. Prefix(q, i) \in DOMAIN T /\ i \in 0..Len(q) /\ i > 0
      BY <1>1, PrefixesThere
    <2>2. Last(Prefix(q, i)) = q[i]
      BY <1>1, <2>1, PrefixIs
    <2>3. Last(Prefix(q, i)) \in DirNames
      <3>1. CASE i < Len(q)
        BY <3>1, PrefixesThere
      <3>2. CASE i = Len(q)
        BY <1>1, <3>2, PrefixIs
      <3> QED
        BY <1>1, <3>1, <3>2
    <2> QED
      BY <1>4, <2>1, <2>2, <2>3, FileSystemAssumption DEF Named
  <1>8. ASSUME NEW i \in 2..Len(q)
        PROVE  /\ at[i] <= e[i - 1].size /\ Only(ReadFile(s, e[i - 1]), at[i], e[i])
               /\ NoTextIn(ReadFile(s, e[i - 1]))
    <2>0. PICK j : j = i - 1
      OBVIOUS
    <2>1. i \in 1..Len(q) /\ i \in 0..Len(q) /\ j \in 1..Len(q) - 1 /\ j \in 1..Len(q) /\ i > 1
      BY <1>1, <2>0
    <2>2. PICK r, d : r = Prefix(q, i) /\ d = Prefix(q, j)
      OBVIOUS
    <2>3. r \in DOMAIN T /\ d \in DOMAIN T /\ Front(r) = d /\ Len(r) = i
      BY <1>1, <2>0, <2>1, <2>2, PrefixesThere, PrefixIs
    <2>4. r \in Below(T, d)
      BY <2>1, <2>3 DEF Below
    <2>5. PICK k, sec : k = ent[d].size /\ sec = s.data[ent[d].cluster]
      OBVIOUS
    <2>6. ListsBelow(sec, k, T, ent, place, d)
      BY <2>1, <2>2, <2>5 DEF Ready
    <2>7. ent[d] \in Inode /\ \A p \in DOMAIN T : ent[p] \in Inode /\ ent[p].name = Last(p)
      BY <2>3 DEF Named
    <2>8. k \in 0..CLUSTER_SIZE
      BY <2>6 DEF ListsBelow
    <2>9. Len(sec) = CLUSTER_SIZE /\ (k > 0 => ReadFile(s, ent[d]) = sec)
      BY <2>5, <2>7, <2>8, ReadIs, Constants
    <2>10. k \in 1..CLUSTER_SIZE /\ place[r] \in 1..k /\ Only(sec, place[r], ent[r])
      BY <2>4, <2>6, <2>7, <2>9, ListedOnly
    <2>11. e[j] = ent[d] /\ e[i] = ent[r] /\ at[i] = place[r]
      BY <1>4, <1>5, <2>1, <2>2
    <2>12. NoTextIn(sec)
      <3>1. k > 0 /\ \A p \in DOMAIN T : ent[p] \in Inode
        BY <2>7, <2>8, <2>10
      <3> QED
        BY <2>6, <2>9, <3>1, ListedEntries
    <2> QED
      BY <2>0, <2>5, <2>9, <2>10, <2>11, <2>12
  <1> QED
    BY <1>2, <1>3, <1>5, <1>6, <1>7, <1>8 DEF Trail
(* The directory of a lookup, and its buffer. *)
HolderIn(s, ent, q) == IF Len(q) = 1 THEN s.root ELSE ReadFile(s, ent[Front(q)])
PlaceIn(place, q) == IF Len(q) = 1 THEN 1 ELSE place[q]

LEMMA LookedUp ==
  ASSUME NEW s, NEW U, IsState(s, U), NEW T, NEW ent, NEW place, Shape(T), Named(T, ent),
         NEW q \in DOMAIN T, Last(q) \in DirNames, Ready(s, T, ent, place, q), NEW p
  PROVE  /\ LookupAt(s, EntriesTo(ent, q), PlacesTo(place, q), p, Len(q)) =
              [at |-> PlaceIn(place, q), holder |-> HolderIn(s, ent, q),
               buffer |-> IF Len(q) = Len(p) THEN HolderIn(s, ent, q) ELSE ReadFile(s, ent[q]),
               inRoot |-> (Len(q) = 1), end |-> "open"]
         /\ Entry(HolderIn(s, ent, q), PlaceIn(place, q)) = ent[q]
  <1>1. q \in Seq(Names) /\ Len(q) \in Nat \ {0}
    BY PathTyped
  <1>2. PICK e, at : e = EntriesTo(ent, q) /\ at = PlacesTo(place, q)
    OBVIOUS
  <1>3. PICK n : n = Len(q)
    OBVIOUS
  <1>4. n \in 1..Len(q) /\ Prefix(q, n) = q
    BY <1>1, <1>3, PrefixIs
  <1>5. e[n] = ent[q] /\ at[n] = PlaceIn(place, q)
    BY <1>1, <1>2, <1>3, <1>4 DEF EntriesTo, PlacesTo, PlaceIn
  <1>6. HolderOf(s, e, n) = HolderIn(s, ent, q)
    <2>1. CASE n = 1
      BY <1>3, <2>1 DEF HolderOf, HolderIn
    <2>2. CASE n # 1
      <3>1. n - 1 \in 1..Len(q) /\ Front(q) = Prefix(q, n - 1)
        BY <1>1, <1>3, <2>2, FrontIs
      <3>2. e[n - 1] = ent[Front(q)]
        BY <1>2, <3>1 DEF EntriesTo
      <3> QED
        BY <1>3, <2>2, <3>2 DEF HolderOf, HolderIn
    <2> QED
      BY <2>1, <2>2
  <1>7. n # 0
    BY <1>1, <1>3
  <1>8. LookupAt(s, e, at, p, n) =
              [at |-> PlaceIn(place, q), holder |-> HolderIn(s, ent, q),
               buffer |-> IF n = Len(p) THEN HolderIn(s, ent, q) ELSE ReadFile(s, ent[q]),
               inRoot |-> (n = 1), end |-> "open"]
    BY <1>5, <1>6, <1>7 DEF LookupAt
  <1>9. Entry(HolderIn(s, ent, q), PlaceIn(place, q)) = ent[q]
    <2>1. Trail(s, e, at, q, n)
      BY <1>2, <1>3, TrailTo
    <2>2. CASE n = 1
      <3>1. 1 \in Nat \ {0}
        OBVIOUS
      <3>2. Trail(s, e, at, q, 1)
        BY <2>1, <2>2
      <3>3. Entry(s.root, 1) = e[1]
        BY <3>1, <3>2, RootFound
      <3> QED
        BY <1>3, <1>5, <2>2, <3>3 DEF HolderIn, PlaceIn
    <2>3. CASE n # 1
      <3>1. n \in 2..n
        BY <1>1, <1>3, <2>3
      <3>2. Only(HolderOf(s, e, n), at[n], e[n])
        BY <2>1, <2>3, <3>1 DEF Trail, HolderOf
      <3> QED
        BY <1>5, <1>6, <3>2 DEF Only, Entry
    <2> QED
      BY <2>2, <2>3
  <1> QED
    BY <1>2, <1>3, <1>8, <1>9

LEMMA FindDir ==
  ASSUME NEW s, NEW U, IsState(s, U), NEW T, NEW ent, NEW place, Shape(T), Named(T, ent),
         NEW q \in DOMAIN T, Last(q) \in DirNames, Ready(s, T, ent, place, q)
  PROVE  /\ Navigate(s, q) =
              [at |-> PlaceIn(place, q), holder |-> HolderIn(s, ent, q), buffer |-> HolderIn(s, ent, q),
               inRoot |-> (Len(q) = 1), end |-> "open"]
         /\ Current(Navigate(s, q)) = ent[q]
  <1>1. Len(q) \in Nat
    BY PathTyped
  <1>2. Navigate(s, q) = LookupAt(s, EntriesTo(ent, q), PlacesTo(place, q), q, Len(q))
    BY <1>1, TrailTo, WalkToDir
  <1>3. /\ Navigate(s, q) =
              [at |-> PlaceIn(place, q), holder |-> HolderIn(s, ent, q), buffer |-> HolderIn(s, ent, q),
               inRoot |-> (Len(q) = 1), end |-> "open"]
        /\ Entry(HolderIn(s, ent, q), PlaceIn(place, q)) = ent[q]
    BY <1>2, LookedUp
  <1> QED
    BY <1>3 DEF Current

(* One more name behind a directory. *)
LEMMA TrailOn ==
  ASSUME NEW s, NEW U, IsState(s, U), NEW T, NEW ent, NEW place, Shape(T), Named(T, ent),
         NEW q \in DOMAIN T, Last(q) \in DirNames, Ready(s, T, ent, place, q), NEW n \in Names
  PROVE  Navigate(s, Append(q, n)) =
           NavigateStep(s, [at |-> PlaceIn(place, q), holder |-> HolderIn(s, ent, q),
                            buffer |-> ReadFile(s, ent[q]), inRoot |-> (Len(q) = 1), end |-> "open"],
                        Append(q, n), Len(q) + 1)
  <1>1. q \in Seq(Names) /\ Len(q) \in Nat
    BY PathTyped
  <1>2. PICK p : p = Append(q, n)
    OBVIOUS
  <1>3. Len(p) = Len(q) + 1 /\ \A i \in 1..Len(q) : p[i] = q[i]
    BY <1>1, <1>2, AppendIs
  <1>4. PICK e, at : e = EntriesTo(ent, q) /\ at = PlacesTo(place, q)
    OBVIOUS
  <1>5. Trail(s, e, at, q, Len(q))
    BY <1>4, TrailTo
  <1>6. Trail(s, e, at, p, Len(q))
    BY <1>3, <1>5 DEF Trail
  <1>7. Navigate(s, p) = NavigateStep(s, LookupAt(s, e, at, p, Len(q)), p, Len(q) + 1)
    BY <1>1, <1>3, <1>6, WalkPast
  <1>8. Len(q) # Len(p)
    BY <1>1, <1>3
  <1>9. LookupAt(s, e, at, p, Len(q)) =
          [at |-> PlaceIn(place, q), holder |-> HolderIn(s, ent, q),
           buffer |-> ReadFile(s, ent[q]), inRoot |-> (Len(q) = 1), end |-> "open"]
    BY <1>4, <1>8, LookedUp
  <1> QED
    BY <1>2, <1>7, <1>9

LEMMA FindFileDir ==
  ASSUME NEW s, NEW U, IsState(s, U), NEW T, NEW ent, NEW place, Shape(T), Named(T, ent),
         NEW q \in DOMAIN T, Last(q) \in DirNames, Ready(s, T, ent, place, q), NEW n \in FileNames
  PROVE  Navigate(s, Append(q, n)).end = "file" /\ Current(Navigate(s, Append(q, n))) = ent[q]
  <1>1. q \in Seq(Names) /\ n \in Names
    BY PathTyped DEF Names
  <1>2. PICK p, i : p = Append(q, n) /\ i = Len(q) + 1
    OBVIOUS
  <1>3. p[i] = n
    BY <1>1, <1>2
  <1>4. PICK nav : nav = [at |-> PlaceIn(place, q), holder |-> HolderIn(s, ent, q),
                          buffer |-> ReadFile(s, ent[q]), inRoot |-> (Len(q) = 1), end |-> "open"]
    OBVIOUS
  <1>5. Navigate(s, p) = NavigateStep(s, nav, p, i)
    BY <1>1, <1>2, <1>4, TrailOn
  <1>6. NavigateStep(s, nav, p, i) = [nav EXCEPT !.end = "file"]
    BY <1>3, <1>4 DEF NavigateStep
  <1>7. Entry(HolderIn(s, ent, q), PlaceIn(place, q)) = ent[q]
    BY FindDir DEF Current
  <1> QED
    BY <1>2, <1>4, <1>5, <1>6, <1>7 DEF Current

(* Where all sectors are as listed, they are so for every path. *)
LEMMA ReadyFor ==
  ASSUME NEW s, NEW T, NEW ent, NEW place, Listed(s, T, ent, place), s.read, NEW q \in DOMAIN T
  PROVE  Ready(s, T, ent, place, q)
  <1>1. ASSUME NEW i \in 1..Len(q) - 1 PROVE InSectors(s, T, ent, place, Prefix(q, i)) /\ Last(Prefix(q, i)) \in DirNames
    <2>1. Len(q) \in Nat
      BY PathTyped DEF Listed
    <2>2. i \in 1..Len(q) /\ i < Len(q)
      BY <2>1
    <2> QED
      BY <2>2, PrefixesThere DEF Listed
  <1>2. s.entries = 1 /\ s.root[1] = ent[<<ROOT>>]
    BY DEF Listed, RootIs
  <1> QED
    BY <1>1, <1>2 DEF Ready, InSectors

(* find_file of a name in a directory. *)
LEMMA FindListed ==
  ASSUME NEW s, NEW U, IsState(s, U), NEW T, NEW ent, NEW place, Listed(s, T, ent, place),
         NEW q \in DOMAIN T, Last(q) \in DirNames, NEW n \in Names
  PROVE  LET b == ReadFile(s, ent[q])
             at == Find(b, SizeOf(s, ent[q]), n)
         IN  /\ Append(q, n) \in DOMAIN T =>
                  /\ b = s.data[ent[q].cluster] /\ at = place[Append(q, n)] /\ at \in 1..ent[q].size
                  /\ Entry(b, at) = ent[Append(q, n)] /\ b[at] = ent[Append(q, n)]
             /\ Append(q, n) \notin DOMAIN T => at = 0
             /\ ~ReadsText(b, SizeOf(s, ent[q]), n)
  <1>1. PICK b : b = ReadFile(s, ent[q])
    OBVIOUS
  <1>2. PICK sec, k : sec = s.data[ent[q].cluster] /\ k = ent[q].size
    OBVIOUS
  <1>3. PICK r : r = Append(q, n)
    OBVIOUS
  <1>4. q \in Seq(Names) /\ Front(r) = q /\ Last(r) = n /\ Len(r) = Len(q) + 1 /\ Len(q) \in Nat \ {0}
    BY <1>3, PathTyped, AppendIs DEF Listed
  <1>5. ListsBelow(sec, k, T, ent, place, q)
    BY <1>2 DEF Listed, InSectors
  <1>6. k \in 0..CLUSTER_SIZE
    BY <1>5 DEF ListsBelow
  <1>7. \A p \in DOMAIN T : ent[p] \in Inode /\ ent[p].name = Last(p)
    BY DEF Listed, Named
  <1>8. /\ SizeOf(s, ent[q]) = k /\ (k = 0 => b = <<>>) /\ (k > 0 => b = sec)
        /\ Len(sec) = CLUSTER_SIZE /\ k \in Nat
    BY <1>1, <1>2, <1>6, <1>7, ReadIs, Constants
  <1>11. NoTextIn(b)
    <2>1. CASE k = 0
      BY <1>8, <2>1 DEF NoTextIn
    <2>2. CASE k # 0
      <3>1. k > 0 /\ \A p \in DOMAIN T : ent[p] \in Inode
        BY <1>7, <1>8, <2>2
      <3> QED
        BY <1>5, <1>8, <3>1, ListedEntries
    <2> QED
      BY <2>1, <2>2
  <1>12. ~ReadsText(b, SizeOf(s, ent[q]), n)
    BY <1>11, ReadsNone
  <1>9. CASE r \in DOMAIN T
    <2>1. r \in Below(T, q)
      BY <1>4, <1>9 DEF Below
    <2>2. k \in 1..CLUSTER_SIZE /\ place[r] \in 1..k /\ Only(sec, place[r], ent[r])
      BY <1>5, <1>7, <1>8, <2>1, ListedOnly DEF Listed
    <2>3. b = sec /\ place[r] <= k
      BY <1>8, <2>2
    <2>4. Find(b, k, ent[r].name) = place[r] /\ Entry(b, place[r]) = ent[r]
      BY <1>8, <2>2, <2>3, FindOnly
    <2>5. b[place[r]] = ent[r]
      BY <2>2, <2>3 DEF Only
    <2>6. ent[r].name = n
      BY <1>4, <1>7, <1>9
    <2> QED
      BY <1>1, <1>2, <1>3, <1>8, <1>9, <1>12, <2>2, <2>3, <2>4, <2>5, <2>6
  <1>10. CASE r \notin DOMAIN T
    <2>1. ASSUME NEW j \in 1..Len(b), j <= k, IsInode(b[j]), b[j].name = n PROVE FALSE
      <3>1. k > 0 /\ b = sec /\ j \in 1..k
        BY <1>8, <2>1
      <3>2. PICK t \in Below(T, q) : place[t] = j
        BY <1>5, <3>1 DEF ListsBelow
      <3>3. b[j] = ent[t]
        BY <1>5, <3>1, <3>2 DEF ListsBelow
      <3>4. t \in DOMAIN T /\ t = Append(q, Last(t)) /\ ent[t].name = Last(t)
        BY <1>7, PathTyped, FrontIs DEF Below, Listed
      <3> QED
        BY <1>3, <1>10, <2>1, <3>3, <3>4
    <2>2. Find(b, k, n) = 0
      BY <2>1, FindNone
    <2> QED
      BY <1>1, <1>3, <1>8, <1>10, <1>12, <2>2
  <1> QED
    BY <1>9, <1>10

LEMMA SameFunctions ==
  ASSUME NEW D, NEW S, NEW f \in [D -> S], NEW g \in [D -> S], \A x \in D : f[x] = g[x] PROVE f = g
  OBVIOUS

(***************************************************************************)
(* What edit_file and root_read change                                     *)
(***************************************************************************)
LEMMA StoredIs ==
  ASSUME NEW s, NEW U, IsState(s, U)
  PROVE  /\ IsState(Stored(s), U)
         /\ Stored(s).fat = s.fat /\ Stored(s).data = s.data
         /\ Stored(s).root = s.root /\ Stored(s).diskRoot = s.diskRoot
         /\ Stored(s).entries = s.entries /\ Stored(s).read = s.read /\ Stored(s).mode = s.mode
  BY DEF IsState, Stored

LEMMA LoadedIs ==
  ASSUME NEW s, NEW U, IsState(s, U), NEW u, RootIs(s, u)
  PROVE  /\ IsState(Loaded(s), U) /\ RootIs(Loaded(s), u) /\ Loaded(s).read
         /\ Loaded(s).fat = s.fat /\ Loaded(s).data = s.data /\ Loaded(s).mode = s.mode
  <1>1. CASE s.read
    BY <1>1 DEF Loaded
  <1>2. CASE ~s.read
    <2> DEFINE rt == [i \in 1..ROOT_ENTRIES |-> IF i <= RootSectorUnits(s.entries) THEN s.diskRoot[i] ELSE s.root[i]]
    <2>1. rt \in [1..ROOT_ENTRIES -> U]
      BY DEF IsState
    <2>2. rt[1] = s.diskRoot[1]
      <3>1. 1 \in 1..ROOT_ENTRIES /\ 1 < CLUSTER_SIZE /\ CLUSTER_SIZE \in Nat
        BY FileSystemAssumption
      <3>2. RootSectorUnits(s.entries) = CLUSTER_SIZE
        BY <3>1 DEF RootIs, RootSectorUnits
      <3> QED
        BY <3>1, <3>2
    <2>3. Loaded(s) = [s EXCEPT !.read = TRUE, !.root = rt]
      BY <1>2 DEF Loaded, RootIs
    <2> HIDE DEF rt
    <2> QED
      BY <1>2, <2>1, <2>2, <2>3 DEF IsState, RootIs
  <1> QED
    BY <1>1, <1>2

LEMMA SectorIs ==
  ASSUME NEW U, NEW b \in Seq(U), NEW size \in Nat, size <= Len(b), Zero \in U
  PROVE  /\ Sector(b, size) \in [1..CLUSTER_SIZE -> U]
         /\ \A i \in 1..CLUSTER_SIZE : Sector(b, size)[i] = IF i > size THEN Zero ELSE b[i]
  <1>1. CLUSTER_SIZE \in Nat /\ Len(b) \in Nat
    BY Constants
  <1>2. ASSUME NEW i \in 1..CLUSTER_SIZE
        PROVE  Sector(b, size)[i] = (IF i > size THEN Zero ELSE b[i]) /\ Sector(b, size)[i] \in U
    BY <1>1 DEF Sector
  <1>3. Sector(b, size) = [i \in 1..CLUSTER_SIZE |-> Sector(b, size)[i]]
    BY DEF Sector
  <1> QED
    BY <1>2, <1>3

(* All but the sectors of files. *)
SameOutside(t, s) ==
  /\ t.fat = s.fat /\ t.root = s.root /\ t.diskRoot = s.diskRoot
  /\ t.entries = s.entries /\ t.read = s.read /\ t.mode = s.mode

LEMMA EditIs ==
  ASSUME NEW s, NEW U, IsState(s, U), NEW u \in Inode, NEW b \in Seq(U), NEW size \in Nat, size <= Len(b)
  PROVE  /\ IsState(EditFile(s, u, b, size), U) /\ SameOutside(EditFile(s, u, b, size), s)
         /\ size = 0 => EditFile(s, u, b, size).data = s.data
         /\ size > 0 => EditFile(s, u, b, size).data = [s.data EXCEPT ![u.cluster] = Sector(b, size)]
  <1>1. u # NoFile /\ u.cluster \in Clusters
    BY UnitsApart
  <1>2. CASE size = 0
    BY <1>1, <1>2 DEF EditFile, SameOutside
  <1>3. CASE size # 0
    <2>1. PICK sec : sec = Sector(b, size)
      OBVIOUS
    <2>2. sec \in [1..CLUSTER_SIZE -> U]
      BY <2>1, SectorIs DEF IsState
    <2>3. PICK t : t = [s EXCEPT !.data[u.cluster] = sec]
      OBVIOUS
    <2>4. /\ IsState(t, U) /\ t.data = [s.data EXCEPT ![u.cluster] = sec]
          /\ SameOutside(t, s)
      BY <1>1, <2>2, <2>3 DEF IsState, SameOutside
    <2>5. EditFile(s, u, b, size) = Stored(t)
      BY <1>1, <1>3, <2>1, <2>3 DEF EditFile
    <2> QED
      BY <1>3, <2>1, <2>4, <2>5, StoredIs DEF SameOutside
  <1> QED
    BY <1>2, <1>3

LEMMA WithRootIs ==
  ASSUME NEW s, NEW U, IsState(s, U), s.entries = 1, NEW b \in Seq(U), Len(b) > 0
  PROVE  LET t == EditFile(s, NoFile, b, 1)
         IN  /\ IsState(t, U) /\ RootIs(t, b[1])
             /\ t.fat = s.fat /\ t.data = s.data /\ t.mode = s.mode
  <1> DEFINE rt == [i \in 1..ROOT_ENTRIES |->
                      IF i > RootSectorUnits(s.entries) THEN s.diskRoot[i]
                      ELSE IF i \in 1 + 1..RoundedUp(1) THEN Zero
                      ELSE IF i <= 1 /\ i <= Len(b) THEN b[i]
                      ELSE Junk]
  <1>1. CLUSTER_SIZE \in Nat /\ 1 < CLUSTER_SIZE /\ 1 \in 1..ROOT_ENTRIES
    BY FileSystemAssumption
  <1>2. rt \in [1..ROOT_ENTRIES -> U]
    <2> SUFFICES ASSUME NEW i \in 1..ROOT_ENTRIES PROVE rt[i] \in U
      OBVIOUS
    <2>1. s.diskRoot[i] \in U /\ Zero \in U /\ Junk \in U
      BY DEF IsState
    <2>2. i <= Len(b) => b[i] \in U
      BY Constants
    <2> QED
      BY <2>1, <2>2
  <1>3. RootSectorUnits(s.entries) = CLUSTER_SIZE
    BY <1>1 DEF RootSectorUnits
  <1>4. 1 \notin 1 + 1..RoundedUp(1)
    BY RoundedUpSize
  <1>5. rt[1] = b[1]
    BY <1>1, <1>3, <1>4
  <1> HIDE DEF rt
  <1>6. PICK t : t = [s EXCEPT !.read = FALSE, !.diskRoot = rt]
    OBVIOUS
  <1>7. IsState(t, U) /\ RootIs(t, b[1]) /\ t.fat = s.fat /\ t.data = s.data /\ t.mode = s.mode
    BY <1>2, <1>5, <1>6 DEF IsState, RootIs
  <1>8. EditFile(s, NoFile, b, 1) = Stored(t)
    BY <1>6 DEF EditFile, WithRoot, rt
  <1> QED
    BY <1>7, <1>8, StoredIs DEF RootIs

(***************************************************************************)
(* enter_file and what it writes besides the directory: its entry          *)
(***************************************************************************)
LEMMA ResizedIs ==
  ASSUME NEW u \in Inode, NEW m \in Nat
  PROVE  /\ Resized(u, m) \in Inode /\ Resized(u, m).name = u.name
         /\ Resized(u, m).cluster = u.cluster /\ Resized(u, m).size = m
  BY DEF Resized, Inode

DirEdited(t, s, U, ent, place, q, content) ==
  /\ IsState(t, U) /\ t.fat = s.fat /\ t.mode = s.mode
  /\ RootIs(t, IF Len(q) = 1 THEN Resized(ent[q], Len(content)) ELSE ent[<<ROOT>>])
  /\ \A c \in Clusters :
       t.data[c] =
         IF c = ent[q].cluster THEN IF Len(content) = 0 THEN s.data[c] ELSE Sector(content, Len(content))
         ELSE IF Len(q) > 1 /\ c = ent[Front(q)].cluster
         THEN [s.data[c] EXCEPT ![place[q]] = Resized(ent[q], Len(content))]
         ELSE s.data[c]

LEMMA StartIs == ASSUME NEW s PROVE Navigate(s, <<>>) = Start(s) /\ Current(Navigate(s, <<>>)) = NoFile
  <1>1. Len(<<>>) = 0
    OBVIOUS
  <1>2. PICK g : IsLookup(g, s, <<>>, 0) /\ Navigate(s, <<>>) = g[0]
    BY <1>1, NavigateIs
  <1>3. g[0] = Start(s)
    BY <1>2 DEF IsLookup
  <1> QED
    BY <1>2, <1>3 DEF Start, Current, Entry

LEMMA EditDirectoryIs ==
  ASSUME NEW s, NEW U, IsState(s, U), s.read, NEW T, NEW ent, NEW place, Listed(s, T, ent, place),
         NEW q \in DOMAIN T, Last(q) \in DirNames, NEW content \in Seq(U)
  PROVE  DirEdited(EditDirectory(s, Navigate(s, q), q, content), s, U, ent, place, q, content)
  <1>0. PICK m \in Nat : m = Len(content)
    OBVIOUS
  <1>1. PICK nav : nav = Navigate(s, q)
    OBVIOUS
  <1>2. q \in Seq(Names) /\ Len(q) \in Nat \ {0} /\ Shape(T) /\ Named(T, ent) /\ Ready(s, T, ent, place, q)
    BY PathTyped, ReadyFor DEF Listed
  <1>a. Len(q) # 1 => Len(q) > 1 /\ Len(q) > 0
    <2>1. PICK l \in Nat \ {0} : l = Len(q)
      BY <1>2
    <2> QED
      BY <2>1
  <1>3. /\ nav = [at |-> PlaceIn(place, q), holder |-> HolderIn(s, ent, q), buffer |-> HolderIn(s, ent, q),
                  inRoot |-> (Len(q) = 1), end |-> "open"]
        /\ Current(nav) = ent[q]
    BY <1>1, <1>2, FindDir
  <1>4. PICK dir : dir = Resized(ent[q], m)
    OBVIOUS
  <1>5. dir \in Inode /\ dir.cluster = ent[q].cluster /\ ent[q] \in Inode /\ dir \in U /\ dir.cluster \in Clusters
    BY <1>2, <1>4, ResizedIs, UnitsApart DEF Named, IsState
  <1>6. PICK held : held = IF nav.inRoot THEN [s EXCEPT !.root[nav.at] = dir] ELSE s
    OBVIOUS
  <1>7. PICK edited : edited = EditFile(held, dir, content, m)
    OBVIOUS
  <1>8. PICK buffer : buffer = [nav.buffer EXCEPT ![nav.at] = dir]
    OBVIOUS
  <1>9. PICK parent : parent = Current(Navigate(edited, Front(q)))
    OBVIOUS
  <1>10. PICK t : t = EditDirectory(s, nav, q, content)
    OBVIOUS
  <1>11. t = EditFile(edited, parent, buffer, SizeOf(edited, parent))
    <2>1. nav.end # "file"
      BY <1>3
    <2> QED
      BY <1>0, <1>3, <1>4, <1>6, <1>7, <1>8, <1>9, <1>10, <2>1 DEF EditDirectory
  <1>12. IsState(held, U) /\ held.fat = s.fat /\ held.data = s.data /\ held.mode = s.mode /\ held.entries = 1
         /\ (Len(q) # 1 => held = s)
    BY <1>2, <1>3, <1>5, <1>6 DEF IsState, Ready
  <1>13. /\ IsState(edited, U) /\ SameOutside(edited, held)
         /\ \A c \in Clusters : edited.data[c] =
              IF c = ent[q].cluster /\ m # 0 THEN Sector(content, m) ELSE s.data[c]
    <2>1. m <= Len(content)
      BY <1>0
    <2>2. /\ IsState(edited, U) /\ SameOutside(edited, held)
          /\ m = 0 => edited.data = s.data
          /\ m > 0 => edited.data = [s.data EXCEPT ![dir.cluster] = Sector(content, m)]
      BY <1>5, <1>7, <1>12, <2>1, EditIs
    <2>3. DOMAIN s.data = Clusters
      BY DEF IsState
    <2> QED
      BY <1>0, <1>5, <2>2, <2>3
  <1>14. CASE Len(q) = 1
    <2>1. Front(q) = <<>>
      BY <1>14 DEF Front
    <2>2. parent = NoFile /\ SizeOf(edited, parent) = 1
      BY <1>9, <1>12, <1>13, <2>1, StartIs DEF SizeOf, SameOutside
    <2>3. buffer = [s.root EXCEPT ![1] = dir]
      BY <1>3, <1>8, <1>14 DEF HolderIn, PlaceIn
    <2>4. s.root \in [1..ROOT_ENTRIES -> U] /\ ROOT_ENTRIES \in Nat \ {0}
      BY FileSystemAssumption DEF IsState
    <2>5. buffer \in [1..ROOT_ENTRIES -> U] /\ buffer[1] = dir
      BY <1>5, <2>3, <2>4
    <2>6. buffer \in Seq(U) /\ Len(buffer) > 0
      BY <2>4, <2>5, FunctionIsSeq
    <2>a. edited.entries = 1 /\ t = EditFile(edited, NoFile, buffer, 1)
      BY <1>11, <1>12, <1>13, <2>2 DEF SameOutside
    <2>7. IsState(t, U) /\ RootIs(t, dir) /\ t.fat = edited.fat /\ t.data = edited.data /\ t.mode = edited.mode
      BY <1>13, <2>a, <2>5, <2>6, WithRootIs
    <2> QED
      BY <1>0, <1>1, <1>4, <1>10, <1>12, <1>13, <1>14, <2>7 DEF DirEdited, SameOutside
  <1>15. CASE Len(q) # 1
    <2>1. PICK up : up = Front(q)
      OBVIOUS
    <2>2. /\ up \in DOMAIN T /\ Last(up) \in DirNames /\ up \in Seq(Names)
          /\ Len(up) = Len(q) - 1 /\ q = Append(up, Last(q)) /\ Last(q) \in Names
      <3>1. Len(q) > 1 /\ Len(q) > 0
        BY <1>a, <1>15
      <3>2. up \in DOMAIN T /\ Last(up) \in DirNames
        BY <1>2, <2>1, <3>1 DEF Shape
      <3>3. /\ up \in Seq(Names) /\ Len(up) = Len(q) - 1 /\ q = Append(up, Last(q)) /\ Last(q) \in Names
        BY <1>2, <2>1, <3>1, FrontIs
      <3> QED
        BY <3>2, <3>3
    <2>3. PICK k, sec : k = ent[up].size /\ sec = s.data[ent[up].cluster]
      OBVIOUS
    <2>4. ReadFile(s, ent[up]) = sec /\ place[q] \in 1..k
      <3>1. PICK n \in Names : q = Append(up, n)
        BY <2>2
      <3>2. Append(up, n) \in DOMAIN T
        BY <3>1
      <3> QED
        BY <2>2, <2>3, <3>1, <3>2, FindListed
    <2>5. ListsBelow(sec, k, T, ent, place, up)
      BY <2>2, <2>3 DEF Listed, InSectors
    <2>6. k \in 1..CLUSTER_SIZE /\ ent[up] \in Inode /\ ent[up].cluster \in Clusters
      BY <1>2, <2>2, <2>4, <2>5, Constants, UnitsApart DEF ListsBelow, Named
    <2>7. ent[up].cluster # ent[q].cluster
      BY <1>2, <2>2 DEF Named
    <2>8. Ready(edited, T, ent, place, up)
      <3>1. edited.entries = 1 /\ edited.root[1] = ent[<<ROOT>>]
        BY <1>2, <1>12, <1>13, <1>15 DEF SameOutside, Ready
      <3>2. ASSUME NEW i \in 1..Len(up) - 1
            PROVE  ListsBelow(edited.data[ent[Prefix(up, i)].cluster], ent[Prefix(up, i)].size, T, ent, place,
                              Prefix(up, i))
        <4>1. Ready(s, T, ent, place, up)
          BY <2>2, ReadyFor
        <4>2. i \in 1..Len(up) /\ i \in 0..Len(up)
          BY <2>2
        <4>3. Prefix(up, i) \in DOMAIN T /\ Len(Prefix(up, i)) = i
          BY <1>2, <2>2, <4>2, PrefixesThere, PrefixIs
        <4>4. Prefix(up, i) # q
          BY <1>2, <2>2, <4>2, <4>3
        <4>5. ent[Prefix(up, i)].cluster # ent[q].cluster /\ ent[Prefix(up, i)].cluster \in Clusters
          BY <1>2, <4>3, <4>4, UnitsApart DEF Named
        <4>6. edited.data[ent[Prefix(up, i)].cluster] = s.data[ent[Prefix(up, i)].cluster]
          BY <1>13, <4>5
        <4> QED
          BY <4>1, <4>6 DEF Ready
      <3> QED
        BY <3>1, <3>2 DEF Ready
    <2>9. Named(T, ent)
      BY <1>2, <1>12, <1>13 DEF Named, SameOutside
    <2>10. parent = ent[up]
      BY <1>2, <1>9, <1>13, <2>1, <2>2, <2>8, <2>9, FindDir
    <2>11. SizeOf(edited, parent) = k
      BY <2>3, <2>6, <2>10, UnitsApart DEF SizeOf
    <2>12. buffer = [sec EXCEPT ![place[q]] = dir]
      BY <1>3, <1>8, <1>15, <2>1, <2>4 DEF HolderIn, PlaceIn
    <2>13. sec \in [1..CLUSTER_SIZE -> U] /\ CLUSTER_SIZE \in Nat
      BY <2>3, <2>6, Constants DEF IsState
    <2>14. buffer \in [1..CLUSTER_SIZE -> U]
      BY <1>5, <2>12, <2>13
    <2>15. buffer \in Seq(U) /\ Len(buffer) = CLUSTER_SIZE
      BY <2>13, <2>14, FunctionIsSeq
    <2>16. k \in Nat /\ k <= Len(buffer) /\ k > 0
      BY <2>6, <2>13, <2>15
    <2>17. Sector(buffer, k) = buffer
      <3>1. Zero \in U
        BY DEF IsState
      <3>2. Sector(buffer, k) \in [1..CLUSTER_SIZE -> U]
            /\ \A i \in 1..CLUSTER_SIZE : Sector(buffer, k)[i] = IF i > k THEN Zero ELSE buffer[i]
        BY <2>15, <2>16, <3>1, SectorIs
      <3>3. ASSUME NEW i \in 1..CLUSTER_SIZE, i > k PROVE buffer[i] = Zero
        <4>1. i \in k + 1..CLUSTER_SIZE /\ i # place[q]
          BY <2>4, <2>6, <2>13, <3>3
        <4> QED
          BY <2>5, <2>12, <2>13, <2>16, <4>1 DEF ListsBelow
      <3>4. \A i \in 1..CLUSTER_SIZE : Sector(buffer, k)[i] = buffer[i]
        BY <3>2, <3>3
      <3>5. PICK f : f = Sector(buffer, k)
        OBVIOUS
      <3>6. f \in [1..CLUSTER_SIZE -> U] /\ \A i \in 1..CLUSTER_SIZE : f[i] = buffer[i]
        BY <3>2, <3>4, <3>5
      <3>7. f = buffer
        <4>1. PICK D : D = 1..CLUSTER_SIZE
          OBVIOUS
        <4>2. f \in [D -> U] /\ buffer \in [D -> U] /\ \A i \in D : f[i] = buffer[i]
          BY <2>14, <3>6, <4>1
        <4> QED
          BY <4>2, SameFunctions
      <3> QED
        BY <3>5, <3>7
    <2>18. IsState(t, U) /\ SameOutside(t, edited) /\ t.data = [edited.data EXCEPT ![ent[up].cluster] = buffer]
      BY <1>11, <1>13, <2>6, <2>10, <2>11, <2>15, <2>16, <2>17, EditIs
    <2>19. DOMAIN edited.data = Clusters
      BY <1>13 DEF IsState
    <2>20. RootIs(t, ent[<<ROOT>>])
      BY <1>12, <1>13, <1>15, <2>18 DEF SameOutside, RootIs, Listed
    <2>21. ASSUME NEW c \in Clusters
           PROVE  t.data[c] = IF c = ent[q].cluster THEN IF m = 0 THEN s.data[c] ELSE Sector(content, m)
                              ELSE IF Len(q) > 1 /\ c = ent[up].cluster THEN [s.data[c] EXCEPT ![place[q]] = dir]
                              ELSE s.data[c]
      <3>1. CASE c = ent[up].cluster
        <4>1. edited.data[c] = s.data[c] /\ t.data[c] = buffer /\ c # ent[q].cluster
          BY <1>13, <2>7, <2>18, <2>19, <3>1
        <4>2. Len(q) > 1
          BY <1>a, <1>15
        <4> QED
          BY <2>3, <2>12, <3>1, <4>1, <4>2
      <3>2. CASE c # ent[up].cluster
        <4>1. t.data[c] = edited.data[c]
          BY <2>18, <2>19, <3>2
        <4> QED
          BY <1>13, <3>2, <4>1
      <3> QED
        BY <3>1, <3>2
    <2> QED
      BY <1>0, <1>1, <1>4, <1>10, <1>12, <1>13, <1>15, <2>1, <2>18, <2>20, <2>21 DEF DirEdited, SameOutside
  <1> QED
    BY <1>14, <1>15
(***************************************************************************)
(* A tree that has changed below one directory                             *)
(***************************************************************************)
LEMMA ListsKept ==
  ASSUME NEW sec, NEW k, NEW T, NEW ent, NEW place, NEW q, ListsBelow(sec, k, T, ent, place, q),
         NEW T2, NEW ent2, NEW place2, Below(T2, q) = Below(T, q),
         \A x \in Below(T, q) : ent2[x] = ent[x] /\ place2[x] = place[x]
  PROVE  ListsBelow(sec, k, T2, ent2, place2, q)
  <1>1. \A i \in 1..k : \E r \in Below(T, q) : place2[r] = i
    BY DEF ListsBelow
  <1> QED
    BY <1>1 DEF ListsBelow

LEMMA PlacesApart ==
  ASSUME NEW T, NEW ent, Named(T, ent), NEW sec, NEW k, NEW place, NEW q,
         ListsBelow(sec, k, T, ent, place, q), NEW x \in Below(T, q), NEW y \in Below(T, q),
         place[x] = place[y]
  PROVE  x = y
  <1>1. ent[x] = ent[y] /\ x \in DOMAIN T /\ y \in DOMAIN T
    BY DEF ListsBelow, Below
  <1> QED
    BY <1>1 DEF Named

(* The entry of one name is replaced, by that of another path or by        *)
(* another one of the same.                                                *)
InPlaceOf(T, ent, place, T2, ent2, place2, q, x0, x1) ==
  /\ x0 \in Below(T, q) /\ \A x \in Below(T, q) : place[x] = place[x0] => x = x0
  /\ Below(T2, q) = (Below(T, q) \ {x0}) \cup {x1}
  /\ x1 = x0 \/ x1 \notin Below(T, q)
  /\ place2[x1] = place[x0]
  /\ \A x \in Below(T, q) \ {x0} : ent2[x] = ent[x] /\ place2[x] = place[x]

LEMMA ListsReplaced ==
  ASSUME NEW sec, DOMAIN sec = 1..CLUSTER_SIZE, NEW k, NEW T, NEW ent, NEW place, NEW q,
         ListsBelow(sec, k, T, ent, place, q), NEW T2, NEW ent2, NEW place2, NEW x0, NEW x1,
         InPlaceOf(T, ent, place, T2, ent2, place2, q, x0, x1)
  PROVE  ListsBelow([sec EXCEPT ![place[x0]] = ent2[x1]], k, T2, ent2, place2, q)
  <1>0. PICK v : v = ent2[x1]
    OBVIOUS
  <1>1. PICK b : b = [sec EXCEPT ![place[x0]] = v]
    OBVIOUS
  <1>2. k \in 0..CLUSTER_SIZE /\ place[x0] \in 1..k /\ CLUSTER_SIZE \in Nat
    BY Constants DEF ListsBelow, InPlaceOf
  <1>3. place[x0] \in 1..CLUSTER_SIZE
    BY <1>2
  <1>4. b[place[x0]] = v /\ \A i \in 1..CLUSTER_SIZE : i # place[x0] => b[i] = sec[i]
    BY <1>1, <1>3
  <1>5. ASSUME NEW x \in Below(T2, q) PROVE place2[x] \in 1..k /\ b[place2[x]] = ent2[x]
    <2>1. CASE x = x1
      BY <1>0, <1>2, <1>4, <2>1 DEF InPlaceOf
    <2>2. CASE x # x1
      <3>1. x \in Below(T, q) \ {x0}
        BY <2>2 DEF InPlaceOf
      <3>2. place[x] \in 1..k /\ sec[place[x]] = ent[x] /\ place[x] # place[x0]
        BY <3>1 DEF ListsBelow, InPlaceOf
      <3>3. place[x] \in 1..CLUSTER_SIZE
        BY <1>2, <3>2
      <3> QED
        BY <1>4, <3>1, <3>2, <3>3 DEF InPlaceOf
    <2> QED
      BY <2>1, <2>2
  <1>6. ASSUME NEW i \in 1..k PROVE \E x \in Below(T2, q) : place2[x] = i
    <2>1. PICK x \in Below(T, q) : place[x] = i
      BY DEF ListsBelow
    <2>2. CASE x = x0
      BY <2>1, <2>2 DEF InPlaceOf
    <2>3. CASE x # x0
      BY <2>1, <2>3 DEF InPlaceOf
    <2> QED
      BY <2>2, <2>3
  <1>7. ASSUME k > 0, NEW i \in k + 1..CLUSTER_SIZE PROVE b[i] = Zero
    <2>1. i \in 1..CLUSTER_SIZE /\ i # place[x0]
      BY <1>2
    <2> QED
      BY <1>4, <1>7, <2>1 DEF ListsBelow
  <1> QED
    BY <1>0, <1>1, <1>2, <1>5, <1>6, <1>7 DEF ListsBelow

(* Only names in the directory q are new, gone or at another place, and    *)
(* only the entry of q itself is another one.                              *)
Around(T, ent, place, T2, ent2, place2, q) ==
  /\ \A p \in (DOMAIN T \ DOMAIN T2) \cup (DOMAIN T2 \ DOMAIN T) : Front(p) = q
  /\ \A p \in DOMAIN T \cap DOMAIN T2 :
       /\ T2[p] = T[p]
       /\ p # q => ent2[p] = ent[p]
       /\ Front(p) # q => place2[p] = place[p]

LEMMA BelowSame ==
  ASSUME NEW T, NEW ent, NEW place, NEW T2, NEW ent2, NEW place2, NEW q,
         Around(T, ent, place, T2, ent2, place2, q), NEW p, p # q
  PROVE  Below(T2, p) = Below(T, p)
         /\ \A x \in Below(T, p) : x \in DOMAIN T \cap DOMAIN T2 /\ Front(x) # q
  <1>1. ASSUME NEW x, Front(x) = p PROVE x \in DOMAIN T <=> x \in DOMAIN T2
    BY <1>1 DEF Around
  <1> QED
    BY <1>1 DEF Below

LEMMA OthersListed ==
  ASSUME NEW s, NEW U, IsState(s, U), NEW T, NEW ent, NEW place, Listed(s, T, ent, place),
         NEW q \in DOMAIN T, Last(q) \in DirNames, NEW t, NEW content, Len(content) \in Nat,
         DirEdited(t, s, U, ent, place, q, content),
         NEW T2, NEW ent2, NEW place2, Shape(T2), q \in DOMAIN T2,
         Around(T, ent, place, T2, ent2, place2, q), ent2[q] = Resized(ent[q], Len(content))
  PROVE  /\ RootIs(t, ent2[<<ROOT>>])
         /\ \A p \in DOMAIN T \cap DOMAIN T2 : p # q => InSectors(t, T2, ent2, place2, p)
  <1>1. PICK dir : dir = Resized(ent[q], Len(content))
    OBVIOUS
  <1>2. /\ Shape(T) /\ Named(T, ent) /\ ent[q] \in Inode
        /\ q \in Seq(Names) /\ Len(q) \in Nat \ {0}
    BY PathTyped DEF Listed, Named
  <1>3. RootIs(t, ent2[<<ROOT>>])
    <2>1. <<ROOT>> \in DOMAIN T \cap DOMAIN T2 /\ (Len(q) = 1 <=> q = <<ROOT>>)
      BY <1>2, PathTyped DEF Shape
    <2>2. Len(q) # 1 => ent2[<<ROOT>>] = ent[<<ROOT>>]
      BY <2>1 DEF Around
    <2> QED
      BY <2>1, <2>2 DEF DirEdited
  <1>4. ASSUME NEW p \in DOMAIN T \cap DOMAIN T2, p # q PROVE InSectors(t, T2, ent2, place2, p)
    <2>1. PICK c, k, sec : c = ent[p].cluster /\ k = ent[p].size /\ sec = s.data[c]
      OBVIOUS
    <2>2. /\ c \in Clusters /\ c # ent[q].cluster /\ ent2[p] = ent[p] /\ T2[p] = T[p]
          /\ InSectors(s, T, ent, place, p)
      BY <1>2, <1>4, <2>1, UnitsApart DEF Named, Around, Listed
    <2>3. /\ Below(T2, p) = Below(T, p)
          /\ \A x \in Below(T, p) : x \in DOMAIN T \cap DOMAIN T2 /\ Front(x) # q
      BY <1>4, BelowSame
    <2>4. \A x \in Below(T, p) : place2[x] = place[x] /\ (x # q => ent2[x] = ent[x])
      BY <2>3 DEF Around
    <2>5. CASE Len(q) > 1 /\ p = Front(q)
      <3>1. Last(p) \in DirNames /\ Last(p) \notin FileNames
        BY <1>2, <2>5, FileSystemAssumption DEF Shape
      <3>2. ListsBelow(sec, k, T, ent, place, p)
        BY <2>1, <2>2, <3>1 DEF InSectors
      <3>3. t.data[c] = [sec EXCEPT ![place[q]] = dir]
        BY <1>1, <2>1, <2>2, <2>5 DEF DirEdited
      <3>4. q \in Below(T, p)
        BY <2>5 DEF Below
      <3>5. \A x \in Below(T, p) : place[x] = place[q] => x = q
        BY <1>2, <3>2, <3>4, PlacesApart
      <3>6. DOMAIN sec = 1..CLUSTER_SIZE
        BY <2>1, <2>2 DEF IsState
      <3>7. ent2[q] = dir /\ place2[q] = place[q] /\ Below(T2, p) = (Below(T, p) \ {q}) \cup {q}
        BY <1>1, <2>3, <2>4, <3>4
      <3>8. \A x \in Below(T, p) \ {q} : ent2[x] = ent[x] /\ place2[x] = place[x]
        BY <2>4
      <3>9. q = q \/ q \notin Below(T, p)
        OBVIOUS
      <3>10. ListsBelow([sec EXCEPT ![place[q]] = dir], k, T2, ent2, place2, p)
        <4>1. InPlaceOf(T, ent, place, T2, ent2, place2, p, q, q)
          BY <3>4, <3>5, <3>7, <3>8 DEF InPlaceOf
        <4>2. ListsBelow([sec EXCEPT ![place[q]] = ent2[q]], k, T2, ent2, place2, p)
          BY <3>2, <3>6, <4>1, ListsReplaced
        <4> QED
          BY <3>7, <4>2
      <3> QED
        BY <2>1, <2>2, <3>1, <3>3, <3>10 DEF InSectors
    <2>6. CASE ~(Len(q) > 1 /\ p = Front(q))
      <3>1. t.data[c] = sec
        <4>1. CASE Len(q) > 1
          <5>1. Front(q) \in DOMAIN T /\ Front(q) # p
            BY <1>2, <2>6, <4>1 DEF Shape
          <5>2. c # ent[Front(q)].cluster
            BY <1>2, <1>4, <2>1, <5>1 DEF Named
          <5> QED
            BY <2>1, <2>2, <5>2 DEF DirEdited
        <4>2. CASE ~(Len(q) > 1)
          BY <2>1, <2>2, <4>2 DEF DirEdited
        <4> QED
          BY <4>1, <4>2
      <3>2. \A x \in Below(T, p) : x # q
        BY <2>6 DEF Below
      <3>3. ASSUME Last(p) \in DirNames PROVE ListsBelow(sec, k, T2, ent2, place2, p)
        <4>1. ListsBelow(sec, k, T, ent, place, p)
          BY <2>1, <2>2, <3>3 DEF InSectors
        <4> QED
          BY <2>3, <2>4, <3>2, <4>1, ListsKept
      <3> QED
        BY <2>1, <2>2, <3>1, <3>3 DEF InSectors
    <2> QED
      BY <2>5, <2>6
  <1> QED
    BY <1>3, <1>4

(***************************************************************************)
(* create_file and create_directory                                        *)
(***************************************************************************)
Grown(T, p, text) == [q \in DOMAIN T \cup {p} |-> IF q = p THEN text ELSE T[q]]

(* Used clusters of no path. *)
Unreached(s, T, ent) == {c \in Clusters : s.fat[c] # 0} \ {ent[p].cluster : p \in DOMAIN T}

LEMMA TidyLoaded ==
  ASSUME NEW s, NEW U, IsState(s, U), NEW T, NEW ent, NEW place, Tidy(s, T, ent, place)
  PROVE  /\ IsState(Loaded(s), U) /\ Tidy(Loaded(s), T, ent, place) /\ Loaded(s).read
         /\ Loaded(s).fat = s.fat /\ Loaded(s).data = s.data /\ Loaded(s).mode = s.mode
  <1>1. RootIs(s, ent[<<ROOT>>])
    BY DEF Tidy, Listed
  <1>2. /\ IsState(Loaded(s), U) /\ RootIs(Loaded(s), ent[<<ROOT>>]) /\ Loaded(s).read
        /\ Loaded(s).fat = s.fat /\ Loaded(s).data = s.data /\ Loaded(s).mode = s.mode
    BY <1>1, LoadedIs
  <1>3. Used(Loaded(s), T, ent)
    BY <1>2 DEF Used, Tidy
  <1>4. \A p \in DOMAIN T : InSectors(Loaded(s), T, ent, place, p)
    BY <1>2 DEF InSectors, Tidy, Listed
  <1> QED
    BY <1>2, <1>3, <1>4 DEF Tidy, Listed

LEMMA ContentIs ==
  ASSUME NEW s, NEW U, IsState(s, U), NEW u \in Inode, u.size <= CLUSTER_SIZE
  PROVE  /\ Content(s, u) \in Seq(U) /\ Len(Content(s, u)) = u.size
         /\ \A i \in 1..u.size : Content(s, u)[i] = s.data[u.cluster][i]
  <1>1. PICK k, sec, b : k = u.size /\ sec = s.data[u.cluster] /\ b = ReadFile(s, u)
    OBVIOUS
  <1>2. /\ k \in Nat /\ k <= CLUSTER_SIZE /\ CLUSTER_SIZE \in Nat /\ SizeOf(s, u) = k
        /\ sec \in Seq(U) /\ Len(sec) = CLUSTER_SIZE
        /\ (k = 0 => b = <<>>) /\ (k > 0 => b = sec)
    BY <1>1, UnitsApart, ReadIs, Constants
  <1>3. Content(s, u) = SubSeq(b, 1, k)
    BY <1>1, <1>2 DEF Content
  <1>4. CASE k = 0
    <2>1. SubSeq(<<>>, 1, 0) = <<>>
      OBVIOUS
    <2> QED
      BY <1>1, <1>2, <1>3, <1>4, <2>1
  <1>5. CASE k # 0
    <2>1. SubSeq(sec, 1, k) \in Seq(U) /\ Len(SubSeq(sec, 1, k)) = k
          /\ \A i \in 1..k : SubSeq(sec, 1, k)[i] = sec[i]
      BY <1>2, <1>5
    <2> QED
      BY <1>1, <1>2, <1>3, <1>5, <2>1
  <1> QED
    BY <1>4, <1>5

LEMMA ShapeGrown ==
  ASSUME NEW T, Shape(T), NEW q \in DOMAIN T, Last(q) \in DirNames, Len(q) <= MaxDepth, NEW n \in Names
  PROVE  /\ Shape(Grown(T, Append(q, n), <<>>))
         /\ Append(q, n) \notin DOMAIN T =>
              /\ \A x \in DOMAIN T : x # Append(q, n) /\ (Len(x) > 1 => Front(x) # Append(q, n))
              /\ Below(Grown(T, Append(q, n), <<>>), Append(q, n)) = {}
              /\ Below(Grown(T, Append(q, n), <<>>), q) = Below(T, q) \cup {Append(q, n)}
  <1>1. PICK r, T2 : r = Append(q, n) /\ T2 = Grown(T, r, <<>>)
    OBVIOUS
  <1>2. DOMAIN T2 = DOMAIN T \cup {r} /\ T2[r] = <<>> /\ \A p \in DOMAIN T : p # r => T2[p] = T[p]
    BY <1>1 DEF Grown
  <1>3. q \in Seq(Names) /\ Len(q) \in Nat \ {0} /\ MaxDepth \in Nat /\ CLUSTER_SIZE \in Nat \ {0}
    BY PathTyped, FileSystemAssumption
  <1>4. /\ r \in Seq(Names) /\ Len(r) = Len(q) + 1 /\ Front(r) = q /\ Last(r) = n
        /\ \A i \in 1..Len(q) : r[i] = q[i]
    BY <1>1, <1>3, AppendIs
  <1>5. r[1] = ROOT /\ Len(r) \in 1..MaxDepth + 1 /\ Len(r) > 1
    BY <1>3, <1>4 DEF Shape
  <1>6. <<>> \in Seq(Bytes) /\ Len(<<>>) < CLUSTER_SIZE
    BY <1>3
  <1>7. Shape(T2)
    <2>1. ASSUME NEW p \in DOMAIN T2
          PROVE  /\ p \in Seq(Names) /\ Len(p) \in 1..MaxDepth + 1 /\ p[1] = ROOT
                 /\ Len(p) > 1 => Front(p) \in DOMAIN T2 /\ Last(Front(p)) \in DirNames
                 /\ T2[p] \in Seq(Bytes) /\ Len(T2[p]) < CLUSTER_SIZE
                 /\ Last(p) \in DirNames => T2[p] = <<>>
      <3>1. CASE p = r
        BY <1>2, <1>4, <1>5, <1>6, <3>1
      <3>2. CASE p # r
        BY <1>2, <3>2 DEF Shape
      <3> QED
        BY <3>1, <3>2
    <2>2. <<ROOT>> \in DOMAIN T2
      BY <1>2 DEF Shape
    <2> QED
      BY <2>1, <2>2 DEF Shape
  <1>8. ASSUME r \notin DOMAIN T
        PROVE  /\ \A x \in DOMAIN T : x # r /\ (Len(x) > 1 => Front(x) # r)
               /\ Below(T2, r) = {} /\ Below(T2, q) = Below(T, q) \cup {r}
    <2>1. ASSUME NEW x \in DOMAIN T PROVE x # r /\ (Len(x) > 1 => Front(x) # r)
      BY <1>8 DEF Shape
    <2>2. r # q
      BY <1>8
    <2>3. \A x \in DOMAIN T2 : Len(x) > 1 => Front(x) # r
      BY <1>2, <1>4, <2>1, <2>2
    <2>4. Below(T2, r) = {}
      BY <2>3 DEF Below
    <2>5. Below(T2, q) = Below(T, q) \cup {r}
      BY <1>2, <1>4, <1>5 DEF Below
    <2> QED
      BY <2>1, <2>4, <2>5
  <1> QED
    BY <1>1, <1>7, <1>8

(* init_first_cluster *)
LEMMA ClusterMarked ==
  ASSUME NEW s, NEW U, IsState(s, U), NEW T, NEW ent, NEW place, Tidy(s, T, ent, place),
         NEW c \in FreeClusters(s)
  PROVE  LET t == InitFirstCluster(s, c)
         IN  /\ IsState(t, U) /\ Tidy(t, T, ent, place) /\ t.mode = s.mode /\ t.data = s.data
             /\ t.fat = [s.fat EXCEPT ![c] = EOC]
             /\ c \in Clusters /\ s.fat[c] = 0 /\ \A p \in DOMAIN T : ent[p].cluster # c
  <1>1. c \in Clusters /\ s.fat[c] = 0 /\ EOC # 0
    BY FileSystemAssumption DEF FreeClusters
  <1>2. PICK v : v = [s EXCEPT !.fat[c] = EOC]
    OBVIOUS
  <1>3. /\ IsState(v, U) /\ v.fat = [s.fat EXCEPT ![c] = EOC] /\ v.data = s.data /\ v.mode = s.mode
        /\ v.root = s.root /\ v.diskRoot = s.diskRoot /\ v.entries = s.entries /\ v.read = s.read
    BY <1>1, <1>2 DEF IsState
  <1>4. PICK t : t = InitFirstCluster(s, c)
    OBVIOUS
  <1>5. t = Stored(v)
    BY <1>2, <1>4 DEF InitFirstCluster
  <1>6. /\ IsState(t, U) /\ t.fat = [s.fat EXCEPT ![c] = EOC] /\ t.data = s.data /\ t.mode = s.mode
        /\ t.root = s.root /\ t.diskRoot = s.diskRoot /\ t.entries = s.entries /\ t.read = s.read
    BY <1>3, <1>5, StoredIs
  <1>7. \A p \in DOMAIN T : ent[p].cluster # c
    BY <1>1 DEF Tidy, Used
  <1>8. Tidy(t, T, ent, place)
    <2>1. RootIs(t, ent[<<ROOT>>])
      BY <1>6 DEF Tidy, Listed, RootIs
    <2>2. Used(t, T, ent)
      <3>1. ASSUME NEW p \in DOMAIN T PROVE t.fat[ent[p].cluster] = EOC
        <4>1. ent[p].cluster \in Clusters /\ s.fat[ent[p].cluster] = EOC /\ s.fat \in [Clusters -> {0, EOC}]
          BY UnitsApart DEF Tidy, Listed, Named, Used, IsState
        <4> QED
          BY <1>6, <1>7, <4>1
      <3> QED
        BY <3>1 DEF Used
    <2>3. \A p \in DOMAIN T : InSectors(t, T, ent, place, p)
      BY <1>6 DEF Tidy, Listed, InSectors
    <2> QED
      BY <2>1, <2>2, <2>3 DEF Tidy, Listed
  <1> QED
    BY <1>1, <1>4, <1>6, <1>7, <1>8

(* One more entry behind those of a directory. *)
OneMore(T, ent, place, T2, ent2, place2, q, r, i) ==
  /\ r \notin Below(T, q) /\ Below(T2, q) = Below(T, q) \cup {r} /\ place2[r] = i
  /\ \A x \in Below(T, q) : ent2[x] = ent[x] /\ place2[x] = place[x]

LEMMA ListsLonger ==
  ASSUME NEW sec, NEW k, NEW T, NEW ent, NEW place, NEW q, ListsBelow(sec, k, T, ent, place, q),
         k < CLUSTER_SIZE, NEW U, Zero \in U, NEW b \in Seq(U), Len(b) = k + 1,
         \A i \in 1..k : b[i] = sec[i], NEW T2, NEW ent2, NEW place2, NEW r,
         OneMore(T, ent, place, T2, ent2, place2, q, r, k + 1), ent2[r] = b[k + 1]
  PROVE  ListsBelow(Sector(b, k + 1), k + 1, T2, ent2, place2, q)
  <1>1. PICK m, w : m = k + 1 /\ w = Sector(b, k + 1)
    OBVIOUS
  <1>2. k \in Nat /\ m \in Nat /\ m \in 1..CLUSTER_SIZE /\ m = k + 1 /\ CLUSTER_SIZE \in Nat
    BY <1>1, Constants DEF ListsBelow
  <1>3. \A i \in 1..CLUSTER_SIZE : w[i] = IF i > m THEN Zero ELSE b[i]
    BY <1>1, <1>2, SectorIs
  <1>4. ASSUME NEW x \in Below(T2, q) PROVE place2[x] \in 1..m /\ w[place2[x]] = ent2[x]
    <2>1. CASE x = r
      BY <1>1, <1>2, <1>3, <2>1 DEF OneMore
    <2>2. CASE x # r
      <3>1. place[x] \in 1..k /\ sec[place[x]] = ent[x] /\ ent2[x] = ent[x] /\ place2[x] = place[x]
        BY <2>2 DEF ListsBelow, OneMore
      <3>2. place[x] \in 1..CLUSTER_SIZE /\ ~(place[x] > m) /\ place[x] \in 1..m
        BY <1>2, <3>1
      <3> QED
        BY <1>3, <3>1, <3>2
    <2> QED
      BY <2>1, <2>2
  <1>5. ASSUME NEW i \in 1..m PROVE \E x \in Below(T2, q) : place2[x] = i
    <2>1. CASE i = m
      BY <1>1, <2>1 DEF OneMore
    <2>2. CASE i # m
      <3>1. i \in 1..k
        BY <1>2, <2>2
      <3> QED
        BY <3>1 DEF ListsBelow, OneMore
    <2> QED
      BY <2>1, <2>2
  <1>6. ASSUME NEW i \in m + 1..CLUSTER_SIZE PROVE w[i] = Zero
    BY <1>2, <1>3
  <1>7. m \in 0..CLUSTER_SIZE
    BY <1>2
  <1> QED
    BY <1>1, <1>4, <1>5, <1>6, <1>7 DEF ListsBelow

(* The entries and places after file was entered into q. *)
EntriesWith(T, ent, q, file) ==
  [p \in DOMAIN T \cup {Append(q, file.name)} |->
     IF p = Append(q, file.name) THEN file
     ELSE IF p = q THEN Resized(ent[q], ent[q].size + 1) ELSE ent[p]]

PlacesWith(T, ent, place, q, file) ==
  [p \in DOMAIN T \cup {Append(q, file.name)} |->
     IF p = Append(q, file.name) THEN ent[q].size + 1 ELSE place[p]]

LEMMA EnteredTidy ==
  ASSUME NEW s, NEW U, IsState(s, U), s.read, NEW T, NEW ent, NEW place, Tidy(s, T, ent, place),
         NEW q \in DOMAIN T, Last(q) \in DirNames, Len(q) <= MaxDepth, ent[q].size < CLUSTER_SIZE,
         NEW file \in Inode, file.name \in Names, file.size = 0, s.fat[file.cluster] = EOC,
         \A p \in DOMAIN T : ent[p].cluster # file.cluster, Append(q, file.name) \notin DOMAIN T
  PROVE  LET t == Entered(s, file, q)
         IN  /\ IsState(t, U) /\ t.fat = s.fat /\ t.mode = s.mode
             /\ Tidy(t, Grown(T, Append(q, file.name), <<>>), EntriesWith(T, ent, q, file),
                     PlacesWith(T, ent, place, q, file))
  <1>1. PICK t, r, T2, ent2, place2 :
          /\ t = Entered(s, file, q) /\ r = Append(q, file.name) /\ T2 = Grown(T, r, <<>>)
          /\ ent2 = EntriesWith(T, ent, q, file) /\ place2 = PlacesWith(T, ent, place, q, file)
    OBVIOUS
  <1>2. PICK k, c, sec : k = ent[q].size /\ c = ent[q].cluster /\ sec = s.data[ent[q].cluster]
    OBVIOUS
  <1>3. /\ Shape(T) /\ Named(T, ent) /\ Ready(s, T, ent, place, q) /\ ent[q] \in Inode
        /\ ListsBelow(sec, k, T, ent, place, q) /\ file.name \in Names
    BY <1>2, ReadyFor, UnitsApart DEF Tidy, Listed, Named, InSectors
  <1>4. k \in Nat /\ k < CLUSTER_SIZE /\ k <= CLUSTER_SIZE /\ k + 1 \in Nat /\ c \in Clusters /\ c # file.cluster
    BY <1>2, <1>3, UnitsApart, Constants DEF ListsBelow
  <1>5. PICK old : old = Content(s, ent[q])
    OBVIOUS
  <1>6. old \in Seq(U) /\ Len(old) = k /\ \A i \in 1..k : old[i] = sec[i]
    BY <1>2, <1>3, <1>4, <1>5, ContentIs
  <1>7. PICK b : b = Append(old, file)
    OBVIOUS
  <1>8. file \in U /\ Zero \in U
    BY DEF IsState
  <1>9. b \in Seq(U) /\ Len(b) = k + 1 /\ b[k + 1] = file /\ \A i \in 1..k : b[i] = sec[i]
    BY <1>4, <1>6, <1>7, <1>8
  <1>10. DirEdited(t, s, U, ent, place, q, b)
    <2>1. PICK nav : nav = Navigate(s, q)
      OBVIOUS
    <2>2. nav.end = "open" /\ Current(nav) = ent[q]
      BY <1>3, <2>1, FindDir
    <2>3. ent[q] # NoFile
      BY <1>3, UnitsApart
    <2>4. t = EditDirectory(s, nav, q, b)
      BY <1>1, <1>5, <1>7, <2>1, <2>2, <2>3 DEF Entered, IsStray
    <2> QED
      BY <1>9, <2>1, <2>4, EditDirectoryIs DEF Tidy
  <1>11. /\ DOMAIN T2 = DOMAIN T \cup {r} /\ T2[r] = <<>> /\ r \notin DOMAIN T /\ q # r
         /\ \A p \in DOMAIN T : T2[p] = T[p]
    BY <1>1 DEF Grown
  <1>12. /\ ent2[r] = file /\ ent2[q] = Resized(ent[q], k + 1) /\ place2[r] = k + 1
         /\ \A p \in DOMAIN T : (p # q => ent2[p] = ent[p]) /\ place2[p] = place[p]
    BY <1>1, <1>2, <1>11 DEF EntriesWith, PlacesWith
  <1>13. /\ ent2[q] \in Inode /\ ent2[q].name = ent[q].name /\ ent2[q].cluster = c /\ ent2[q].size = k + 1
    <2>1. PICK u, m : u = ent[q] /\ m = k + 1
      OBVIOUS
    <2>2. u \in Inode /\ m \in Nat
      BY <1>3, <1>4, <2>1
    <2>3. Resized(u, m) \in Inode /\ Resized(u, m).name = u.name /\ Resized(u, m).cluster = u.cluster
          /\ Resized(u, m).size = m
      BY <2>2, ResizedIs
    <2> QED
      BY <1>2, <1>12, <2>1, <2>3
  <1>14. /\ Shape(T2) /\ Below(T2, r) = {} /\ Below(T2, q) = Below(T, q) \cup {r}
         /\ \A x \in DOMAIN T : Len(x) > 1 => Front(x) # r
    BY <1>1, <1>3, <1>11, ShapeGrown
  <1>15. Front(r) = q /\ Last(r) = file.name
    BY <1>1, <1>3, PathTyped, AppendIs
  <1>16. Around(T, ent, place, T2, ent2, place2, q)
    BY <1>11, <1>12, <1>15 DEF Around
  <1>17. /\ RootIs(t, ent2[<<ROOT>>])
         /\ \A p \in DOMAIN T \cap DOMAIN T2 : p # q => InSectors(t, T2, ent2, place2, p)
    <2>1. Len(b) \in Nat /\ ent2[q] = Resized(ent[q], Len(b)) /\ q \in DOMAIN T2
      BY <1>4, <1>9, <1>11, <1>12
    <2> QED
      BY <1>10, <1>14, <1>16, <2>1, OthersListed DEF Tidy
  <1>18. IsState(t, U) /\ t.fat = s.fat /\ t.mode = s.mode
    BY <1>10 DEF DirEdited
  <1>19. Named(T2, ent2)
    <2>1. \A p \in DOMAIN T : ent2[p] \in Inode /\ ent2[p].name = Last(p) /\ ent2[p].cluster = ent[p].cluster
      BY <1>2, <1>3, <1>12, <1>13 DEF Named
    <2>2. \A p \in DOMAIN T2 : ent2[p] \in Inode /\ ent2[p].name = Last(p)
      BY <1>3, <1>11, <1>12, <1>15, <2>1 DEF Named
    <2>3. ASSUME NEW p \in DOMAIN T2, NEW x \in DOMAIN T2, ent2[p].cluster = ent2[x].cluster PROVE p = x
      <3>1. CASE p = r
        BY <1>11, <1>12, <2>1, <2>3, <3>1
      <3>2. CASE x = r
        BY <1>11, <1>12, <2>1, <2>3, <3>2
      <3>3. CASE p # r /\ x # r
        BY <1>3, <1>11, <2>1, <2>3, <3>3 DEF Named
      <3> QED
        BY <3>1, <3>2, <3>3
    <2> QED
      BY <2>2, <2>3 DEF Named
  <1>20. InSectors(t, T2, ent2, place2, q)
    <2>1. t.data[c] = Sector(b, k + 1)
      <3>1. Len(b) # 0
        BY <1>4, <1>9
      <3> QED
        BY <1>2, <1>4, <1>9, <1>10, <3>1 DEF DirEdited
    <2>2. \A x \in Below(T, q) : ent2[x] = ent[x] /\ place2[x] = place[x]
      <3>1. ASSUME NEW x \in Below(T, q) PROVE x \in DOMAIN T /\ x # q
        <4>1. x \in DOMAIN T /\ Front(x) = q /\ Len(x) > 1
          BY DEF Below
        <4>2. x \in Seq(Names) /\ Len(x) \in Nat \ {0}
          BY <1>3, <4>1, PathTyped
        <4>3. Front(x) \in Seq(Names) /\ Len(Front(x)) = Len(x) - 1
          BY ONLY <4>2, FrontIs
        <4>4. x # q
          BY ONLY <4>1, <4>2, <4>3
        <4> QED
          BY <4>1, <4>4
      <3> QED
        BY <1>12, <3>1
    <2>3. r \notin Below(T, q) /\ ent2[r] = b[k + 1]
      BY <1>9, <1>11, <1>12 DEF Below
    <2>4. ListsBelow(Sector(b, k + 1), k + 1, T2, ent2, place2, q)
      <3>1. OneMore(T, ent, place, T2, ent2, place2, q, r, k + 1)
        BY <1>12, <1>14, <2>2, <2>3 DEF OneMore
      <3> QED
        BY <1>3, <1>4, <1>8, <1>9, <2>3, <3>1, ListsLonger
    <2>5. Last(q) \notin FileNames
      BY FileSystemAssumption
    <2> QED
      BY <1>13, <2>1, <2>4, <2>5 DEF InSectors
  <1>21. InSectors(t, T2, ent2, place2, r)
    <2>1. ListsBelow(t.data[file.cluster], 0, T2, ent2, place2, r)
      <3>1. 0 \in 0..CLUSTER_SIZE /\ \A i \in 1..0 : FALSE
        BY Constants
      <3> QED
        BY <1>14, <3>1 DEF ListsBelow
    <2>2. HoldsText(t.data[file.cluster], 0, <<>>)
      BY DEF HoldsText
    <2> QED
      BY <1>11, <1>12, <2>1, <2>2 DEF InSectors
  <1>22. \A p \in DOMAIN T2 : InSectors(t, T2, ent2, place2, p)
    BY <1>11, <1>17, <1>20, <1>21
  <1>23. Used(t, T2, ent2)
    <2>1. \A p \in DOMAIN T : s.fat[ent[p].cluster] = EOC
      BY DEF Tidy, Used
    <2> QED
      BY <1>2, <1>11, <1>12, <1>13, <1>18, <2>1 DEF Used
  <1> QED
    BY <1>1, <1>14, <1>17, <1>18, <1>19, <1>22, <1>23 DEF Tidy, Listed

NewFile(s, n) == [name |-> n, cluster |-> Smallest(FreeClusters(s)), size |-> 0]

LEMMA CreatedTidy ==
  ASSUME NEW s, NEW U, IsState(s, U), NEW T, NEW ent, NEW place, Tidy(s, T, ent, place),
         NEW q \in DOMAIN T, Last(q) \in DirNames, Len(q) <= MaxDepth, ent[q].size < CLUSTER_SIZE,
         NEW n \in Names \ Misread, Append(q, n) \notin DOMAIN T, FreeClusters(s) # {}
  PROVE  LET t == Created(s, n, q)
             T2 == Grown(T, Append(q, n), <<>>)
             ent2 == EntriesWith(T, ent, q, NewFile(s, n))
         IN  /\ IsState(t, U) /\ t.mode = s.mode
             /\ Tidy(t, T2, ent2, PlacesWith(T, ent, place, q, NewFile(s, n)))
             /\ Unreached(t, T2, ent2) = Unreached(s, T, ent)
  <1>1. PICK c : c = Smallest(FreeClusters(s))
    OBVIOUS
  <1>2. c \in FreeClusters(s) /\ c \in Clusters
    <2>1. FreeClusters(s) \subseteq Clusters /\ FreeClusters(s) \subseteq Nat
      BY Constants DEF FreeClusters
    <2> QED
      BY <1>1, <2>1, SmallestIn
  <1>3. PICK file, r : file = NewFile(s, n) /\ r = Append(q, n)
    OBVIOUS
  <1>4. file \in Inode /\ file.name = n /\ file.cluster = c /\ file.size = 0
        /\ file = [name |-> NameRead(n), cluster |-> c, size |-> 0]
    BY <1>1, <1>2, <1>3 DEF NewFile, Inode, NameRead
  <1>5. PICK s1 : s1 = InitFirstCluster(s, c)
    OBVIOUS
  <1>6. /\ IsState(s1, U) /\ Tidy(s1, T, ent, place) /\ s1.mode = s.mode
        /\ s1.fat = [s.fat EXCEPT ![c] = EOC] /\ s.fat[c] = 0 /\ \A p \in DOMAIN T : ent[p].cluster # c
    BY <1>2, <1>5, ClusterMarked
  <1>7. PICK s2 : s2 = Loaded(s1)
    OBVIOUS
  <1>8. IsState(s2, U) /\ Tidy(s2, T, ent, place) /\ s2.read /\ s2.fat = s1.fat /\ s2.mode = s.mode
    BY <1>6, <1>7, TidyLoaded
  <1>9. s2.fat[c] = EOC
    BY <1>2, <1>6, <1>8 DEF IsState
  <1>10. PICK t : t = Created(s, n, q)
    OBVIOUS
  <1>11. t = Entered(s2, file, q)
    BY <1>1, <1>4, <1>5, <1>7, <1>10 DEF Created
  <1>12. /\ IsState(t, U) /\ t.fat = s2.fat /\ t.mode = s2.mode
         /\ Tidy(t, Grown(T, r, <<>>), EntriesWith(T, ent, q, file), PlacesWith(T, ent, place, q, file))
    <2>1. PICK m : m = file.name
      OBVIOUS
    <2>2. Append(q, m) = r /\ Append(q, file.name) \notin DOMAIN T /\ Append(q, file.name) = r
      BY <1>3, <1>4, <2>1
    <2>3. /\ file.size = 0 /\ s2.fat[file.cluster] = EOC /\ file.name \in Names
          /\ \A p \in DOMAIN T : ent[p].cluster # file.cluster
      BY <1>4, <1>6, <1>9
    <2>4. /\ IsState(t, U) /\ t.fat = s2.fat /\ t.mode = s2.mode
          /\ Tidy(t, Grown(T, Append(q, file.name), <<>>), EntriesWith(T, ent, q, file),
                  PlacesWith(T, ent, place, q, file))
      BY <1>4, <1>8, <1>11, <2>2, <2>3, EnteredTidy
    <2> QED
      BY <2>2, <2>4
  <1>13. PICK T2, ent2 : T2 = Grown(T, r, <<>>) /\ ent2 = EntriesWith(T, ent, q, file)
    OBVIOUS
  <1>14. Unreached(t, T2, ent2) = Unreached(s, T, ent)
    <2>1. t.fat = [s.fat EXCEPT ![c] = EOC] /\ EOC # 0 /\ s.fat \in [Clusters -> {0, EOC}]
      BY <1>6, <1>8, <1>12, FileSystemAssumption DEF IsState
    <2>2. DOMAIN T2 = DOMAIN T \cup {r}
      BY <1>13 DEF Grown
    <2>3. ent2[r] = file /\ r \in DOMAIN T2 /\ \A p \in DOMAIN T : ent2[p].cluster = ent[p].cluster
      <3>1. ent[q] \in Inode /\ ent[q].size + 1 \in Nat
        BY UnitsApart DEF Tidy, Listed, Named
      <3>2. Resized(ent[q], ent[q].size + 1).cluster = ent[q].cluster
        BY <3>1, ResizedIs
      <3>3. \A p \in DOMAIN T : p # r
        BY <1>3
      <3> QED
        BY <1>3, <1>4, <1>13, <2>2, <3>2, <3>3 DEF EntriesWith
    <2>4. {ent2[p].cluster : p \in DOMAIN T2} = {ent[p].cluster : p \in DOMAIN T} \cup {c}
      BY <1>4, <2>2, <2>3
    <2>5. {x \in Clusters : t.fat[x] # 0} = {x \in Clusters : s.fat[x] # 0} \cup {c}
      BY <1>2, <2>1
    <2> QED
      BY <1>6, <2>4, <2>5 DEF Unreached
  <1> QED
    BY <1>3, <1>8, <1>10, <1>12, <1>13, <1>14

(***************************************************************************)
(* An entry is changed in its place, and the sector written                *)
(***************************************************************************)
LEMMA SectorKept ==
  ASSUME NEW U, Zero \in U, NEW b \in [1..CLUSTER_SIZE -> U], NEW k \in 1..CLUSTER_SIZE,
         \A i \in k + 1..CLUSTER_SIZE : b[i] = Zero
  PROVE  Sector(b, k) = b
  <1>1. CLUSTER_SIZE \in Nat /\ k \in Nat
    BY Constants
  <1>2. b \in Seq(U) /\ Len(b) = CLUSTER_SIZE
    BY <1>1, FunctionIsSeq
  <1>3. PICK f : f = Sector(b, k)
    OBVIOUS
  <1>4. k <= Len(b)
    BY <1>1, <1>2
  <1>5. f \in [1..CLUSTER_SIZE -> U] /\ \A i \in 1..CLUSTER_SIZE : f[i] = IF i > k THEN Zero ELSE b[i]
    BY <1>1, <1>2, <1>3, <1>4, SectorIs
  <1>6. \A i \in 1..CLUSTER_SIZE : f[i] = b[i]
    BY <1>1, <1>5
  <1>7. PICK D : D = 1..CLUSTER_SIZE
    OBVIOUS
  <1>8. f \in [D -> U] /\ b \in [D -> U] /\ \A i \in D : f[i] = b[i]
    BY <1>5, <1>6, <1>7
  <1>9. f = b
    <2>1. f = [i \in D |-> f[i]] /\ b = [i \in D |-> b[i]]
      BY <1>8
    <2>2. [i \in D |-> f[i]] = [i \in D |-> b[i]]
      BY <1>8
    <2> QED
      BY <2>1, <2>2
  <1> QED
    BY <1>3, <1>9

Padded(b, k) == k \in 1..CLUSTER_SIZE /\ \A i \in k + 1..CLUSTER_SIZE : b[i] = Zero

LEMMA StaysPadded ==
  ASSUME NEW sec, NEW k, NEW T, NEW ent, NEW place, NEW q, ListsBelow(sec, k, T, ent, place, q),
         NEW x \in Below(T, q), NEW b, \A i \in 1..CLUSTER_SIZE : i # place[x] => b[i] = sec[i]
  PROVE  Padded(b, k)
  <1>1. CLUSTER_SIZE \in Nat /\ k \in 0..CLUSTER_SIZE /\ place[x] \in 1..k
    BY Constants DEF ListsBelow
  <1>2. k \in 1..CLUSTER_SIZE /\ k > 0 /\ k \in Nat
    BY <1>1
  <1>3. ASSUME NEW i \in k + 1..CLUSTER_SIZE PROVE b[i] = Zero
    <2>1. i # place[x] /\ i \in 1..CLUSTER_SIZE
      BY <1>1, <1>2
    <2> QED
      BY <1>2, <2>1 DEF ListsBelow
  <1> QED
    BY <1>2, <1>3 DEF Padded

LEMMA EntryEdited ==
  ASSUME NEW s, NEW U, IsState(s, U), NEW dir \in Inode, NEW b \in [1..CLUSTER_SIZE -> U], Padded(b, dir.size)
  PROVE  /\ IsState(EditFile(s, dir, b, dir.size), U) /\ SameOutside(EditFile(s, dir, b, dir.size), s)
         /\ EditFile(s, dir, b, dir.size).data = [s.data EXCEPT ![dir.cluster] = b]
  <1>1. PICK k : k = dir.size
    OBVIOUS
  <1>2. CLUSTER_SIZE \in Nat /\ Zero \in U
    BY Constants DEF IsState
  <1>3. k \in 1..CLUSTER_SIZE /\ k > 0 /\ k \in Nat
    BY <1>1, <1>2 DEF Padded
  <1>4. Sector(b, k) = b
    BY <1>1, <1>2, <1>3, SectorKept DEF Padded
  <1>5. b \in Seq(U) /\ k <= Len(b)
    BY <1>2, <1>3, FunctionIsSeq
  <1>6. /\ IsState(EditFile(s, dir, b, k), U) /\ SameOutside(EditFile(s, dir, b, k), s)
        /\ k > 0 => EditFile(s, dir, b, k).data = [s.data EXCEPT ![dir.cluster] = Sector(b, k)]
    <2>1. PICK u : u = dir
      OBVIOUS
    <2>2. u \in Inode /\ k \in Nat /\ k <= Len(b) /\ b \in Seq(U)
      BY <1>3, <1>5, <2>1
    <2>3. /\ IsState(EditFile(s, u, b, k), U) /\ SameOutside(EditFile(s, u, b, k), s)
          /\ k > 0 => EditFile(s, u, b, k).data = [s.data EXCEPT ![u.cluster] = Sector(b, k)]
      BY <2>2, EditIs
    <2> QED
      BY <2>1, <2>3
  <1> QED
    BY <1>1, <1>3, <1>4, <1>6

(***************************************************************************)
(* write_file                                                              *)
(***************************************************************************)
(* The directory, entry and place of a file. *)
LEMMA FileDirectory ==
  ASSUME NEW s, NEW U, IsState(s, U), s.read, NEW T, NEW ent, NEW place, Tidy(s, T, ent, place),
         NEW p \in DOMAIN T, Last(p) \in FileNames
  PROVE  LET q == Front(p)
         IN  /\ q \in DOMAIN T /\ Last(q) \in DirNames /\ p # q /\ p \in Below(T, q) /\ Append(q, Last(p)) = p
             /\ Navigate(s, p).end = "file" /\ Current(Navigate(s, p)) = ent[q]
             /\ Directory(s, p, Last(p)).end = "file"
             /\ ReadFile(s, ent[q]) = s.data[ent[q].cluster] /\ SizeOf(s, ent[q]) = ent[q].size
             /\ Find(ReadFile(s, ent[q]), ent[q].size, Last(p)) = place[p]
             /\ place[p] # 0 /\ s.data[ent[q].cluster][place[p]] = ent[p]
             /\ ListsBelow(s.data[ent[q].cluster], ent[q].size, T, ent, place, q)
  <1>1. PICK q, n : q = Front(p) /\ n = Last(p)
    OBVIOUS
  <1>2. p \in Seq(Names) /\ Len(p) \in Nat \ {0} /\ n \in Names /\ Shape(T) /\ Named(T, ent)
    BY <1>1, PathTyped DEF Tidy, Listed
  <1>3. Len(p) # 1
    <2>1. ASSUME Len(p) = 1 PROVE FALSE
      <3>1. p = <<ROOT>>
        BY <1>2, <2>1, PathTyped
      <3>2. Last(p) = ROOT
        BY <3>1 DEF Last
      <3> QED
        BY <3>2, FileSystemAssumption
    <2> QED
      BY <2>1
  <1>4. Len(p) > 1 /\ Len(p) > 0
    <2>1. PICK l \in Nat \ {0} : l = Len(p)
      BY <1>2
    <2> QED
      BY <1>3, <2>1
  <1>5. q \in Seq(Names) /\ Len(q) = Len(p) - 1 /\ Append(q, n) = p
    BY <1>1, <1>2, <1>4, FrontIs
  <1>6. q \in DOMAIN T /\ Last(q) \in DirNames /\ p # q /\ p \in Below(T, q)
    BY <1>1, <1>2, <1>4, <1>5 DEF Shape, Below
  <1>7. Ready(s, T, ent, place, q)
    BY <1>6, ReadyFor DEF Tidy
  <1>8. Navigate(s, p).end = "file" /\ Current(Navigate(s, p)) = ent[q]
    <2>1. n \in FileNames
      BY <1>1
    <2>2. Navigate(s, Append(q, n)).end = "file" /\ Current(Navigate(s, Append(q, n))) = ent[q]
      BY <1>2, <1>6, <1>7, <2>1, FindFileDir
    <2> QED
      BY <1>5, <2>2
  <1>9. ListsBelow(s.data[ent[q].cluster], ent[q].size, T, ent, place, q)
    BY <1>6 DEF Tidy, Listed, InSectors
  <1>10. /\ ReadFile(s, ent[q]) = s.data[ent[q].cluster] /\ place[p] \in 1..ent[q].size
         /\ Find(ReadFile(s, ent[q]), SizeOf(s, ent[q]), n) = place[p]
         /\ s.data[ent[q].cluster][place[p]] = ent[p]
         /\ ~ReadsText(ReadFile(s, ent[q]), SizeOf(s, ent[q]), n)
    <2>1. Append(q, n) \in DOMAIN T
      BY <1>5
    <2>2. /\ ReadFile(s, ent[q]) = s.data[ent[q].cluster]
          /\ Find(ReadFile(s, ent[q]), SizeOf(s, ent[q]), n) = place[Append(q, n)]
          /\ place[Append(q, n)] \in 1..ent[q].size
          /\ ReadFile(s, ent[q])[place[Append(q, n)]] = ent[Append(q, n)]
          /\ ~ReadsText(ReadFile(s, ent[q]), SizeOf(s, ent[q]), n)
      BY <1>2, <1>6, <2>1, FindListed DEF Tidy
    <2> QED
      BY <1>5, <2>2
  <1>11. SizeOf(s, ent[q]) = ent[q].size /\ place[p] # 0
    BY <1>2, <1>6, <1>10, UnitsApart DEF SizeOf, Named
  <1>12. Directory(s, p, n).end = "file"
    BY <1>8, <1>10 DEF Directory, LookedIn
  <1> QED
    BY <1>1, <1>5, <1>6, <1>8, <1>9, <1>10, <1>11, <1>12

(* A file in a state whose tree has another text for it. *)
KeptBut(T, ent, place, T2, ent2, place2, p) ==
  /\ DOMAIN T2 = DOMAIN T
  /\ \A x \in DOMAIN T : place2[x] = place[x] /\ (x # p => ent2[x] = ent[x] /\ T2[x] = T[x])

LEMMA OthersKept ==
  ASSUME NEW T, NEW ent, NEW place, NEW p, NEW T2, NEW ent2, NEW place2,
         KeptBut(T, ent, place, T2, ent2, place2, p), NEW s, NEW t, NEW x \in DOMAIN T, x # p, x # Front(p),
         InSectors(s, T, ent, place, x), t.data[ent[x].cluster] = s.data[ent[x].cluster]
  PROVE  InSectors(t, T2, ent2, place2, x)
  <1>1. PICK k, sec : k = ent[x].size /\ sec = s.data[ent[x].cluster]
    OBVIOUS
  <1>2. /\ Below(T2, x) = Below(T, x)
        /\ \A y \in Below(T, x) : ent2[y] = ent[y] /\ place2[y] = place[y]
    BY DEF Below, KeptBut
  <1>3. ent2[x] = ent[x] /\ T2[x] = T[x]
    BY DEF KeptBut
  <1>4. ASSUME Last(x) \in DirNames PROVE ListsBelow(sec, k, T2, ent2, place2, x)
    <2>1. ListsBelow(sec, k, T, ent, place, x)
      BY <1>1, <1>4 DEF InSectors
    <2> QED
      BY <1>2, <2>1, ListsKept
  <1> QED
    BY <1>1, <1>3, <1>4 DEF InSectors

(* The entry of one file is another one with its name and cluster, and its *)
(* sector holds another text.                                              *)
EntryNow(T, ent, p, f) == [x \in DOMAIN T |-> IF x = p THEN f ELSE ent[x]]

FileNow(t, s, ent, place, p, f, sec) ==
  /\ SameOutside(t, s)
  /\ f \in Inode /\ f.name = ent[p].name /\ f.cluster = ent[p].cluster
  /\ \A c \in Clusters :
       t.data[c] = IF c = ent[p].cluster THEN sec
                   ELSE IF c = ent[Front(p)].cluster THEN [s.data[c] EXCEPT ![place[p]] = f]
                   ELSE s.data[c]

LEMMA FileChanged ==
  ASSUME NEW s, NEW U, IsState(s, U), s.read, NEW T, NEW ent, NEW place, Tidy(s, T, ent, place),
         NEW p \in DOMAIN T, Last(p) \in FileNames, NEW d \in Seq(Bytes), Len(d) < CLUSTER_SIZE,
         NEW f, NEW sec, NEW t, FileNow(t, s, ent, place, p, f, sec), HoldsText(sec, f.size, d)
  PROVE  Tidy(t, [T EXCEPT ![p] = d], EntryNow(T, ent, p, f), place)
  <1>1. PICK q, T2, ent2 : q = Front(p) /\ T2 = [T EXCEPT ![p] = d] /\ ent2 = EntryNow(T, ent, p, f)
    OBVIOUS
  <1>2. /\ DOMAIN T2 = DOMAIN T /\ T2[p] = d /\ ent2[p] = f
        /\ \A x \in DOMAIN T : x # p => T2[x] = T[x] /\ ent2[x] = ent[x]
    BY <1>1 DEF EntryNow
  <1>3. /\ Shape(T) /\ Named(T, ent) /\ Used(s, T, ent) /\ RootIs(s, ent[<<ROOT>>])
        /\ \A x \in DOMAIN T : InSectors(s, T, ent, place, x)
    BY DEF Tidy, Listed
  <1>4. /\ q \in DOMAIN T /\ Last(q) \in DirNames /\ p # q /\ p \in Below(T, q)
        /\ ListsBelow(s.data[ent[q].cluster], ent[q].size, T, ent, place, q)
    BY <1>1, FileDirectory
  <1>5. Last(p) \notin DirNames /\ Last(q) \notin FileNames
    BY <1>4, FileSystemAssumption
  <1>6. \A x \in DOMAIN T : ent[x] \in Inode /\ ent[x].cluster \in Clusters
    BY <1>3, UnitsApart DEF Named
  <1>7. \A x, y \in DOMAIN T : ent[x].cluster = ent[y].cluster => x = y
    BY <1>3 DEF Named
  <1>8. Shape(T2)
    BY <1>2, <1>3, <1>5 DEF Shape
  <1>9. Named(T2, ent2) /\ Used(t, T2, ent2)
    <2>1. t.fat = s.fat /\ f \in Inode /\ f.name = ent[p].name /\ f.cluster = ent[p].cluster
      BY DEF FileNow, SameOutside
    <2>2. \A x \in DOMAIN T : ent2[x] \in Inode /\ ent2[x].name = ent[x].name /\ ent2[x].cluster = ent[x].cluster
      BY <1>2, <1>6, <2>1
    <2> QED
      BY <1>2, <1>3, <2>1, <2>2 DEF Named, Used
  <1>10. RootIs(t, ent2[<<ROOT>>])
    <2>1. <<ROOT>> # p /\ <<ROOT>> \in DOMAIN T
      <3>1. Last(<<ROOT>>) = ROOT
        BY DEF Last
      <3> QED
        BY <1>3, <1>5, <3>1, FileSystemAssumption DEF Shape
    <2> QED
      BY <1>2, <1>3, <2>1 DEF RootIs, FileNow, SameOutside
  <1>11. InSectors(t, T2, ent2, place, p)
    <2>1. t.data[f.cluster] = sec
      BY <1>6 DEF FileNow
    <2> QED
      BY <1>2, <1>5, <2>1 DEF InSectors
  <1>12. InSectors(t, T2, ent2, place, q)
    <2>1. PICK old, k : old = s.data[ent[q].cluster] /\ k = ent[q].size
      OBVIOUS
    <2>2. t.data[ent[q].cluster] = [old EXCEPT ![place[p]] = f]
      BY <1>1, <1>4, <1>6, <1>7, <2>1 DEF FileNow
    <2>3. DOMAIN old = 1..CLUSTER_SIZE
      BY <1>4, <1>6, <2>1 DEF IsState
    <2>4. ListsBelow(old, k, T, ent, place, q)
      BY <1>4, <2>1
    <2>5. \A x \in Below(T, q) : place[x] = place[p] => x = p
      BY <1>3, <1>4, <2>4, PlacesApart
    <2>6. Below(T2, q) = Below(T, q) /\ Below(T, q) \subseteq DOMAIN T
      BY <1>2 DEF Below
    <2>7. InPlaceOf(T, ent, place, T2, ent2, place, q, p, p)
      BY <1>2, <1>4, <2>5, <2>6 DEF InPlaceOf
    <2>8. ListsBelow([old EXCEPT ![place[p]] = ent2[p]], k, T2, ent2, place, q)
      BY <2>3, <2>4, <2>7, ListsReplaced
    <2> QED
      BY <1>2, <1>4, <1>5, <2>1, <2>2, <2>8 DEF InSectors
  <1>13. ASSUME NEW x \in DOMAIN T, x # p, x # q PROVE InSectors(t, T2, ent2, place, x)
    <2>1. t.data[ent[x].cluster] = s.data[ent[x].cluster]
      BY <1>1, <1>4, <1>6, <1>7, <1>13 DEF FileNow
    <2>2. KeptBut(T, ent, place, T2, ent2, place, p)
      BY <1>2 DEF KeptBut
    <2> QED
      BY <1>1, <1>3, <1>13, <2>1, <2>2, OthersKept
  <1> QED
    BY <1>1, <1>2, <1>8, <1>9, <1>10, <1>11, <1>12, <1>13 DEF Tidy, Listed

LEMMA WrittenTidy ==
  ASSUME NEW s0, NEW U, IsState(s0, U), NEW T, NEW ent, NEW place, Tidy(s0, T, ent, place),
         NEW p \in DOMAIN T, Last(p) \in FileNames, NEW d \in Seq(Bytes), Len(d) < CLUSTER_SIZE
  PROVE  LET t == Written(s0, p, d)
             ent2 == EntryNow(T, ent, p, Resized(ent[p], Len(d)))
         IN  /\ IsState(t, U) /\ t.mode = s0.mode /\ t.fat = s0.fat
             /\ Tidy(t, [T EXCEPT ![p] = d], ent2, place)
             /\ Unreached(t, [T EXCEPT ![p] = d], ent2) = Unreached(s0, T, ent)
  <1>1. PICK s, q, t, m : s = Loaded(s0) /\ q = Front(p) /\ t = Written(s0, p, d) /\ m = Len(d)
    OBVIOUS
  <1>2. IsState(s, U) /\ Tidy(s, T, ent, place) /\ s.read /\ s.fat = s0.fat /\ s.mode = s0.mode
    BY <1>1, TidyLoaded
  <1>3. PICK sec, k, c, i, f : /\ sec = s.data[ent[q].cluster] /\ k = ent[q].size /\ c = ent[q].cluster
                               /\ i = place[p] /\ f = Resized(ent[p], m)
    OBVIOUS
  <1>4. /\ q \in DOMAIN T /\ Last(q) \in DirNames /\ p # q /\ p \in Below(T, q)
        /\ Current(Navigate(s, p)) = ent[q] /\ Directory(s, p, Last(p)).end = "file"
        /\ ReadFile(s, ent[q]) = sec /\ SizeOf(s, ent[q]) = k
        /\ Find(sec, k, Last(p)) = i
        /\ i # 0 /\ sec[i] = ent[p] /\ ListsBelow(sec, k, T, ent, place, q)
    BY <1>1, <1>2, <1>3, FileDirectory
  <1>5. /\ ent[p] \in Inode /\ ent[q] \in Inode /\ ent[p].cluster \in Clusters /\ c \in Clusters
        /\ c # ent[p].cluster
    BY <1>2, <1>3, <1>4, UnitsApart DEF Tidy, Listed, Named
  <1>6. m \in Nat /\ m < CLUSTER_SIZE /\ CLUSTER_SIZE \in Nat
    BY <1>1, Constants
  <1>7. f \in Inode /\ f.name = ent[p].name /\ f.cluster = ent[p].cluster /\ f.size = m /\ f \in U
    BY <1>3, <1>5, <1>6, ResizedIs DEF IsState
  <1>8. PICK s1, b : s1 = EditFile(s, ent[p], d, m) /\ b = [sec EXCEPT ![i] = f]
    OBVIOUS
  <1>9. t = EditFile(s1, ent[q], b, k)
    <2>1. PICK dir : dir = Directory(s, p, Last(p))
      OBVIOUS
    <2>2. /\ dir.end = "file" /\ dir.file = ent[q] /\ dir.buffer = sec /\ dir.at = i
      BY <1>4, <2>1 DEF Directory, LookedIn
    <2>3. t = EditFile(EditFile(s, dir.buffer[dir.at], d, m), dir.file,
                       [dir.buffer EXCEPT ![dir.at] = Resized(dir.buffer[dir.at], m)], SizeOf(s, dir.file))
      BY <1>1, <1>4, <2>1, <2>2 DEF Written, IsStray
    <2> QED
      BY <1>3, <1>4, <1>8, <2>2, <2>3
  <1>10. d \in Seq(U) /\ m <= Len(d)
    BY <1>1, <1>6 DEF IsState
  <1>11. /\ IsState(s1, U) /\ SameOutside(s1, s)
         /\ m = 0 => s1.data = s.data
         /\ m > 0 => s1.data = [s.data EXCEPT ![ent[p].cluster] = Sector(d, m)]
    BY <1>2, <1>5, <1>6, <1>8, <1>10, EditIs
  <1>12. DOMAIN s.data = Clusters /\ DOMAIN s1.data = Clusters
    BY <1>2, <1>11 DEF IsState
  <1>13. s1.data[c] = sec
    BY <1>3, <1>5, <1>6, <1>11, <1>12
  <1>14. IsState(t, U) /\ SameOutside(t, s1) /\ t.data = [s1.data EXCEPT ![c] = b]
    <2>1. PICK dir : dir = ent[q]
      OBVIOUS
    <2>2. ListsBelow(s1.data[dir.cluster], dir.size, T, ent, place, q) /\ dir \in Inode
      BY <1>3, <1>4, <1>5, <1>13, <2>1
    <2>3. sec \in [1..CLUSTER_SIZE -> U]
      BY <1>2, <1>3, <1>5 DEF IsState
    <2>4. b \in [1..CLUSTER_SIZE -> U]
      BY <1>7, <1>8, <2>3
    <2>5. ASSUME NEW j \in 1..CLUSTER_SIZE, j # place[p] PROVE b[j] = s1.data[dir.cluster][j]
      BY <1>3, <1>8, <1>13, <2>1, <2>3, <2>5
    <2>6. Padded(b, dir.size)
      BY <1>4, <2>2, <2>5, StaysPadded
    <2>7. /\ IsState(EditFile(s1, dir, b, dir.size), U) /\ SameOutside(EditFile(s1, dir, b, dir.size), s1)
          /\ EditFile(s1, dir, b, dir.size).data = [s1.data EXCEPT ![dir.cluster] = b]
      BY <1>11, <2>2, <2>4, <2>6, EntryEdited
    <2> QED
      BY <1>3, <1>9, <2>1, <2>7
  <1>15. PICK text : text = t.data[ent[p].cluster]
    OBVIOUS
  <1>16. SameOutside(t, s)
    BY <1>11, <1>14 DEF SameOutside
  <1>17. text = IF m = 0 THEN s.data[ent[p].cluster] ELSE Sector(d, m)
    BY <1>5, <1>6, <1>11, <1>12, <1>14, <1>15
  <1>18. FileNow(t, s, ent, place, p, f, text)
    <2>1. ASSUME NEW x \in Clusters
          PROVE  t.data[x] = IF x = ent[p].cluster THEN text
                             ELSE IF x = c THEN [s.data[x] EXCEPT ![place[p]] = f] ELSE s.data[x]
      <3>1. CASE x = ent[p].cluster
        BY <1>15, <3>1
      <3>2. CASE x = c
        BY <1>3, <1>5, <1>8, <1>12, <1>14, <3>2
      <3>3. CASE x # ent[p].cluster /\ x # c
        BY <1>6, <1>11, <1>12, <1>14, <3>3
      <3> QED
        BY <3>1, <3>2, <3>3
    <2> QED
      BY <1>1, <1>3, <1>7, <1>16, <2>1 DEF FileNow
  <1>19. HoldsText(text, f.size, d)
    <2>1. m \in 0..Len(d) /\ (m = 0 => d = <<>>)
      BY <1>1, <1>6
    <2>2. ASSUME m > 0 PROVE \A j \in 1..CLUSTER_SIZE : text[j] = IF j <= Len(d) THEN d[j] ELSE Zero
      <3>1. text = Sector(d, m)
        BY <1>6, <1>17, <2>2
      <3>2. Zero \in U
        BY DEF IsState
      <3>3. \A j \in 1..CLUSTER_SIZE : text[j] = IF j > m THEN Zero ELSE d[j]
        BY <1>6, <1>10, <3>1, <3>2, SectorIs
      <3> QED
        BY <1>1, <1>6, <3>3
    <2> QED
      BY <1>7, <2>1, <2>2 DEF HoldsText
  <1>20. Tidy(t, [T EXCEPT ![p] = d], EntryNow(T, ent, p, f), place)
    BY <1>1, <1>2, <1>6, <1>18, <1>19, FileChanged
  <1>21. Unreached(t, [T EXCEPT ![p] = d], EntryNow(T, ent, p, f)) = Unreached(s0, T, ent)
    <2>1. PICK T2, ent2 : T2 = [T EXCEPT ![p] = d] /\ ent2 = EntryNow(T, ent, p, f)
      OBVIOUS
    <2>2. DOMAIN T2 = DOMAIN T /\ \A x \in DOMAIN T : ent2[x].cluster = ent[x].cluster
      BY <1>7, <2>1 DEF EntryNow
    <2>3. t.fat = s0.fat
      BY <1>2, <1>16 DEF SameOutside
    <2>4. Unreached(t, T2, ent2) = Unreached(s0, T, ent)
      BY <2>2, <2>3 DEF Unreached
    <2> QED
      BY <2>1, <2>4
  <1> QED
    BY <1>1, <1>2, <1>3, <1>14, <1>16, <1>20, <1>21 DEF SameOutside

(***************************************************************************)
(* What can be read from a state                                           *)
(***************************************************************************)
EntriesIn(s, f) == EntriesOf(Content(Loaded(s), f))
TextIn(s, f) == Text(ReadFile(Loaded(s), f))

WithinIn(s, pe) ==
  IF pe[2].name \in DirNames THEN {<<Append(pe[1], e.name), e>> : e \in EntriesIn(s, pe[2])} ELSE {}

IsReach(g, s) ==
  g = [k \in 0..MaxDepth |->
        {<<<<ROOT>>, Loaded(s).root[1]>>}
          \cup IF k = 0 THEN {} ELSE UNION {WithinIn(s, pe) : pe \in g[k - 1]}]

ReachedIn(s) == (CHOOSE g : IsReach(g, s))[MaxDepth]

OnDiskIn(s) ==
  LET reached == ReachedIn(s)
      file(p) == (CHOOSE pe \in reached : pe[1] = p)[2]
  IN  [p \in {pe[1] : pe \in reached} |-> IF Last(p) \in DirNames THEN <<>> ELSE TextIn(s, file(p))]

LEMMA ReachedNow == Reached = ReachedIn(Now) /\ Reached' = ReachedIn(Now')
  <1>1. Reached = ReachedIn(Now)
    BY DEF Reached, ReachedIn, IsReach, WithinIn, Within, EntriesIn, Entries
  <1>2. Reached' = ReachedIn(Now')
    BY DEF Reached, ReachedIn, IsReach, WithinIn, Within, EntriesIn, Entries
  <1> QED
    BY <1>1, <1>2

LEMMA OnDiskNow == OnDisk = OnDiskIn(Now) /\ OnDisk' = OnDiskIn(Now')
  <1>1. OnDisk = OnDiskIn(Now)
    BY ReachedNow DEF OnDisk, OnDiskIn, TextIn, TextOf
  <1>2. OnDisk' = OnDiskIn(Now')
    BY ReachedNow DEF OnDisk, OnDiskIn, TextIn, TextOf
  <1> QED
    BY <1>1, <1>2

LEMMA EntriesInIs ==
  ASSUME NEW s, NEW U, IsState(s, U), NEW T, NEW ent, NEW place, Tidy(s, T, ent, place),
         NEW q \in DOMAIN T, Last(q) \in DirNames
  PROVE  EntriesIn(s, ent[q]) = {ent[r] : r \in Below(T, q)}
  <1>1. PICK t, k, b, sec : /\ t = Loaded(s) /\ k = ent[q].size /\ b = Content(Loaded(s), ent[q])
                            /\ sec = t.data[ent[q].cluster]
    OBVIOUS
  <1>2. IsState(t, U) /\ Tidy(t, T, ent, place)
    BY <1>1, TidyLoaded
  <1>3. ent[q] \in Inode /\ ListsBelow(sec, k, T, ent, place, q) /\ \A p \in DOMAIN T : ent[p] \in Inode
    BY <1>1, <1>2 DEF Tidy, Listed, Named, InSectors
  <1>4. k \in Nat /\ k <= CLUSTER_SIZE
    BY <1>3, Constants DEF ListsBelow
  <1>5. b \in Seq(U) /\ Len(b) = k /\ \A i \in 1..k : b[i] = sec[i]
    BY <1>1, <1>2, <1>3, <1>4, ContentIs
  <1>6. DOMAIN b = 1..k
    BY <1>5
  <1>7. ASSUME NEW r \in Below(T, q) PROVE ent[r] \in EntriesOf(b)
    <2>1. place[r] \in 1..k /\ b[place[r]] = ent[r] /\ IsInode(ent[r])
      BY <1>3, <1>5, UnitsApart DEF ListsBelow, Below
    <2> QED
      BY <1>6, <2>1 DEF EntriesOf
  <1>8. ASSUME NEW u \in EntriesOf(b) PROVE \E r \in Below(T, q) : u = ent[r]
    <2>1. PICK i \in 1..k : u = b[i]
      BY <1>6 DEF EntriesOf
    <2>2. PICK r \in Below(T, q) : place[r] = i
      BY <1>3 DEF ListsBelow
    <2>3. u = ent[r]
      BY <1>3, <1>5, <2>1, <2>2 DEF ListsBelow
    <2> QED
      BY <2>3
  <1> QED
    BY <1>1, <1>7, <1>8 DEF EntriesIn

ReachedTo(T, ent, k) == {<<p, ent[p]>> : p \in {x \in DOMAIN T : Len(x) <= k + 1}}

LEMMA ReachStep ==
  ASSUME NEW s, NEW U, IsState(s, U), NEW T, NEW ent, NEW place, Tidy(s, T, ent, place), NEW k \in Nat
  PROVE  /\ {<<<<ROOT>>, Loaded(s).root[1]>>} = ReachedTo(T, ent, 0)
         /\ {<<<<ROOT>>, Loaded(s).root[1]>>} \cup UNION {WithinIn(s, pe) : pe \in ReachedTo(T, ent, k)}
              = ReachedTo(T, ent, k + 1)
  <1>1. PICK R : R = {<<<<ROOT>>, Loaded(s).root[1]>>}
    OBVIOUS
  <1>2. R = {<<<<ROOT>>, ent[<<ROOT>>]>>}
    <2>1. Tidy(Loaded(s), T, ent, place) /\ Loaded(s).read
      BY TidyLoaded
    <2>2. RootIs(Loaded(s), ent[<<ROOT>>])
      BY <2>1 DEF Tidy, Listed
    <2> QED
      BY <1>1, <2>1, <2>2 DEF RootIs
  <1>3. /\ Shape(T) /\ <<ROOT>> \in DOMAIN T /\ Len(<<ROOT>>) = 1
        /\ \A p \in DOMAIN T : Len(p) \in Nat \ {0} /\ (Len(p) = 1 => p = <<ROOT>>)
    BY PathTyped DEF Tidy, Listed, Shape
  <1>4. R = ReachedTo(T, ent, 0)
    <2>1. {x \in DOMAIN T : Len(x) <= 0 + 1} = {<<ROOT>>}
      <3>1. ASSUME NEW x \in DOMAIN T PROVE Len(x) <= 0 + 1 <=> x = <<ROOT>>
        <4>1. PICK l \in Nat \ {0} : l = Len(x)
          BY <1>3
        <4>2. Len(x) <= 0 + 1 <=> l = 1
          BY <4>1
        <4>3. l = 1 <=> x = <<ROOT>>
          BY <1>3, <4>1
        <4> QED
          BY <4>2, <4>3
      <3> QED
        BY <1>3, <3>1
    <2> QED
      BY <1>2, <2>1 DEF ReachedTo
  <1>5. ASSUME NEW p \in DOMAIN T
        PROVE  WithinIn(s, <<p, ent[p]>>) = {<<r, ent[r]>> : r \in Below(T, p)}
    <2>1. ent[p].name = Last(p) /\ p \in Seq(Names) /\ \A r \in DOMAIN T : ent[r].name = Last(r)
      BY <1>3, PathTyped DEF Tidy, Listed, Named
    <2>2. CASE Last(p) \in DirNames
      <3>1. EntriesIn(s, ent[p]) = {ent[r] : r \in Below(T, p)}
        BY <2>2, EntriesInIs
      <3>2. WithinIn(s, <<p, ent[p]>>) = {<<Append(p, e.name), e>> : e \in EntriesIn(s, ent[p])}
        BY <2>1, <2>2 DEF WithinIn
      <3>3. \A r \in Below(T, p) : Append(p, ent[r].name) = r
        <4>1. ASSUME NEW r \in Below(T, p) PROVE Append(p, Last(r)) = r /\ r \in DOMAIN T
          <5>1. r \in DOMAIN T /\ Front(r) = p
            BY DEF Below
          <5>2. r \in Seq(Names) /\ Len(r) \in Nat \ {0}
            BY <1>3, <5>1, PathTyped
          <5>3. Append(Front(r), Last(r)) = r
            BY <5>2, FrontIs
          <5> QED
            BY <5>1, <5>3
        <4> QED
          BY <2>1, <4>1
      <3>4. WithinIn(s, <<p, ent[p]>>) = {<<Append(p, ent[r].name), ent[r]>> : r \in Below(T, p)}
        BY <3>1, <3>2
      <3> QED
        BY <3>3, <3>4
    <2>3. CASE Last(p) \notin DirNames
      <3>1. Below(T, p) = {}
        BY <1>3, <2>3 DEF Below, Shape
      <3>2. WithinIn(s, <<p, ent[p]>>) = {}
        BY <2>1, <2>3 DEF WithinIn
      <3> QED
        BY <3>1, <3>2
    <2> QED
      BY <2>2, <2>3
  <1>6. ASSUME NEW x \in R \cup UNION {WithinIn(s, pe) : pe \in ReachedTo(T, ent, k)}
        PROVE  x \in ReachedTo(T, ent, k + 1)
    <2>1. CASE x \in R
      <3>1. 1 <= k + 1 + 1
        OBVIOUS
      <3> QED
        BY <1>2, <1>3, <2>1, <3>1 DEF ReachedTo
    <2>2. CASE x \notin R
      <3>1. PICK p \in DOMAIN T : Len(p) <= k + 1 /\ x \in WithinIn(s, <<p, ent[p]>>)
        BY <2>2 DEF ReachedTo
      <3>2. PICK r \in Below(T, p) : x = <<r, ent[r]>>
        BY <1>5, <3>1
      <3>3. r \in DOMAIN T /\ Len(r) > 1 /\ Front(r) = p
        BY DEF Below
      <3>4. r \in Seq(Names) /\ Len(r) \in Nat
        BY <1>3, <3>3, PathTyped
      <3>5. Len(p) = Len(r) - 1
        BY <3>3, <3>4, FrontIs
      <3>6. Len(r) <= k + 1 + 1
        BY <3>1, <3>4, <3>5
      <3> QED
        BY <3>2, <3>3, <3>6 DEF ReachedTo
    <2> QED
      BY <2>1, <2>2
  <1>7. ASSUME NEW x \in ReachedTo(T, ent, k + 1)
        PROVE  x \in R \cup UNION {WithinIn(s, pe) : pe \in ReachedTo(T, ent, k)}
    <2>1. PICK r \in DOMAIN T : Len(r) <= k + 1 + 1 /\ x = <<r, ent[r]>>
      BY DEF ReachedTo
    <2>2. CASE Len(r) = 1
      BY <1>2, <1>3, <2>1, <2>2
    <2>3. CASE Len(r) # 1
      <3>1. PICK l \in Nat : l = Len(r)
        BY <1>3
      <3>2. l > 1 /\ l > 0 /\ l - 1 <= k + 1
        BY <1>3, <2>1, <2>3, <3>1
      <3>3. r \in Seq(Names)
        BY <1>3, PathTyped
      <3>4. PICK p : p = Front(r)
        OBVIOUS
      <3>5. p \in DOMAIN T /\ Len(p) = l - 1
        BY <1>3, <3>1, <3>2, <3>3, <3>4, FrontIs DEF Shape
      <3>6. r \in Below(T, p)
        BY <3>1, <3>2, <3>4 DEF Below
      <3>7. <<p, ent[p]>> \in ReachedTo(T, ent, k) /\ x \in WithinIn(s, <<p, ent[p]>>)
        BY <1>5, <2>1, <3>2, <3>5, <3>6 DEF ReachedTo
      <3> QED
        BY <3>7
    <2> QED
      BY <2>2, <2>3
  <1> QED
    BY <1>1, <1>4, <1>6, <1>7

(* What the paths lead to, and the tree they amount to. *)
LEMMA ReachedIs ==
  ASSUME NEW s, NEW U, IsState(s, U), NEW T, NEW ent, NEW place, Tidy(s, T, ent, place)
  PROVE  ReachedIn(s) = {<<p, ent[p]>> : p \in DOMAIN T}
  <1> DEFINE R == {<<<<ROOT>>, Loaded(s).root[1]>>}
  <1> DEFINE h == [k \in 0..MaxDepth |-> ReachedTo(T, ent, k)]
  <1>0. MaxDepth \in Nat
    BY FileSystemAssumption
  <1>1. ASSUME NEW k \in Nat
        PROVE R = ReachedTo(T, ent, 0)
              /\ R \cup UNION {WithinIn(s, pe) : pe \in ReachedTo(T, ent, k)} = ReachedTo(T, ent, k + 1)
    BY ReachStep
  <1> HIDE DEF R
  <1>2. ASSUME NEW g, g = [k \in 0..MaxDepth |-> R \cup IF k = 0 THEN {}
                                                       ELSE UNION {WithinIn(s, pe) : pe \in g[k - 1]}]
        PROVE  g[MaxDepth] = ReachedTo(T, ent, MaxDepth)
    <2> DEFINE S == {k \in Nat : k <= MaxDepth => g[k] = ReachedTo(T, ent, k)}
    <2>1. 0 \in S
      <3>1. 0 \in 0..MaxDepth /\ 0 \in Nat
        BY <1>0
      <3>2. g[0] = R \cup {}
        BY <1>2, <3>1
      <3> QED
        BY <1>1, <3>1, <3>2
    <2>2. ASSUME NEW k \in S PROVE k + 1 \in S
      <3> SUFFICES ASSUME k + 1 <= MaxDepth PROVE g[k + 1] = ReachedTo(T, ent, k + 1)
        OBVIOUS
      <3>1. k \in Nat /\ k + 1 \in 0..MaxDepth /\ k + 1 # 0 /\ (k + 1) - 1 = k
        BY <1>0
      <3>2. g[k] = ReachedTo(T, ent, k)
        BY <1>0, <3>1
      <3>3. g[k + 1] = R \cup UNION {WithinIn(s, pe) : pe \in g[(k + 1) - 1]}
        BY <1>2, <3>1
      <3>4. g[k + 1] = R \cup UNION {WithinIn(s, pe) : pe \in ReachedTo(T, ent, k)}
        BY <3>1, <3>2, <3>3
      <3> QED
        BY <1>1, <3>1, <3>4
    <2>3. S \subseteq Nat
      OBVIOUS
    <2> HIDE DEF S
    <2>4. MaxDepth \in S
      BY <1>0, <2>1, <2>2, <2>3, InductionOnNat
    <2> QED
      BY <1>0, <2>4 DEF S
  <1>3. ASSUME NEW k \in 0..MaxDepth
        PROVE  h[k] = R \cup IF k = 0 THEN {} ELSE UNION {WithinIn(s, pe) : pe \in h[k - 1]}
    <2>1. CASE k = 0
      <3>1. h[k] = ReachedTo(T, ent, 0) /\ 0 \in Nat
        BY <2>1
      <3>2. R = ReachedTo(T, ent, 0)
        BY <1>1
      <3> QED
        BY <2>1, <3>1, <3>2
    <2>2. CASE k # 0
      <3>1. PICK j : j = k - 1
        OBVIOUS
      <3>2. j \in Nat /\ j \in 0..MaxDepth /\ k = j + 1
        BY <1>0, <2>2, <3>1
      <3>3. h[k] = ReachedTo(T, ent, k) /\ h[j] = ReachedTo(T, ent, j)
        BY <3>2
      <3> HIDE DEF h
      <3>4. R \cup UNION {WithinIn(s, pe) : pe \in ReachedTo(T, ent, j)} = ReachedTo(T, ent, j + 1)
        BY <1>1, <3>2
      <3>5. R \cup UNION {WithinIn(s, pe) : pe \in h[j]} = h[k]
        BY <3>2, <3>3, <3>4
      <3> QED
        BY <2>2, <3>1, <3>5
    <2> QED
      BY <2>1, <2>2
  <1>4. h = [k \in 0..MaxDepth |-> h[k]]
    OBVIOUS
  <1> HIDE DEF h
  <1>5. IsReach(h, s)
    BY <1>3, <1>4 DEF IsReach, R
  <1>6. PICK g : g = CHOOSE x : IsReach(x, s)
    OBVIOUS
  <1>7. IsReach(g, s)
    BY <1>5, <1>6
  <1>8. g[MaxDepth] = ReachedTo(T, ent, MaxDepth)
    BY <1>2, <1>7 DEF IsReach, R
  <1>9. \A p \in DOMAIN T : Len(p) <= MaxDepth + 1
    BY <1>0 DEF Tidy, Listed, Shape
  <1> QED
    BY <1>6, <1>8, <1>9 DEF ReachedIn, ReachedTo

LEMMA TextIs ==
  ASSUME NEW U, NEW sec \in [1..CLUSTER_SIZE -> U], NEW d \in Seq(Bytes), Len(d) < CLUSTER_SIZE,
         \A i \in 1..CLUSTER_SIZE : sec[i] = IF i <= Len(d) THEN d[i] ELSE Zero
  PROVE  Text(sec) = d
  <1>1. PICK n \in Nat : n = Len(d)
    OBVIOUS
  <1>2. CLUSTER_SIZE \in Nat \ {0} /\ n < CLUSTER_SIZE /\ sec \in Seq(U) /\ Len(sec) = CLUSTER_SIZE
    BY <1>1, Constants, FunctionIsSeq
  <1>3. PICK ends : ends = {i \in 1..Len(sec) : sec[i] = Zero}
    OBVIOUS
  <1>4. n + 1 \in ends /\ \A i \in ends : n + 1 <= i
    <2>1. \A i \in 1..n : sec[i] # Zero
      <3>1. ASSUME NEW i \in 1..n PROVE sec[i] = d[i] /\ d[i] \in Bytes
        BY <1>1, <1>2
      <3> QED
        BY <3>1, FileSystemAssumption
    <2>2. n + 1 \in 1..CLUSTER_SIZE /\ ~(n + 1 <= n)
      BY <1>2
    <2>3. sec[n + 1] = Zero
      BY <1>1, <2>2
    <2> QED
      BY <1>2, <1>3, <2>1, <2>2, <2>3
  <1>5. Smallest(ends) = n + 1
    <2>1. ends \subseteq Nat /\ ends # {}
      BY <1>2, <1>3, <1>4
    <2>2. PICK x : x = Smallest(ends)
      OBVIOUS
    <2>3. x \in ends /\ \A y \in ends : x <= y
      <3>1. \E z \in ends : \A y \in ends : z <= y
        BY <1>4
      <3> QED
        BY <2>2, <3>1 DEF Smallest
    <2>4. x \in Nat /\ x <= n + 1 /\ n + 1 <= x
      BY <1>4, <2>1, <2>3
    <2> QED
      BY <2>2, <2>4
  <1>6. sec # <<>> /\ ends # {}
    BY <1>2, <1>4
  <1>7. Text(sec) = SubSeq(sec, 1, n)
    <2>1. Text(sec) = SubSeq(sec, 1, Smallest(ends) - 1)
      BY <1>3, <1>6 DEF Text
    <2>2. n + 1 - 1 = n
      OBVIOUS
    <2> QED
      BY <1>5, <2>1, <2>2
  <1>8. SubSeq(sec, 1, n) = [i \in 1..n |-> sec[i]]
    BY <1>2
  <1>9. \A i \in 1..n : sec[i] = d[i]
    BY <1>1, <1>2
  <1>10. d = [i \in 1..n |-> d[i]]
    BY <1>1
  <1> QED
    BY <1>7, <1>8, <1>9, <1>10

LEMMA OnDiskIs ==
  ASSUME NEW s, NEW U, IsState(s, U), NEW T, NEW ent, NEW place, Tidy(s, T, ent, place)
  PROVE  /\ OnDiskIn(s) = [p \in DOMAIN T |-> T[p]]
         /\ \A p \in DOMAIN T : Last(p) \in FileNames => TextIn(s, ent[p]) = T[p]
  <1>1. PICK R : R = ReachedIn(s)
    OBVIOUS
  <1>2. R = {<<p, ent[p]>> : p \in DOMAIN T}
    BY <1>1, ReachedIs
  <1>a. ASSUME NEW pe \in R PROVE pe[1] \in DOMAIN T /\ pe[2] = ent[pe[1]]
    <2>1. PICK p \in DOMAIN T : pe = <<p, ent[p]>>
      BY <1>2
    <2> QED
      BY <2>1
  <1>b. ASSUME NEW p \in DOMAIN T PROVE \E x \in R : x[1] = p
    <2>1. PICK x : x = <<p, ent[p]>>
      OBVIOUS
    <2> QED
      BY <1>2, <2>1
  <1>3. {pe[1] : pe \in R} = DOMAIN T
    BY <1>a, <1>b
  <1>4. ASSUME NEW p \in DOMAIN T PROVE (CHOOSE pe \in R : pe[1] = p)[2] = ent[p]
    <2>1. PICK pe : pe = CHOOSE x \in R : x[1] = p
      OBVIOUS
    <2>2. \E x \in R : x[1] = p
      BY <1>b
    <2>3. pe \in R /\ pe[1] = p
      BY <2>1, <2>2
    <2> QED
      BY <1>a, <2>1, <2>3
  <1>5. ASSUME NEW p \in DOMAIN T, Last(p) \in FileNames PROVE TextIn(s, ent[p]) = T[p]
    <2>1. PICK t, sec, k, b : /\ t = Loaded(s) /\ k = ent[p].size
                              /\ sec = t.data[ent[p].cluster] /\ b = ReadFile(t, ent[p])
      OBVIOUS
    <2>2. IsState(t, U) /\ Tidy(t, T, ent, place)
      BY <2>1, TidyLoaded
    <2>3. HoldsText(sec, k, T[p]) /\ ent[p] \in Inode
      BY <1>5, <2>1, <2>2 DEF Tidy, Listed, Named, InSectors
    <2>4. T[p] \in Seq(Bytes) /\ Len(T[p]) < CLUSTER_SIZE /\ CLUSTER_SIZE \in Nat /\ Len(T[p]) \in Nat
      BY Constants DEF Tidy, Listed, Shape
    <2>5. k \in Nat /\ k <= CLUSTER_SIZE
      BY <2>3, <2>4 DEF HoldsText
    <2>6. (k = 0 => b = <<>>) /\ (k > 0 => b = sec) /\ sec \in [1..CLUSTER_SIZE -> U]
      BY <2>1, <2>2, <2>3, <2>5, ReadIs
    <2>7. Text(b) = T[p]
      <3>1. CASE k = 0
        <4>1. T[p] = <<>>
          BY <2>3, <3>1 DEF HoldsText
        <4>2. Text(<<>>) = <<>>
          BY DEF Text
        <4> QED
          BY <2>6, <3>1, <4>1, <4>2
      <3>2. CASE k # 0
        <4>1. PICK d : d = T[p]
          OBVIOUS
        <4>2. \A i \in 1..CLUSTER_SIZE : sec[i] = IF i <= Len(d) THEN d[i] ELSE Zero
          BY <2>3, <2>5, <3>2, <4>1 DEF HoldsText
        <4>3. d \in Seq(Bytes) /\ Len(d) < CLUSTER_SIZE
          BY <2>4, <4>1
        <4>4. Text(sec) = d
          BY <2>6, <4>2, <4>3, TextIs
        <4> QED
          BY <2>5, <2>6, <3>2, <4>1, <4>4
      <3> QED
        BY <3>1, <3>2
    <2> QED
      BY <2>1, <2>7 DEF TextIn
  <1>6. ASSUME NEW p \in DOMAIN T
        PROVE  (IF Last(p) \in DirNames THEN <<>> ELSE TextIn(s, (CHOOSE pe \in R : pe[1] = p)[2])) = T[p]
    <2>1. CASE Last(p) \in DirNames
      BY <2>1 DEF Tidy, Listed, Shape
    <2>2. CASE Last(p) \notin DirNames
      <3>1. Last(p) \in FileNames
        <4>1. Shape(T)
          BY DEF Tidy, Listed
        <4> QED
          BY <2>2, <4>1, PathTyped DEF Names
      <3> QED
        BY <1>4, <1>5, <2>2, <3>1
    <2> QED
      BY <2>1, <2>2
  <1>7. OnDiskIn(s) = [p \in {pe[1] : pe \in R} |->
                         IF Last(p) \in DirNames THEN <<>> ELSE TextIn(s, (CHOOSE pe \in R : pe[1] = p)[2])]
    BY <1>1 DEF OnDiskIn
  <1> QED
    BY <1>3, <1>5, <1>6, <1>7

(***************************************************************************)
(* The start of the machine                                                *)
(***************************************************************************)
RootOnly == [p \in {<<ROOT>>} |-> <<>>]
RootEntry(s) == [p \in {<<ROOT>>} |-> NewFile(s, ROOT)]

LEMMA BootedTidy ==
  ASSUME NEW s, NEW U, IsState(s, U), FreeClusters(s) # {}, NEW place
  PROVE  LET t == Booted(s)
         IN  /\ IsState(t, U) /\ t.mode = "shell" /\ Tidy(t, RootOnly, RootEntry(s), place)
             /\ t.fat = [s.fat EXCEPT ![Smallest(FreeClusters(s))] = EOC]
  <1>1. PICK s0 : s0 = [s EXCEPT !.root = NoRoot, !.entries = 0, !.read = FALSE, !.mode = "shell"]
    OBVIOUS
  <1>2. /\ IsState(s0, U) /\ s0.fat = s.fat /\ s0.entries = 0 /\ s0.mode = "shell"
    <2>1. NoRoot \in [1..ROOT_ENTRIES -> U]
      BY DEF NoRoot, IsState
    <2> QED
      BY <1>1, <2>1 DEF IsState
  <1>3. PICK c : c = Smallest(FreeClusters(s))
    OBVIOUS
  <1>4. c \in Clusters /\ s.fat[c] = 0
    <2>1. FreeClusters(s) \subseteq Clusters /\ FreeClusters(s) \subseteq Nat
      BY Constants DEF FreeClusters
    <2>2. c \in FreeClusters(s)
      BY <1>3, <2>1, SmallestIn
    <2> QED
      BY <2>2 DEF FreeClusters
  <1>5. FreeClusters(s0) = FreeClusters(s)
    BY <1>2 DEF FreeClusters
  <1>6. PICK file : file = NewFile(s, ROOT)
    OBVIOUS
  <1>7. /\ file = [name |-> ROOT, cluster |-> c, size |-> 0] /\ file \in Inode /\ file.name = ROOT
        /\ file.cluster = c /\ file.size = 0 /\ file \in U
    <2>1. file = [name |-> ROOT, cluster |-> c, size |-> 0]
      BY <1>3, <1>6 DEF NewFile
    <2>2. NameRead(ROOT) = ROOT /\ ROOT \in Names
      BY FileSystemAssumption DEF NameRead, Names
    <2>3. file \in Inode
      BY <1>4, <2>1, <2>2 DEF Inode
    <2> QED
      BY <2>1, <2>3 DEF IsState
  <1>8. PICK v : v = [s0 EXCEPT !.fat[c] = EOC]
    OBVIOUS
  <1>9. /\ IsState(v, U) /\ v.fat = [s.fat EXCEPT ![c] = EOC] /\ v.entries = 0 /\ v.mode = "shell"
    BY <1>2, <1>4, <1>8 DEF IsState
  <1>10. PICK s1 : s1 = InitFirstCluster(s0, c)
    OBVIOUS
  <1>11. s1 = Stored(v)
    BY <1>8, <1>10 DEF InitFirstCluster
  <1>12. /\ IsState(s1, U) /\ s1.fat = [s.fat EXCEPT ![c] = EOC] /\ s1.entries = 0 /\ s1.mode = "shell"
    BY <1>9, <1>11, StoredIs
  <1>13. Loaded(s1) = s1
    BY <1>12 DEF Loaded
  <1>14. PICK t : t = Booted(s)
    OBVIOUS
  <1>15. t = Entered(s1, file, <<>>)
    <2>1. t = Created(s0, ROOT, <<>>)
      BY <1>1, <1>14 DEF Booted
    <2>2. t = Entered(Loaded(InitFirstCluster(s0, c)), [name |-> ROOT, cluster |-> c, size |-> 0], <<>>)
      <3>1. NameRead(ROOT) = ROOT
        BY FileSystemAssumption DEF NameRead
      <3> QED
        BY <1>3, <1>5, <2>1, <3>1 DEF Created
    <2> QED
      BY <1>7, <1>10, <1>13, <2>2
  <1>16. t = CatFile(s1, NoFile, <<file>>)
    <2>1. PICK nav : nav = Navigate(s1, <<>>)
      OBVIOUS
    <2>2. nav.end = "open" /\ Current(nav) = NoFile
      BY <2>1, StartIs DEF Start
    <2> QED
      BY <1>15, <2>1, <2>2 DEF Entered, IsStray
  <1>17. PICK g : g = [s1 EXCEPT !.entries = 1]
    OBVIOUS
  <1>18. IsState(g, U) /\ g.entries = 1 /\ g.fat = s1.fat /\ g.mode = "shell"
    BY <1>12, <1>17 DEF IsState
  <1>19. t = EditFile(g, NoFile, <<file>>, 1)
    <2>1. s1.root \in Seq(U)
      <3>1. s1.root \in [1..ROOT_ENTRIES -> U] /\ ROOT_ENTRIES \in Nat
        BY <1>12, Constants DEF IsState
      <3> QED
        BY <3>1, FunctionIsSeq
    <2>2. SubSeq(s1.root, 1, 0) = <<>>
      BY <2>1
    <2>3. Content(s1, NoFile) = <<>>
      <3>1. ReadFile(s1, NoFile) = <<>> /\ SizeOf(s1, NoFile) = 0
        BY <1>12, <2>2 DEF ReadFile, SizeOf
      <3>2. SubSeq(<<>>, 1, 0) = <<>>
        OBVIOUS
      <3> QED
        BY <3>1, <3>2 DEF Content
    <2>4. Content(s1, NoFile) \o <<file>> = <<file>> /\ Len(<<file>>) = 1
      BY <2>3
    <2>5. g = [s1 EXCEPT !.entries = @ + 1]
      BY <1>12, <1>17
    <2> QED
      BY <1>16, <2>4, <2>5 DEF CatFile
  <1>20. /\ IsState(t, U) /\ RootIs(t, file) /\ t.fat = s1.fat /\ t.mode = "shell"
    <2>1. PICK b : b = <<file>>
      OBVIOUS
    <2>2. b \in Seq(U) /\ Len(b) > 0 /\ b[1] = file
      BY <1>7, <2>1
    <2> QED
      BY <1>18, <1>19, <2>1, <2>2, WithRootIs
  <1>21. PICK T, ent : T = RootOnly /\ ent = RootEntry(s)
    OBVIOUS
  <1>22. DOMAIN T = {<<ROOT>>} /\ T[<<ROOT>>] = <<>> /\ ent[<<ROOT>>] = file
    BY <1>6, <1>21 DEF RootOnly, RootEntry
  <1>23. Len(<<ROOT>>) = 1 /\ Last(<<ROOT>>) = ROOT /\ <<ROOT>> \in Seq(Names) /\ <<ROOT>>[1] = ROOT
    BY Constants DEF Last
  <1>24. Shape(T)
    <2>1. <<>> \in Seq(Bytes) /\ Len(<<>>) < CLUSTER_SIZE /\ 1 \in 1..MaxDepth + 1 /\ ~(1 > 1)
      BY FileSystemAssumption
    <2> QED
      BY <1>22, <1>23, <2>1 DEF Shape
  <1>25. Named(T, ent) /\ Used(t, T, ent)
    <2>1. t.fat[c] = EOC
      BY <1>4, <1>12, <1>20 DEF IsState
    <2> QED
      BY <1>7, <1>22, <1>23, <2>1 DEF Named, Used
  <1>26. InSectors(t, T, ent, place, <<ROOT>>)
    <2>1. Below(T, <<ROOT>>) = {}
      <3>1. ASSUME NEW r \in DOMAIN T PROVE ~(Len(r) > 1)
        <4>1. r = <<ROOT>>
          BY <1>22
        <4> QED
          BY <1>23, <4>1
      <3> QED
        BY <3>1 DEF Below
    <2>2. 0 \in 0..CLUSTER_SIZE /\ ~(0 > 0) /\ 1..0 = {}
      BY Constants
    <2>3. ListsBelow(t.data[c], 0, T, ent, place, <<ROOT>>)
      BY <2>1, <2>2 DEF ListsBelow
    <2> QED
      BY <1>7, <1>22, <1>23, <2>3, FileSystemAssumption DEF InSectors
  <1>27. Tidy(t, T, ent, place)
    BY <1>20, <1>22, <1>24, <1>25, <1>26 DEF Tidy, Listed
  <1> QED
    BY <1>3, <1>12, <1>14, <1>20, <1>21, <1>27

(***************************************************************************)
(* What a command finds of a name in a directory                           *)
(***************************************************************************)
LEMMA FileAtIs ==
  ASSUME NEW s, NEW U, IsState(s, U), s.read, NEW T, NEW ent, NEW place, Tidy(s, T, ent, place),
         NEW q \in DOMAIN T, Last(q) \in DirNames, NEW n \in FileNames
  PROVE  /\ Navigate(s, Append(q, n)).end = "file" /\ FileEnd(s, Append(q, n)) = "file"
         /\ FileAt(s, Append(q, n)) = IF Append(q, n) \in DOMAIN T THEN ent[Append(q, n)] ELSE NoFile
  <1>1. PICK p, b : p = Append(q, n) /\ b = ReadFile(s, ent[q])
    OBVIOUS
  <1>2. n \in Names /\ Shape(T) /\ Named(T, ent) /\ Ready(s, T, ent, place, q) /\ ent[q] \in Inode
    BY ReadyFor DEF Names, Tidy, Listed, Named
  <1>3. Navigate(s, p).end = "file" /\ Current(Navigate(s, p)) = ent[q]
    BY <1>1, <1>2, FindFileDir
  <1>4. q \in Seq(Names) /\ Last(p) = n /\ Len(p) = Len(q) + 1 /\ Len(q) \in Nat \ {0}
    BY <1>1, <1>2, PathTyped, AppendIs
  <1>5. ent[q] # NoFile /\ Last(p) \in FileNames /\ Len(p) # 1
    <2>1. PICK l \in Nat \ {0} : l = Len(q)
      BY <1>4
    <2> QED
      BY <1>2, <1>4, <2>1, UnitsApart
  <1>6. FileAt(s, p) = Entry(b, Find(b, SizeOf(s, ent[q]), n))
    <2>1. ~IsDirectory(Directory(s, p, n), p)
      BY <1>3, <1>4, <1>5 DEF IsDirectory, Directory, LookedIn
    <2>2. /\ Directory(s, p, n).buffer = b
          /\ Directory(s, p, n).at = Find(b, SizeOf(s, ent[q]), n)
      BY <1>1, <1>3 DEF Directory, LookedIn
    <2> QED
      BY <1>4, <2>1, <2>2 DEF FileAt
  <1>10. FileEnd(s, p) = "file"
    <2>1. ~IsDirectory(Directory(s, p, n), p)
      BY <1>3, <1>4, <1>5 DEF IsDirectory, Directory, LookedIn
    <2>2. ~ReadsText(b, SizeOf(s, ent[q]), n)
      BY <1>1, <1>2, FindListed DEF Tidy
    <2>3. Directory(s, p, n).end = "file"
      BY <1>1, <1>3, <2>2 DEF Directory, LookedIn
    <2> QED
      BY <1>4, <2>1, <2>3 DEF FileEnd
  <1>7. PICK i : i = Find(b, SizeOf(s, ent[q]), n)
    OBVIOUS
  <1>8. (p \in DOMAIN T => Entry(b, i) = ent[p]) /\ (p \notin DOMAIN T => i = 0)
    <2>1. /\ Append(q, n) \in DOMAIN T => Entry(b, i) = ent[Append(q, n)]
          /\ Append(q, n) \notin DOMAIN T => i = 0
      BY <1>1, <1>2, <1>7, FindListed DEF Tidy
    <2> QED
      BY <1>1, <2>1
  <1>9. Entry(b, 0) = NoFile
    BY DEF Entry
  <1> QED
    BY <1>1, <1>3, <1>6, <1>7, <1>8, <1>9, <1>10

LEMMA DirAtIs ==
  ASSUME NEW s, NEW U, IsState(s, U), s.read, NEW T, NEW ent, NEW place, Tidy(s, T, ent, place),
         NEW q \in DOMAIN T, Last(q) \in DirNames, NEW n \in DirNames,
         Append(q, n) \in DOMAIN T \/ Len(q) = 1
  PROVE  /\ Navigate(s, Append(q, n)).end = "open"
         /\ Current(Navigate(s, Append(q, n))) = IF Append(q, n) \in DOMAIN T THEN ent[Append(q, n)] ELSE NoFile
  <1>1. PICK p : p = Append(q, n)
    OBVIOUS
  <1>2. n \in Names /\ Shape(T) /\ Named(T, ent) /\ Ready(s, T, ent, place, q) /\ ent[q] \in Inode
    BY ReadyFor DEF Names, Tidy, Listed, Named
  <1>3. q \in Seq(Names) /\ Last(p) = n /\ Len(p) = Len(q) + 1 /\ Len(q) \in Nat \ {0}
    BY <1>1, <1>2, PathTyped, AppendIs
  <1>4. CASE p \in DOMAIN T
    <2>1. Ready(s, T, ent, place, p) /\ Last(p) \in DirNames
      BY <1>3, <1>4, ReadyFor DEF Tidy
    <2>2. /\ Navigate(s, p) =
               [at |-> PlaceIn(place, p), holder |-> HolderIn(s, ent, p), buffer |-> HolderIn(s, ent, p),
                inRoot |-> (Len(p) = 1), end |-> "open"]
          /\ Current(Navigate(s, p)) = ent[p]
      BY <1>2, <1>4, <2>1, FindDir
    <2> QED
      BY <1>1, <1>4, <2>2
  <1>5. CASE p \notin DOMAIN T
    <2>1. Len(q) = 1 /\ Append(q, n) \notin DOMAIN T
      BY <1>1, <1>5
    <2>2. PICK b, k, nav : /\ b = ReadFile(s, ent[q]) /\ k = ent[q].size
                           /\ nav = [at |-> PlaceIn(place, q), holder |-> HolderIn(s, ent, q), buffer |-> b,
                                     inRoot |-> (Len(q) = 1), end |-> "open"]
      OBVIOUS
    <2>3. Navigate(s, p) = NavigateStep(s, nav, p, 2)
      <3>1. Navigate(s, Append(q, n)) = NavigateStep(s, nav, Append(q, n), Len(q) + 1)
        BY <1>2, <2>2, TrailOn
      <3> QED
        BY <1>1, <2>1, <3>1
    <2>4. Current(nav) = ent[q] /\ nav.buffer = b /\ nav.end = "open" /\ nav.at = 1
      <3>1. Entry(HolderIn(s, ent, q), PlaceIn(place, q)) = ent[q]
        BY <1>2, FindDir DEF Current
      <3> QED
        BY <2>1, <2>2, <3>1 DEF Current, PlaceIn
    <2>5. k \in 0..CLUSTER_SIZE /\ CLUSTER_SIZE \in Nat
      BY <2>2, Constants DEF Tidy, Listed, InSectors, ListsBelow
    <2>6. SizeOf(s, ent[q]) = k /\ ~(k > Len(b))
      <3>1. k \in Nat /\ k <= CLUSTER_SIZE
        BY <2>5
      <3>2. /\ k = 0 => b = <<>>
            /\ k > 0 => b = s.data[ent[q].cluster]
            /\ Len(s.data[ent[q].cluster]) = CLUSTER_SIZE /\ SizeOf(s, ent[q]) = k
        BY <1>2, <2>2, <3>1, ReadIs
      <3>3. CASE k = 0
        <4>1. Len(b) = 0
          BY <3>2, <3>3
        <4> QED
          BY <3>2, <3>3, <4>1
      <3>4. CASE k # 0
        <4>1. Len(b) = CLUSTER_SIZE
          BY <3>1, <3>2, <3>4
        <4> QED
          BY <2>5, <3>1, <3>2, <4>1
      <3> QED
        BY <3>3, <3>4
    <2>7. p[2] = n /\ n \notin FileNames /\ Len(p) = 2
      <3>1. p[Len(q) + 1] = n
        BY <1>1, <1>3
      <3> QED
        BY <1>3, <2>1, <3>1, FileSystemAssumption
    <2>8. Find(b, k, n) = 0 /\ ~ReadsText(b, k, n)
      BY <1>2, <2>1, <2>2, <2>6, FindListed DEF Tidy
    <2>9. NavigateStep(s, nav, p, 2) =
            [nav EXCEPT !.at = 0, !.holder = b, !.inRoot = FALSE, !.buffer = b]
      <3>1. ~(2 > 2) /\ 2 # 1
        OBVIOUS
      <3> QED
        BY <2>4, <2>6, <2>7, <2>8, <3>1 DEF NavigateStep
    <2>10. Navigate(s, p).end = "open" /\ Navigate(s, p).at = 0
      <3>1. DOMAIN nav = {"at", "holder", "buffer", "inRoot", "end"}
        BY <2>2
      <3>2. PICK w : w = [nav EXCEPT !.at = 0, !.holder = b, !.inRoot = FALSE, !.buffer = b]
        OBVIOUS
      <3>3. w.at = 0 /\ w.end = nav.end
        BY <3>1, <3>2
      <3> QED
        BY <2>3, <2>4, <2>9, <3>2, <3>3
    <2> QED
      BY <1>1, <1>5, <2>10 DEF Current, Entry
  <1> QED
    BY <1>4, <1>5

(***************************************************************************)
(* The state a call leads to is the next one                               *)
(***************************************************************************)
Unwritten(t) == [t EXCEPT !.writes = <<>>]

LEMMA BecomesNow ==
  ASSUME NEW t, NEW U, IsState(t, U), Becomes(t) PROVE Now' = Unwritten(t) /\ mode' = t.mode
  BY DEF Becomes, Now, Unwritten, IsState

LEMMA UnwrittenIs ==
  ASSUME NEW t, NEW U, IsState(t, U), NEW T, NEW ent, NEW place, Tidy(t, T, ent, place)
  PROVE  /\ IsState(Unwritten(t), U) /\ Tidy(Unwritten(t), T, ent, place)
         /\ Unwritten(t).mode = t.mode /\ Unreached(Unwritten(t), T, ent) = Unreached(t, T, ent)
  <1>1. PICK v : v = Unwritten(t)
    OBVIOUS
  <1>2. /\ IsState(v, U) /\ v.fat = t.fat /\ v.data = t.data /\ v.root = t.root
        /\ v.diskRoot = t.diskRoot /\ v.entries = t.entries /\ v.read = t.read /\ v.mode = t.mode
    BY <1>1 DEF IsState, Unwritten
  <1>3. Tidy(v, T, ent, place)
    <2>1. RootIs(v, ent[<<ROOT>>])
      BY <1>2 DEF Tidy, Listed, RootIs
    <2>2. Used(v, T, ent)
      BY <1>2 DEF Tidy, Used
    <2>3. \A p \in DOMAIN T : InSectors(v, T, ent, place, p)
      BY <1>2 DEF Tidy, Listed, InSectors
    <2> QED
      BY <2>1, <2>2, <2>3 DEF Tidy, Listed
  <1>4. Unreached(v, T, ent) = Unreached(t, T, ent)
    BY <1>2 DEF Unreached
  <1> QED
    BY <1>1, <1>2, <1>3, <1>4
=============================================================================
