--------------------------- MODULE LibraryProofs ---------------------------
(***************************************************************************)
(* What the functions of utils.c and printf return, for every memory,      *)
(* every argument and every format the kernel may pass.                    *)
(*                                                                         *)
(* The inductive invariant of a loop says what it has done after k steps.  *)
(* A copy upwards reads at from + k, which is behind what it has written,  *)
(* as it moves bytes down or between blocks that are apart; a copy         *)
(* downwards reads in front of what it has written, as it moves bytes up.  *)
(* What strings are joined to and how they compare follows from where      *)
(* their first NUL is.                                                     *)
(***************************************************************************)
EXTENDS Library, WellFoundedInduction, SequenceTheorems, TLAPS

(***************************************************************************)
(* Naturals and sequences                                                  *)
(***************************************************************************)
Less == {pair \in Nat \X Nat : pair[1] < pair[2]}

LEMMA LessWellFounded == IsWellFoundedOn(Less, Nat)
  BY NatLessThanWellFounded DEF OpToRel, Less

LEMMA LeastNatural ==
  ASSUME NEW T, T \subseteq Nat, T # {} PROVE \E x \in T : \A y \in T : x <= y
  <1>1. PICK x \in T : \A y \in T : <<y, x>> \notin Less
    BY LessWellFounded, WFMin
  <1>2. ASSUME NEW y \in T PROVE x <= y
    <2>1. x \in Nat /\ y \in Nat /\ <<y, x>> \notin Less
      BY <1>1
    <2>2. ~(y < x)
      BY <2>1 DEF Less
    <2> QED
      BY <2>1, <2>2
  <1> QED
    BY <1>2

(* A set of naturals that has every n below which it has all, has all. *)
LEMMA InductionBelow ==
  ASSUME NEW S, S \subseteq Nat, \A n \in Nat : 0..n - 1 \subseteq S => n \in S PROVE S = Nat
  <1> SUFFICES ASSUME Nat \ S # {} PROVE FALSE
    OBVIOUS
  <1>1. PICK x \in Nat \ S : \A y \in Nat \ S : x <= y
    BY LeastNatural
  <1>2. 0..x - 1 \subseteq S
    BY <1>1
  <1> QED
    BY <1>1, <1>2

LEMMA FunctionIsSeq ==
  ASSUME NEW S, NEW n \in Nat, NEW f \in [1..n -> S] PROVE f \in Seq(S) /\ Len(f) = n
  <1>1. f \in Seq(S)
    BY SeqDef
  <1>2. Len(f) \in Nat /\ DOMAIN f = 1..Len(f) /\ DOMAIN f = 1..n
    BY <1>1
  <1> QED
    BY <1>1, <1>2

(* A name for \o that the provers leave as it is. *)
Concat(s, t) == s \o t

LEMMA ConcatIs ==
  ASSUME NEW S, NEW s \in Seq(S), NEW t \in Seq(S), NEW r \in Seq(S), Len(r) = Len(s) + Len(t),
         \A i \in 1..Len(s) : r[i] = s[i], \A i \in 1..Len(t) : r[Len(s) + i] = t[i]
  PROVE  r = Concat(s, t)
  <1>0. PICK m \in Nat, n \in Nat : m = Len(s) /\ n = Len(t)
    OBVIOUS
  <1>1. /\ s \o t \in Seq(S) /\ Len(s \o t) = Len(s) + Len(t)
        /\ \A i \in 1 .. Len(s) + Len(t) : (s \o t)[i] = IF i <= Len(s) THEN s[i] ELSE t[i - Len(s)]
    BY ConcatProperties
  <1>2. PICK q : q = s \o t
    OBVIOUS
  <1>3. /\ q \in Seq(S) /\ Len(q) = m + n
        /\ \A i \in 1 .. m + n : q[i] = IF i <= m THEN s[i] ELSE t[i - m]
    BY <1>0, <1>1, <1>2
  <1>4. ASSUME NEW i \in 1 .. m + n PROVE r[i] = q[i]
    <2>1. CASE i <= m
      <3>1. i \in 1..m /\ q[i] = s[i]
        BY <1>3, <2>1
      <3> QED
        BY <1>0, <3>1
    <2>2. CASE ~(i <= m)
      <3>1. i - m \in 1..n /\ m + (i - m) = i /\ q[i] = t[i - m]
        BY <1>3, <2>2
      <3>2. r[m + (i - m)] = t[i - m]
        BY <1>0, <3>1
      <3> QED
        BY <3>1, <3>2
    <2> QED
      BY <2>1, <2>2
  <1>5. r = q
    BY <1>0, <1>3, <1>4, SeqEqual
  <1> QED
    BY <1>2, <1>5 DEF Concat

Safe(j) ==
  /\ j.way = "up" => j.to <= j.from \/ Apart(j.to, j.count, j.from, j.count)
  /\ j.way = "down" => j.from <= j.to

(* The address a is among those the loop has written. *)
Written(a) ==
  IF job.way = "down" THEN job.to + job.count - k <= a /\ a < job.to + job.count
  ELSE job.to <= a /\ a < job.to + k

Moved(a) == IF job.way = "fill" THEN job.byte ELSE before[job.from + (a - job.to)]

UtilsInv ==
  /\ job \in Jobs /\ Fits(job) /\ Safe(job)
  /\ before \in [Addresses -> Bytes] /\ mem \in [Addresses -> Bytes]
  /\ k \in 0..job.count /\ done \in BOOLEAN
  /\ ~done => \A a \in Addresses : mem[a] = IF Written(a) THEN Moved(a) ELSE before[a]
  /\ done => MovedExactly

(***************************************************************************)
(* The calls                                                               *)
(***************************************************************************)
LEMMA StrlType ==
  ASSUME NEW m, NEW p \in Nat, Ends(m, p) # {}
  PROVE  /\ Strl(m, p) \in Nat /\ p + Strl(m, p) \in Ends(m, p)
         /\ \A f \in Ends(m, p) : p + Strl(m, p) <= f
  <1>1. Ends(m, p) \subseteq Nat
    BY UtilsAssumption DEF Ends, Addresses
  <1>2. \E e \in Ends(m, p) : \A f \in Ends(m, p) : e <= f
    BY <1>1, LeastNatural
  <1> DEFINE e == CHOOSE x \in Ends(m, p) : \A f \in Ends(m, p) : x <= f
  <1>3. e \in Ends(m, p) /\ \A f \in Ends(m, p) : e <= f
    BY <1>2
  <1>4. Strl(m, p) = e - p
    BY DEF Strl
  <1> HIDE DEF e
  <1>5. e \in Nat /\ e >= p
    BY <1>1, <1>3 DEF Ends
  <1>6. p + Strl(m, p) = e /\ Strl(m, p) \in Nat
    BY <1>4, <1>5
  <1> QED
    BY <1>3, <1>6

LEMMA UpJob ==
  ASSUME NEW d \in Nat, NEW s \in Nat, NEW n \in Nat, NEW b \in BOOLEAN,
         d <= s \/ Apart(d, n, s, n)
  PROVE  Up(d, s, n, b) \in Jobs /\ Safe(Up(d, s, n, b))
  BY UtilsAssumption DEF Up, Jobs, Safe

LEMMA MemoryJob ==
  ASSUME NEW d \in Addresses, NEW s \in Addresses, NEW n \in 0..MemSize, MemoryCall(d, s, n)
  PROVE  job \in Jobs /\ Fits(job) /\ Safe(job)
  <1>1. d \in Nat /\ s \in Nat /\ n \in Nat
    BY UtilsAssumption DEF Addresses
  <1>2. CASE \E b \in Bytes : Call("memset", d, d, n, Memset(d, b, n))
    BY <1>1, <1>2, UtilsAssumption DEF Call, Memset, Up, Jobs, Safe
  <1>3. CASE Apart(d, n, s, n) /\ Call("memcpy", d, s, n, Memcpy(d, s, n))
    BY <1>1, <1>3, UpJob DEF Call, Memcpy
  <1>4. CASE Call("memmove", d, s, n, Memmove(d, s, n))
    <2>0. job = Memmove(d, s, n) /\ Fits(job)
      BY <1>4 DEF Call
    <2>1. CASE d < s
      <3>1. job = Up(d, s, n, FALSE) /\ d <= s
        BY <1>1, <2>0, <2>1 DEF Memmove
      <3> QED
        BY <1>1, <2>0, <3>1, UpJob
    <2>2. CASE ~(d < s)
      <3>1. job = [way |-> "down", to |-> d, from |-> s, count |-> n, byte |-> 0, nul |-> FALSE]
        BY <1>1, <2>0, <2>2 DEF Memmove, Up
      <3>2. s <= d
        BY <1>1, <2>2
      <3> QED
        BY <1>1, <2>0, <3>1, <3>2, UtilsAssumption DEF Jobs, Safe
    <2> QED
      BY <2>1, <2>2
  <1> QED
    BY <1>2, <1>3, <1>4 DEF MemoryCall

LEMMA StringJob ==
  ASSUME NEW fn, NEW d, NEW s \in Nat, NEW n, NEW len \in Nat, len = Strl(before, s),
         NEW to \in Nat, NEW from \in Nat, NEW count \in Nat, NEW b \in BOOLEAN,
         s <= from, from + count <= s + len,
         NEW j, j = Up(to, from, count, b), StringCall(fn, d, s, n, j)
  PROVE  job \in Jobs /\ Fits(job) /\ Safe(job)
  <1>1. Apart(to, count + 1, s, len + 1) /\ job = j /\ Fits(job)
    BY DEF StringCall, Call, Up
  <1>2. Apart(to, count, from, count)
    BY <1>1 DEF Apart
  <1> QED
    BY <1>1, <1>2, UpJob

LEMMA InvInit == Init => UtilsInv
  <1> SUFFICES ASSUME Init PROVE UtilsInv
    OBVIOUS
  <1>1. job \in Jobs /\ Fits(job) /\ Safe(job)
    <2>1. PICK d \in Addresses, s \in Addresses :
            \/ \E n \in 0..MemSize : MemoryCall(d, s, n)
            \/ Ends(before, s) # {} /\ InfoCall(d, s)
            \/ Ends(before, s) # {} /\ Ends(before, d) # {} /\ AppendCall(d, s)
      BY DEF Init
    <2>2. d \in Nat /\ s \in Nat
      BY UtilsAssumption DEF Addresses
    <2>3. CASE \E n \in 0..MemSize : MemoryCall(d, s, n)
      BY <2>3, MemoryJob
    <2>4. CASE Ends(before, s) # {} /\ InfoCall(d, s)
      <3>1. Strl(before, s) \in Nat
        BY <2>2, <2>4, StrlType
      <3>2. PICK n \in 0..Strl(before, s) - 1 :
              StringCall("info", d, s, n, GetInfoAfterCommand(before, d, s, n))
        BY <2>4 DEF InfoCall
      <3> DEFINE j == GetInfoAfterCommand(before, d, s, n)
      <3>3. j = Up(d, s + n, Strl(before, s) - n, TRUE)
        BY DEF GetInfoAfterCommand
      <3>4. s + n \in Nat /\ Strl(before, s) - n \in Nat
            /\ s <= s + n /\ (s + n) + (Strl(before, s) - n) <= s + Strl(before, s)
        BY <2>2, <3>1
      <3> HIDE DEF j
      <3> QED
        BY <2>2, <3>1, <3>2, <3>3, <3>4, StringJob DEF j
    <2>5. CASE Ends(before, s) # {} /\ Ends(before, d) # {} /\ AppendCall(d, s)
      <3>1. Strl(before, s) \in Nat /\ Strl(before, d) \in Nat
        BY <2>2, <2>5, StrlType
      <3>2. CASE StringCall("strcat", d, s, 0, Strcat(before, d, s))
        <4>1. s <= s /\ s + Strl(before, s) <= s + Strl(before, s) /\ d + Strl(before, d) \in Nat
          BY <2>2, <3>1
        <4> DEFINE j == Strcat(before, d, s)
        <4>2. j = Up(d + Strl(before, d), s, Strl(before, s), FALSE)
          BY DEF Strcat
        <4>3. StringCall("strcat", d, s, 0, j)
          BY <3>2
        <4> HIDE DEF j
        <4> QED
          BY <2>2, <3>1, <4>1, <4>2, <4>3, StringJob
      <3>3. CASE \E n \in 0..Strl(before, s) : StringCall("strncat", d, s, n, Strncat(before, d, s, n))
        <4>1. PICK n \in 0..Strl(before, s) : StringCall("strncat", d, s, n, Strncat(before, d, s, n))
          BY <3>3
        <4>2. n \in Nat /\ s + n <= s + Strl(before, s) /\ d + Strl(before, d) \in Nat /\ s <= s
          BY <2>2, <3>1
        <4> QED
          BY <2>2, <3>1, <4>1, <4>2, StringJob DEF Strncat
      <3> QED
        BY <2>5, <3>2, <3>3 DEF AppendCall
    <2> QED
      BY <2>1, <2>3, <2>4, <2>5
  <1>2. \A a \in Addresses : ~Written(a)
    BY <1>1, UtilsAssumption DEF Init, Written, Jobs, Addresses
  <1>3. before \in [Addresses -> Bytes] /\ mem = before /\ k = 0 /\ done = FALSE
    BY DEF Init
  <1>4. k \in 0..job.count
    BY <1>1, <1>3 DEF Jobs
  <1> QED
    BY <1>1, <1>2, <1>3, <1>4 DEF UtilsInv

(***************************************************************************)
(* The steps                                                               *)
(***************************************************************************)
LEMMA InvMove == UtilsInv /\ Move => UtilsInv'
  <1> SUFFICES ASSUME UtilsInv, Move PROVE UtilsInv'
    OBVIOUS
  <1> DEFINE o == IF job.way = "down" THEN job.count - k - 1 ELSE k
             byte == IF job.way = "fill" THEN job.byte ELSE mem[job.from + o]
  <1>1. /\ job.to \in Nat /\ job.from \in Nat /\ job.count \in Nat /\ k \in Nat /\ k < job.count
        /\ job.way \in {"fill", "up", "down"} /\ job.byte \in Bytes
        /\ job.to + job.count <= MemSize /\ job.from + job.count <= MemSize
        /\ o \in Nat /\ o < job.count
    <2>1. job \in Jobs /\ Fits(job) /\ k \in 0..job.count /\ k < job.count
      BY DEF UtilsInv, Move
    <2>2. /\ job.to \in Nat /\ job.from \in Nat /\ job.count \in Nat
          /\ job.way \in {"fill", "up", "down"} /\ job.byte \in Bytes
      BY <2>1 DEF Jobs
    <2>3. job.to + job.count <= MemSize /\ job.from + job.count <= MemSize
      BY <2>1, <2>2, UtilsAssumption DEF Fits
    <2>4. k \in Nat /\ o \in Nat /\ o < job.count
      BY <2>1, <2>2
    <2> QED
      BY <2>1, <2>2, <2>3, <2>4
  <1>2. job.to + o \in Addresses /\ job.from + o \in Addresses
    BY <1>1, UtilsAssumption DEF Addresses
  <1>3. mem' = [mem EXCEPT ![job.to + o] = byte] /\ k' = k + 1
        /\ UNCHANGED <<before, args, job, done>> /\ ~done
    BY DEF Move
  <1>4. job.way # "fill" => mem[job.from + o] = before[job.from + o]
    <2>1. CASE job.way = "up"
      <3>1. ~Written(job.from + o)
        BY <1>1, <2>1 DEF Written, UtilsInv, Safe, Apart
      <3> QED
        BY <1>2, <1>3, <3>1 DEF UtilsInv
    <2>2. CASE job.way = "down"
      <3>1. ~Written(job.from + o)
        BY <1>1, <2>2 DEF Written, UtilsInv, Safe
      <3> QED
        BY <1>2, <1>3, <3>1 DEF UtilsInv
    <2> QED
      BY <1>1, <2>1, <2>2
  <1>5. byte = Moved(job.to + o)
    <2>1. job.from + ((job.to + o) - job.to) = job.from + o
      BY <1>1
    <2> QED
      BY <1>4, <2>1 DEF Moved
  <1>6. \A a \in Addresses : Written(a)' <=> Written(a) \/ a = job.to + o
    BY <1>1, <1>3, UtilsAssumption DEF Written, Addresses
  <1>7. \A a \in Addresses : Moved(a)' = Moved(a)
    BY <1>3 DEF Moved
  <1>8. \A a \in Addresses : mem'[a] = IF Written(a)' THEN Moved(a)' ELSE before'[a]
    <2>1. \A a \in Addresses : mem'[a] = IF a = job.to + o THEN byte ELSE mem[a]
      BY <1>2, <1>3 DEF UtilsInv
    <2> QED
      BY <1>3, <1>5, <1>6, <1>7, <2>1 DEF UtilsInv
  <1>9. byte \in Bytes
    BY <1>1, <1>2 DEF UtilsInv
  <1>10. mem' \in [Addresses -> Bytes]
    BY <1>3, <1>9 DEF UtilsInv
  <1>11. k' \in 0..job'.count /\ ~done'
    BY <1>1, <1>3
  <1>12. job' \in Jobs /\ Fits(job') /\ Safe(job') /\ before' \in [Addresses -> Bytes]
    BY <1>3 DEF UtilsInv
  <1> HIDE DEF byte, o
  <1> QED
    BY <1>3, <1>8, <1>10, <1>11, <1>12 DEF UtilsInv

LEMMA InvReturn == UtilsInv /\ Return => UtilsInv'
  <1> SUFFICES ASSUME UtilsInv, Return PROVE UtilsInv'
    OBVIOUS
  <1> DEFINE Result(a) ==
        IF a \in job.to..(job.to + job.count - 1)
        THEN IF job.way = "fill" THEN job.byte ELSE before[job.from + (a - job.to)]
        ELSE IF job.nul /\ a = job.to + job.count THEN 0
        ELSE before[a]
  <1>1. /\ job.to \in Nat /\ job.from \in Nat /\ job.count \in Nat /\ k = job.count
        /\ job.nul \in BOOLEAN /\ ~done /\ done'
        /\ job.nul => job.to + job.count < MemSize
        /\ UNCHANGED <<before, args, job, k>>
    BY UtilsAssumption DEF UtilsInv, Return, Jobs, Fits
  <1>2. \A a \in Addresses : Written(a) <=> a \in job.to..(job.to + job.count - 1)
    BY <1>1, UtilsAssumption DEF Written, Addresses
  <1>3. \A a \in Addresses : mem'[a] = Result(a)
    <2>1. CASE job.nul
      <3>1. job.to + job.count \in Addresses
        BY <1>1, <2>1, UtilsAssumption DEF Addresses
      <3>2. \A a \in Addresses : mem'[a] = IF a = job.to + job.count THEN 0 ELSE mem[a]
        BY <2>1, <3>1 DEF Return, UtilsInv
      <3> QED
        BY <1>1, <1>2, <2>1, <3>2 DEF UtilsInv, Moved
    <2>2. CASE ~job.nul
      BY <1>1, <1>2, <2>2 DEF Return, UtilsInv, Moved
    <2> QED
      BY <2>1, <2>2
  <1>4. mem' \in [Addresses -> Bytes]
    BY <1>1, UtilsAssumption DEF Return, UtilsInv
  <1>5. mem' = [a \in Addresses |-> Result(a)]
    BY <1>3, <1>4
  <1>6. MovedExactly'
    BY <1>1, <1>5 DEF MovedExactly
  <1> QED
    BY <1>1, <1>4, <1>6 DEF UtilsInv

LEMMA InvStep == UtilsInv /\ [Next]_vars => UtilsInv'
  <1>1. UtilsInv /\ UNCHANGED vars => UtilsInv'
    BY DEF UtilsInv, vars, Written, Moved, MovedExactly
  <1> QED
    BY <1>1, InvMove, InvReturn DEF Next

(***************************************************************************)
(* Strings                                                                 *)
(***************************************************************************)
LEMMA StrlIs ==
  ASSUME NEW m, NEW p \in Nat, NEW e \in Nat, p + e \in Addresses, m[p + e] = 0,
         \A i \in 0..e - 1 : m[p + i] # 0
  PROVE  Ends(m, p) # {} /\ Strl(m, p) = e
  <1>1. p + e \in Ends(m, p)
    BY DEF Ends
  <1>2. Strl(m, p) \in Nat /\ p + Strl(m, p) \in Ends(m, p) /\ p + Strl(m, p) <= p + e
    BY <1>1, StrlType
  <1>3. m[p + Strl(m, p)] = 0
    BY <1>2 DEF Ends
  <1>4. ~(Strl(m, p) < e)
    BY <1>2, <1>3
  <1> QED
    BY <1>1, <1>2, <1>4

LEMMA InString ==
  ASSUME NEW m, NEW p \in Nat, Ends(m, p) # {}
  PROVE  /\ Strl(m, p) \in Nat /\ p + Strl(m, p) \in Addresses /\ m[p + Strl(m, p)] = 0
         /\ \A i \in 0..Strl(m, p) - 1 : p + i \in Addresses /\ m[p + i] # 0
  <1>1. Strl(m, p) \in Nat /\ p + Strl(m, p) \in Ends(m, p)
        /\ \A f \in Ends(m, p) : p + Strl(m, p) <= f
    BY StrlType
  <1>2. p + Strl(m, p) \in Addresses /\ m[p + Strl(m, p)] = 0
    BY <1>1 DEF Ends
  <1>3. ASSUME NEW i \in 0..Strl(m, p) - 1 PROVE p + i \in Addresses /\ m[p + i] # 0
    <2>1. p + i \in Addresses /\ p + i >= p
      BY <1>1, <1>2, UtilsAssumption DEF Addresses
    <2>2. ~(p + Strl(m, p) <= p + i)
      BY <1>1
    <2>3. p + i \notin Ends(m, p)
      BY <1>1, <2>2
    <2> QED
      BY <2>1, <2>3 DEF Ends
  <1> QED
    BY <1>1, <1>2, <1>3

LEMMA StringType ==
  ASSUME NEW m \in [Addresses -> Bytes], NEW p \in Nat, Ends(m, p) # {}
  PROVE  /\ StringAt(m, p) \in Seq(Nat) /\ Len(StringAt(m, p)) = Strl(m, p)
         /\ \A i \in 1..Strl(m, p) : StringAt(m, p)[i] = m[p + i - 1]
  <1>1. /\ Strl(m, p) \in Nat
        /\ \A i \in 0..Strl(m, p) - 1 : p + i \in Addresses
    BY InString
  <1>2. ASSUME NEW i \in 1..Strl(m, p) PROVE m[p + i - 1] \in Nat
    <2>1. i - 1 \in 0..Strl(m, p) - 1 /\ p + (i - 1) = p + i - 1
      BY <1>1
    <2>2. p + i - 1 \in Addresses
      BY SMTT(60), <1>1, <2>1
    <2> QED
      BY <2>2, UtilsAssumption
  <1>3. StringAt(m, p) \in [1..Strl(m, p) -> Nat]
    BY <1>2 DEF StringAt
  <1> QED
    BY SMTT(60), <1>1, <1>3, FunctionIsSeq DEF StringAt

(* What a call of a string function has for its job. *)
Argued ==
  args.fn \in {"strcat", "strncat", "info"} =>
    /\ args.dst \in Addresses /\ args.src \in Addresses
    /\ Ends(before, args.src) # {}
    /\ \/ /\ args.fn = "strcat" /\ Ends(before, args.dst) # {}
          /\ job = Strcat(before, args.dst, args.src) /\ Cleared(job)
       \/ /\ args.fn = "strncat" /\ Ends(before, args.dst) # {}
          /\ args.n \in 0..Strl(before, args.src)
          /\ job = Strncat(before, args.dst, args.src, args.n)
       \/ /\ args.fn = "info"
          /\ args.n \in 0..Strl(before, args.src) - 1
          /\ job = GetInfoAfterCommand(before, args.dst, args.src, args.n)

LEMMA ArguedInit == Init => Argued
  <1> SUFFICES ASSUME Init PROVE Argued
    OBVIOUS
  <1>1. PICK d \in Addresses, s \in Addresses :
          \/ \E n \in 0..MemSize : MemoryCall(d, s, n)
          \/ Ends(before, s) # {} /\ InfoCall(d, s)
          \/ Ends(before, s) # {} /\ Ends(before, d) # {} /\ AppendCall(d, s)
    BY DEF Init
  <1>2. CASE \E n \in 0..MemSize : MemoryCall(d, s, n)
    <2>1. args.fn \in {"memset", "memcpy", "memmove"}
      BY <1>2 DEF MemoryCall, Call
    <2> QED
      BY <2>1 DEF Argued
  <1>3. CASE Ends(before, s) # {} /\ InfoCall(d, s)
    <2>1. PICK n \in 0..Strl(before, s) - 1 :
            /\ args = [fn |-> "info", dst |-> d, src |-> s, n |-> n]
            /\ job = GetInfoAfterCommand(before, d, s, n)
      BY <1>3 DEF InfoCall, StringCall, Call
    <2> QED
      BY <1>3, <2>1 DEF Argued
  <1>4. CASE Ends(before, s) # {} /\ Ends(before, d) # {} /\ AppendCall(d, s)
    <2>1. CASE /\ Cleared(Strcat(before, d, s))
               /\ StringCall("strcat", d, s, 0, Strcat(before, d, s))
      <3>1. /\ args = [fn |-> "strcat", dst |-> d, src |-> s, n |-> 0]
            /\ job = Strcat(before, d, s) /\ Cleared(job)
        BY <2>1 DEF StringCall, Call
      <3> QED
        BY <1>4, <3>1 DEF Argued
    <2>2. CASE \E n \in 0..Strl(before, s) : StringCall("strncat", d, s, n, Strncat(before, d, s, n))
      <3>1. PICK n \in 0..Strl(before, s) :
              /\ args = [fn |-> "strncat", dst |-> d, src |-> s, n |-> n]
              /\ job = Strncat(before, d, s, n)
        BY <2>2 DEF StringCall, Call
      <3> QED
        BY <1>4, <3>1 DEF Argued
    <2> QED
      BY <1>4, <2>1, <2>2 DEF AppendCall
  <1> QED
    BY <1>1, <1>2, <1>3, <1>4

LEMMA ArguedStep == Argued /\ [Next]_vars => Argued'
  <1> SUFFICES ASSUME Argued, [Next]_vars PROVE Argued'
    OBVIOUS
  <1>1. UNCHANGED <<before, args, job>>
    BY DEF Next, Move, Return, vars
  <1>2. ASSUME NEW p PROVE Ends(before, p)' = Ends(before, p) /\ Strl(before, p)' = Strl(before, p)
    BY <1>1 DEF Ends, Strl
  <1> QED
    BY <1>1, <1>2 DEF Argued, Cleared, Strcat, Strncat, GetInfoAfterCommand, Up, Ends, Strl

(* A string of l characters that the loop has continued with count more.   *)
LEMMA Continued ==
  ASSUME UtilsInv, done, job.way = "up", NEW d \in Addresses, NEW l \in Nat, job.to = d + l,
         \A i \in 0..l - 1 : before[d + i] # 0,
         \A i \in 0..job.count - 1 : before[job.from + i] # 0,
         job.nul \/ Cleared(job)
  PROVE  /\ Ends(mem, d) # {} /\ Strl(mem, d) = l + job.count
         /\ StringAt(mem, d) \in Seq(Nat) /\ Len(StringAt(mem, d)) = l + job.count
         /\ \A i \in 1..l : StringAt(mem, d)[i] = before[d + i - 1]
         /\ \A i \in 1..job.count : StringAt(mem, d)[l + i] = before[job.from + i - 1]
  <1>1. /\ d \in Nat /\ job.to \in Nat /\ job.from \in Nat /\ job.count \in Nat /\ job.nul \in BOOLEAN
        /\ job.to + job.count + (IF job.nul THEN 1 ELSE 0) <= MemSize
        /\ mem \in [Addresses -> Bytes] /\ before \in [Addresses -> Bytes] /\ MemSize \in Nat
    BY UtilsAssumption DEF UtilsInv, Jobs, Fits, Addresses
  <1>2. mem = [a \in Addresses |->
             IF a \in job.to..(job.to + job.count - 1)
             THEN before[job.from + (a - job.to)]
             ELSE IF job.nul /\ a = job.to + job.count THEN 0
             ELSE before[a]]
    BY DEF UtilsInv, MovedExactly
  <1> DEFINE e == l + job.count
  <1>3. d + e = job.to + job.count /\ e \in Nat
    BY <1>1
  <1>4. d + e \in Addresses
    BY SMTT(60), <1>1, <1>3 DEF Addresses, Cleared
  <1>5. mem[d + e] = 0
    <2>1. d + e \notin job.to..(job.to + job.count - 1)
      BY <1>1, <1>3
    <2> QED
      BY <1>2, <1>3, <1>4, <2>1 DEF Cleared
  <1>6. ASSUME NEW i \in 0..l - 1 PROVE mem[d + i] = before[d + i]
    <2>1. d + i \in Addresses /\ d + i < job.to /\ d + i # job.to + job.count
      BY <1>1, <1>3, <1>4 DEF Addresses
    <2> QED
      BY <1>1, <1>2, <2>1
  <1>7. ASSUME NEW i \in 0..job.count - 1 PROVE mem[d + (l + i)] = before[job.from + i]
    <2>1. /\ d + (l + i) \in Addresses /\ d + (l + i) \in job.to..(job.to + job.count - 1)
          /\ job.from + ((d + (l + i)) - job.to) = job.from + i
      BY SMTT(60), <1>1, <1>3, <1>4 DEF Addresses
    <2> QED
      BY <1>2, <2>1
  <1>8. ASSUME NEW i \in 0..e - 1 PROVE mem[d + i] # 0
    <2>1. CASE i < l
      <3>1. i \in 0..l - 1
        BY <2>1
      <3> QED
        BY <1>6, <3>1
    <2>2. CASE ~(i < l)
      <3>1. i - l \in 0..job.count - 1 /\ l + (i - l) = i
        BY <1>1, <2>2
      <3> QED
        BY <1>7, <3>1
    <2> QED
      BY <2>1, <2>2
  <1>9. Ends(mem, d) # {} /\ Strl(mem, d) = e
    BY <1>1, <1>3, <1>4, <1>5, <1>8, StrlIs
  <1>10. /\ StringAt(mem, d) \in Seq(Nat) /\ Len(StringAt(mem, d)) = e
         /\ \A i \in 1..e : StringAt(mem, d)[i] = mem[d + i - 1]
    BY SMTT(60), <1>1, <1>9, StringType
  <1>11. ASSUME NEW i \in 1..l PROVE StringAt(mem, d)[i] = before[d + i - 1]
    <2>1. i - 1 \in 0..l - 1 /\ d + (i - 1) = d + i - 1 /\ i \in 1..e
      BY <1>1
    <2>2. mem[d + (i - 1)] = before[d + (i - 1)]
      BY <1>6, <2>1
    <2> QED
      BY <1>10, <2>1, <2>2
  <1>12. ASSUME NEW i \in 1..job.count PROVE StringAt(mem, d)[l + i] = before[job.from + i - 1]
    <2>1. /\ i - 1 \in 0..job.count - 1 /\ d + (l + (i - 1)) = d + (l + i) - 1
          /\ l + i \in 1..e /\ job.from + (i - 1) = job.from + i - 1
      BY <1>1
    <2>2. mem[d + (l + (i - 1))] = before[job.from + (i - 1)]
      BY <1>7, <2>1
    <2> QED
      BY <1>10, <2>1, <2>2
  <1> QED
    BY <1>9, <1>10, <1>11, <1>12

LEMMA Joined == UtilsInv /\ Argued => StringsJoined
  <1> SUFFICES ASSUME UtilsInv, Argued, done, args.fn \in {"strcat", "strncat", "info"}
               PROVE  /\ Ends(mem, args.dst) # {}
                      /\ args.fn = "strcat"
                           => StringAt(mem, args.dst) = StringAt(before, args.dst) \o StringAt(before, args.src)
                      /\ args.fn = "strncat"
                           => StringAt(mem, args.dst) =
                                StringAt(before, args.dst) \o SubSeq(StringAt(before, args.src), 1, args.n)
                      /\ args.fn = "info"
                           => StringAt(mem, args.dst) =
                                SubSeq(StringAt(before, args.src), args.n + 1, Len(StringAt(before, args.src)))
    BY DEF StringsJoined
  <1>0. PICK d, s : d = args.dst /\ s = args.src
    OBVIOUS
  <1>a. PICK old, src, new, ld, ls :
          /\ old = StringAt(before, d) /\ src = StringAt(before, s) /\ new = StringAt(mem, d)
          /\ ld = Strl(before, d) /\ ls = Strl(before, s)
    OBVIOUS
  <1>1. /\ d \in Addresses /\ s \in Addresses /\ d \in Nat /\ s \in Nat
        /\ Ends(before, s) # {} /\ before \in [Addresses -> Bytes]
    BY <1>0, UtilsAssumption DEF Argued, Addresses, UtilsInv
  <1>2. /\ ls \in Nat
        /\ \A i \in 0..ls - 1 : before[s + i] # 0
        /\ src \in Seq(Nat) /\ Len(src) = ls
        /\ \A i \in 1..ls : src[i] = before[s + i - 1]
    BY SMTT(60), <1>1, InString, StringType, <1>a
  (* dest is continued with the first n characters of src. *)
  <1>3. ASSUME NEW n \in 0..ls, Ends(before, d) # {},
               job.way = "up", job.to = d + ld, job.from = s, job.count = n,
               job.nul \/ Cleared(job)
        PROVE  Ends(mem, d) # {} /\ new = old \o SubSeq(src, 1, n)
    <2>1. /\ ld \in Nat
          /\ \A i \in 0..ld - 1 : before[d + i] # 0
          /\ old \in Seq(Nat) /\ Len(old) = ld
          /\ \A i \in 1..ld : old[i] = before[d + i - 1]
      BY SMTT(60), <1>1, <1>3, InString, StringType, <1>a
    <2>2. \A i \in 0..job.count - 1 : before[job.from + i] # 0
      BY <1>2, <1>3
    <2>3. /\ Ends(mem, d) # {}
          /\ new \in Seq(Nat) /\ Len(new) = ld + n
          /\ \A i \in 1..ld : new[i] = before[d + i - 1]
          /\ \A i \in 1..n : new[ld + i] = before[s + i - 1]
      BY <1>1, <1>3, <2>1, <2>2, Continued, <1>a
    <2> DEFINE part == SubSeq(src, 1, n)
    <2>4. part \in Seq(Nat) /\ Len(part) = n /\ \A i \in 1..n : part[i] = src[i]
      BY <1>2
    <2> HIDE DEF part
    <2>5. ASSUME NEW i \in 1..n PROVE new[ld + i] = part[i]
      <3>1. i \in 1..ls
        BY <1>2
      <3> QED
        BY <1>2, <2>3, <2>4, <3>1
    <2>6. \A i \in 1..ld : new[i] = old[i]
      BY <2>1, <2>3
    <2>7. /\ old \in Seq(Nat) /\ part \in Seq(Nat) /\ new \in Seq(Nat) /\ n \in Nat /\ ld \in Nat
          /\ Len(old) = ld /\ Len(part) = n /\ Len(new) = ld + n
      BY <1>2, <2>1, <2>3, <2>4
    <2>8. new = Concat(old, part)
      <3>1. \A i \in 1..Len(old) : new[i] = old[i]
        BY <2>6, <2>7
      <3>2. \A i \in 1..Len(part) : new[Len(old) + i] = part[i]
        BY <2>5, <2>7
      <3> QED
        BY <2>7, <3>1, <3>2, ConcatIs
    <2> QED
      BY <2>3, <2>8 DEF part, Concat
  <1>4. CASE args.fn = "strcat"
    <2>1. Ends(before, d) # {} /\ job = Strcat(before, d, s) /\ Cleared(job)
      BY <1>0, <1>4, <1>a DEF Argued
    <2>2. /\ job.way = "up" /\ job.to = d + ld /\ job.from = s /\ job.count = ls
      BY <2>1, <1>a DEF Strcat, Up
    <2>3. Ends(mem, d) # {} /\ new = old \o SubSeq(src, 1, ls)
      BY <1>2, <1>3, <2>1, <2>2
    <2>4. SubSeq(src, 1, ls) = src
      BY <1>2, SubSeqFull
    <2> QED
      BY <1>0, <1>4, <2>3, <2>4, <1>a
  <1>5. CASE args.fn = "strncat"
    <2>1. /\ Ends(before, d) # {} /\ args.n \in 0..ls /\ job = Strncat(before, d, s, args.n)
      BY <1>0, <1>5, <1>a DEF Argued
    <2>2. /\ job.way = "up" /\ job.to = d + ld /\ job.from = s /\ job.count = args.n /\ job.nul
      BY <2>1, <1>a DEF Strncat, Up
    <2> QED
      BY <1>0, <1>3, <1>5, <2>1, <2>2, <1>a
  <1>6. CASE args.fn = "info"
    <2>0. PICK n, m : n = args.n /\ m = ls - n
      OBVIOUS
    <2>1. n \in 0..ls - 1 /\ job = GetInfoAfterCommand(before, d, s, n)
      BY <1>0, <1>6, <1>a, <2>0 DEF Argued
    <2>2. /\ job.way = "up" /\ job.to = d + 0 /\ job.from = s + n /\ job.count = m /\ job.nul
          /\ ls = n + m /\ n \in Nat /\ m \in Nat
      <3>0. ls \in Nat /\ d \in Nat /\ n \in 0..ls - 1
        BY <1>1, <1>2, <2>1
      <3>1. n \in Nat /\ m \in Nat /\ ls = n + m /\ d = d + 0
        BY <3>0, <2>0
      <3>2. job = [way |-> "up", to |-> d, from |-> s + n, count |-> m, byte |-> 0, nul |-> TRUE]
        BY <1>a, <2>0, <2>1 DEF GetInfoAfterCommand, Up
      <3> QED
        BY <3>1, <3>2
    <2>3. ASSUME NEW i \in 0..m - 1 PROVE before[(s + n) + i] # 0
      <3>1. n + i \in 0..ls - 1 /\ (s + n) + i = s + (n + i)
        BY <1>1, <1>2, <2>1, <2>2
      <3> QED
        BY <1>2, <3>1
    <2>4. /\ Ends(mem, d) # {}
          /\ new \in Seq(Nat) /\ Len(new) = m
          /\ \A i \in 1..m : new[i] = before[(s + n) + i - 1]
      <3>1. \A i \in 0..job.count - 1 : before[job.from + i] # 0
        BY <2>2, <2>3
      <3>2. PICK l : l = 0
        OBVIOUS
      <3>3. /\ Ends(mem, d) # {}
            /\ new \in Seq(Nat) /\ Len(new) = l + m
            /\ \A i \in 1..m : new[l + i] = before[(s + n) + i - 1]
        <4>1. l \in Nat /\ job.to = d + l /\ \A i \in 0..l - 1 : before[d + i] # 0
          BY <2>2, <3>2
        <4>2. job.nul \/ Cleared(job)
          BY <2>2
        <4>3. /\ Ends(mem, d) # {}
              /\ StringAt(mem, d) \in Seq(Nat) /\ Len(StringAt(mem, d)) = l + job.count
              /\ \A i \in 1..job.count : StringAt(mem, d)[l + i] = before[job.from + i - 1]
          BY <1>1, <2>2, <3>1, <4>1, <4>2, Continued
        <4> QED
          BY <2>2, <4>3, <1>a
      <3> QED
        BY <2>2, <3>2, <3>3
    <2> DEFINE part == SubSeq(src, n + 1, Len(src))
    <2>5. part \in Seq(Nat) /\ Len(part) = m /\ \A i \in 1..m : part[i] = src[n + i]
      <3>1. \A i \in n + 1..Len(src) : src[i] \in Nat
        BY <1>2, <2>2
      <3>2. n + 1 \in Int /\ Len(src) \in Int
        BY <1>2, <2>2
      <3>3. /\ part \in Seq(Nat) /\ Len(part) = (IF n + 1 <= Len(src) THEN Len(src) - (n + 1) + 1 ELSE 0)
            /\ \A i \in 1..Len(src) - (n + 1) + 1 : part[i] = src[(n + 1) + i - 1]
        BY <3>1, <3>2, SubSeqProperties
      <3>4. Len(src) - (n + 1) + 1 = m
        BY <1>2, <2>0, <2>2
      <3> HIDE DEF part
      <3>5. \A i \in 1..m : (n + 1) + i - 1 = n + i
        BY <2>2
      <3> QED
        BY <1>2, <2>1, <2>2, <3>3, <3>4, <3>5
    <2>6. ASSUME NEW i \in 1..m PROVE new[i] = part[i]
      <3>1. n + i \in 1..ls /\ s + (n + i) - 1 = (s + n) + i - 1
        BY <1>1, <1>2, <2>1, <2>2
      <3>2. src[n + i] = before[s + (n + i) - 1]
        BY <1>2, <3>1
      <3> HIDE DEF part
      <3> QED
        BY <2>4, <2>5, <3>1, <3>2
    <2> HIDE DEF part
    <2>7. new = part
      BY <2>4, <2>5, <2>6, SeqEqual
    <2> QED
      BY <1>0, <1>6, <2>0, <2>4, <2>7, <1>a DEF part
  <1> QED
    BY <1>4, <1>5, <1>6

(***************************************************************************)
(* Comparisons.  Both functions go on while stop does not hold of the      *)
(* place, and what they return is the value at the first place where it    *)
(* does.                                                                   *)
(***************************************************************************)
IsScan(g, stop, val) == g = [i \in Nat |-> IF stop[i] THEN val[i] ELSE g[i + 1]]

LEMMA ScanExists == ASSUME NEW stop, NEW val PROVE \E g : IsScan(g, stop, val)
  <1> DEFINE T(i) == {j \in Nat : j >= i /\ stop[j]}
             g == [i \in Nat |->
                     IF T(i) = {} THEN 0 ELSE val[CHOOSE x \in T(i) : \A y \in T(i) : x <= y]]
  <1>1. ASSUME NEW i \in Nat PROVE g[i] = IF stop[i] THEN val[i] ELSE g[i + 1]
    <2>1. CASE stop[i]
      <3>1. i \in T(i) /\ \A y \in T(i) : i <= y
        BY <2>1
      <3> DEFINE x == CHOOSE x \in T(i) : \A y \in T(i) : x <= y
      <3>2. x \in T(i) /\ \A y \in T(i) : x <= y
        BY <3>1
      <3>3. x <= i /\ i <= x /\ x \in Nat
        BY <3>1, <3>2
      <3> HIDE DEF x
      <3>4. x = i
        BY <3>3
      <3>5. T(i) # {}
        BY <3>1
      <3>6. g[i] = val[x]
        BY <3>5 DEF x
      <3> QED
        BY <2>1, <3>4, <3>6
    <2>2. CASE ~stop[i]
      <3>1. ASSUME NEW j \in Nat PROVE j \in T(i) <=> j \in T(i + 1)
        <4>1. j = i \/ (j >= i <=> j >= i + 1)
          OBVIOUS
        <4> QED
          BY <2>2, <4>1
      <3>2. T(i) = T(i + 1)
        BY <3>1
      <3> HIDE DEF T
      <3> QED
        BY <2>2, <3>2
    <2> QED
      BY <2>1, <2>2
  <1>2. g = [i \in Nat |-> g[i]]
    OBVIOUS
  <1> HIDE DEF g
  <1>3. g = [i \in Nat |-> IF stop[i] THEN val[i] ELSE g[i + 1]]
    BY <1>1, <1>2
  <1> QED
    BY <1>3 DEF IsScan

LEMMA ScanStops ==
  ASSUME NEW stop, NEW val, NEW g, IsScan(g, stop, val), NEW e \in Nat, stop[e],
         \A i \in 0..e - 1 : ~stop[i]
  PROVE  g[0] = val[e]
  <1> DEFINE S == {i \in Nat : i <= e /\ g[i] = val[e]}
  <1>1. \A i \in Nat : g[i] = IF stop[i] THEN val[i] ELSE g[i + 1]
    BY DEF IsScan
  <1>2. e \in S
    BY <1>1
  <1>3. PICK x \in S : \A y \in S : x <= y
    BY <1>2, LeastNatural
  <1>4. ASSUME x # 0 PROVE FALSE
    <2>1. x - 1 \in 0..e - 1 /\ x - 1 \in Nat /\ (x - 1) + 1 = x
      BY <1>4
    <2>2. g[x - 1] = g[x]
      BY <1>1, <2>1
    <2>3. x - 1 \in S
      BY <1>3, <2>1, <2>2
    <2> QED
      BY <1>3, <2>3
  <1> QED
    BY <1>3, <1>4

LEMMA StrcmpStops ==
  ASSUME NEW m, NEW p, NEW q, NEW e \in Nat, m[p + e] = 0 \/ m[p + e] # m[q + e],
         \A i \in 0..e - 1 : m[p + i] # 0 /\ m[p + i] = m[q + i]
  PROVE  Strcmp(m, p, q) = m[p + e] - m[q + e]
  <1> DEFINE stop == [i \in Nat |-> ~(m[p + i] # 0 /\ m[p + i] = m[q + i])]
             val == [i \in Nat |-> m[p + i] - m[q + i]]
             Scan(g) == g = [i \in Nat |-> IF m[p + i] # 0 /\ m[p + i] = m[q + i] THEN g[i + 1]
                                           ELSE m[p + i] - m[q + i]]
  <1>1. ASSUME NEW g PROVE Scan(g) <=> IsScan(g, stop, val)
    <2>1. [i \in Nat |-> IF m[p + i] # 0 /\ m[p + i] = m[q + i] THEN g[i + 1] ELSE m[p + i] - m[q + i]]
            = [i \in Nat |-> IF stop[i] THEN val[i] ELSE g[i + 1]]
      OBVIOUS
    <2> QED
      BY <2>1 DEF IsScan
  <1>2. \E g : Scan(g)
    BY <1>1, ScanExists
  <1> DEFINE from == CHOOSE g : Scan(g)
  <1>3. Scan(from)
    BY <1>2
  <1>4. Strcmp(m, p, q) = from[0]
    BY DEF Strcmp
  <1> HIDE DEF from, Scan
  <1>5. stop[e]
    BY DEF stop
  <1>8. ASSUME NEW i \in 0..e - 1 PROVE ~stop[i]
    <2>1. i \in Nat /\ m[p + i] # 0 /\ m[p + i] = m[q + i]
      OBVIOUS
    <2> QED
      BY <2>1 DEF stop
  <1>6. val[e] = m[p + e] - m[q + e]
    OBVIOUS
  <1> HIDE DEF stop, val
  <1>7. from[0] = val[e]
    BY <1>1, <1>3, <1>5, <1>8, ScanStops
  <1> QED
    BY <1>4, <1>6, <1>7

LEMMA StartsWithStops ==
  ASSUME NEW m, NEW p, NEW q, NEW e \in Nat, m[q + e] = 0 \/ m[p + e] # m[q + e],
         \A i \in 0..e - 1 : m[q + i] # 0 /\ m[p + i] = m[q + i]
  PROVE  StartsWith(m, p, q) <=> m[q + e] = 0
  <1> DEFINE stop == [i \in Nat |-> ~(m[q + i] # 0 /\ m[p + i] = m[q + i])]
             val == [i \in Nat |-> m[q + i] = 0]
             Scan(g) == g = [i \in Nat |-> m[q + i] = 0 \/ (m[p + i] = m[q + i] /\ g[i + 1])]
  <1>1. \E g : Scan(g)
    <2> DEFINE T(i) == {j \in Nat : j >= i /\ stop[j]}
               g == [i \in Nat |-> T(i) # {} /\ val[CHOOSE x \in T(i) : \A y \in T(i) : x <= y]]
    <2>1. ASSUME NEW i \in Nat PROVE g[i] = (m[q + i] = 0 \/ (m[p + i] = m[q + i] /\ g[i + 1]))
      <3>1. CASE stop[i]
        <4>1. i \in T(i) /\ \A y \in T(i) : i <= y
          BY <3>1
        <4> DEFINE x == CHOOSE x \in T(i) : \A y \in T(i) : x <= y
        <4>2. x \in T(i) /\ \A y \in T(i) : x <= y
          BY <4>1
        <4>3. x <= i /\ i <= x /\ x \in Nat
          BY <4>1, <4>2
        <4> HIDE DEF x
        <4>4. x = i
          BY <4>3
        <4>5. T(i) # {}
          BY <4>1
        <4>6. g[i] = (m[q + i] = 0)
          BY <4>4, <4>5 DEF x
        <4>7. m[q + i] = 0 \/ m[p + i] # m[q + i]
          BY <3>1
        <4> QED
          BY <4>6, <4>7
      <3>2. CASE ~stop[i]
        <4>1. ASSUME NEW j \in Nat PROVE j \in T(i) <=> j \in T(i + 1)
          <5>1. j = i \/ (j >= i <=> j >= i + 1)
            OBVIOUS
          <5> QED
            BY <3>2, <5>1
        <4>2. T(i) = T(i + 1)
          BY <4>1
        <4>3. m[q + i] # 0 /\ m[p + i] = m[q + i]
          BY <3>2
        <4> HIDE DEF T
        <4>4. g[i] = g[i + 1] /\ g[i] \in BOOLEAN
          BY <4>2
        <4> QED
          BY <4>3, <4>4
      <3> QED
        BY <3>1, <3>2
    <2>2. g = [i \in Nat |-> g[i]]
      OBVIOUS
    <2> HIDE DEF g
    <2>3. Scan(g)
      BY <2>1, <2>2
    <2> QED
      BY <2>3
  <1> DEFINE from == CHOOSE g : Scan(g)
  <1>2. Scan(from)
    BY <1>1
  <1>3. StartsWith(m, p, q) = from[0]
    BY DEF StartsWith
  <1> HIDE DEF from
  <1>4. \A i \in Nat : from[i] = (m[q + i] = 0 \/ (m[p + i] = m[q + i] /\ from[i + 1]))
    BY <1>2
  <1> HIDE DEF Scan
  <1> DEFINE S == {i \in Nat : i <= e /\ from[i] = (m[q + e] = 0)}
  <1>5. e \in S
    BY <1>4
  <1>6. PICK x \in S : \A y \in S : x <= y
    BY <1>5, LeastNatural
  <1>7. ASSUME x # 0 PROVE FALSE
    <2>1. x - 1 \in 0..e - 1 /\ x - 1 \in Nat /\ (x - 1) + 1 = x
      BY <1>7
    <2>2. from[x - 1] = (m[p + (x - 1)] = m[q + (x - 1)] /\ from[x])
      BY <1>4, <2>1
    <2>3. from[x] = (m[q + e] = 0)
      BY <1>6
    <2>4. from[x - 1] = (m[q + e] = 0)
      BY <2>1, <2>2, <2>3
    <2>5. x - 1 \in S
      BY <1>6, <2>1, <2>4
    <2> QED
      BY <1>6, <2>5
  <1> QED
    BY <1>3, <1>6, <1>7

(* The first place where a string ends or two strings differ is in both or *)
(* at the end of one.                                                      *)
IsFirstStop(m, p, q, e) ==
  /\ e <= Strl(m, p) /\ e <= Strl(m, q)
  /\ m[p + e] = 0 \/ m[p + e] # m[q + e]
  /\ \A i \in 0..e - 1 : m[p + i] # 0 /\ m[q + i] # 0 /\ m[p + i] = m[q + i]

LEMMA FirstStop ==
  ASSUME NEW m, NEW p \in Nat, NEW q \in Nat, Ends(m, p) # {}, Ends(m, q) # {}
  PROVE  \E e \in Nat : IsFirstStop(m, p, q, e)
  <1> DEFINE T == {j \in Nat : m[p + j] = 0 \/ m[p + j] # m[q + j]}
  <1>1. /\ Strl(m, p) \in Nat /\ m[p + Strl(m, p)] = 0
        /\ Strl(m, q) \in Nat /\ m[q + Strl(m, q)] = 0
    BY InString
  <1>2. Strl(m, p) \in T /\ Strl(m, q) \in T
    BY <1>1
  <1>3. PICK e \in T : \A y \in T : e <= y
    BY <1>2, LeastNatural
  <1>4. e \in Nat /\ e <= Strl(m, p) /\ e <= Strl(m, q) /\ (m[p + e] = 0 \/ m[p + e] # m[q + e])
    BY <1>2, <1>3
  <1>5. ASSUME NEW i \in 0..e - 1 PROVE m[p + i] # 0 /\ m[q + i] # 0 /\ m[p + i] = m[q + i]
    <2>1. i \in Nat /\ i \notin T
      BY <1>3, <1>4
    <2> QED
      BY <2>1
  <1> QED
    BY <1>4, <1>5 DEF IsFirstStop

LEMMA Compared == UtilsInv => ComparesExact
  <1> SUFFICES ASSUME UtilsInv, NEW p \in Addresses, NEW q \in Addresses,
                      Ends(before, p) # {}, Ends(before, q) # {}
               PROVE  LET s == StringAt(before, p)
                          t == StringAt(before, q)
                      IN  /\ Strcmp(before, p, q) = 0 <=> s = t
                          /\ StartsWith(before, p, q) <=> Len(t) <= Len(s) /\ SubSeq(s, 1, Len(t)) = t
    BY DEF ComparesExact
  <1>a. PICK s, t, ls, lt :
          /\ s = StringAt(before, p) /\ t = StringAt(before, q)
          /\ ls = Strl(before, p) /\ lt = Strl(before, q)
    OBVIOUS
  <1>1. /\ p \in Nat /\ q \in Nat /\ before \in [Addresses -> Bytes]
    BY UtilsAssumption DEF Addresses, UtilsInv
  <1>2. /\ ls \in Nat /\ p + ls \in Addresses /\ before[p + ls] = 0
        /\ \A i \in 0..ls - 1 : p + i \in Addresses /\ before[p + i] # 0
        /\ lt \in Nat /\ q + lt \in Addresses /\ before[q + lt] = 0
        /\ \A i \in 0..lt - 1 : q + i \in Addresses /\ before[q + i] # 0
    BY <1>1, <1>a, InString
  <1>3. /\ s \in Seq(Nat) /\ Len(s) = ls /\ \A i \in 1..ls : s[i] = before[p + i - 1]
        /\ t \in Seq(Nat) /\ Len(t) = lt /\ \A i \in 1..lt : t[i] = before[q + i - 1]
    BY <1>1, <1>a, StringType
  <1>4. PICK e \in Nat :
           /\ e <= ls /\ e <= lt
           /\ before[p + e] = 0 \/ before[p + e] # before[q + e]
           /\ \A i \in 0..e - 1 : before[p + i] # 0 /\ before[q + i] # 0 /\ before[p + i] = before[q + i]
    <2>1. \E e \in Nat : IsFirstStop(before, p, q, e)
      BY <1>1, FirstStop
    <2> QED
      BY <1>a, <2>1 DEF IsFirstStop
  <1>5. before[p + e] \in Nat /\ before[q + e] \in Nat
    <2>1. p + e \in Addresses /\ q + e \in Addresses
      BY <1>1, <1>2, <1>4, UtilsAssumption DEF Addresses
    <2> QED
      BY <1>1, <2>1, UtilsAssumption
  <1>6. Strcmp(before, p, q) = before[p + e] - before[q + e]
    BY <1>4, StrcmpStops
  <1>7. StartsWith(before, p, q) <=> before[q + e] = 0
    BY <1>4, StartsWithStops
  (* Where each string ends. *)
  <1>8. (before[p + e] = 0 <=> e = ls) /\ (before[q + e] = 0 <=> e = lt)
    <2>1. e < ls => e \in 0..ls - 1
      BY <1>2, <1>4
    <2>2. e < lt => e \in 0..lt - 1
      BY <1>2, <1>4
    <2> QED
      BY <1>2, <1>4, <2>1, <2>2
  <1>9. ASSUME NEW i \in 1..e PROVE s[i] = t[i]
    <2>1. i - 1 \in 0..e - 1 /\ p + (i - 1) = p + i - 1 /\ q + (i - 1) = q + i - 1
          /\ i \in 1..ls /\ i \in 1..lt
      BY <1>1, <1>2, <1>4
    <2>2. before[p + (i - 1)] = before[q + (i - 1)]
      BY <1>4, <2>1
    <2> QED
      BY <1>3, <2>1, <2>2
  <1>10. Strcmp(before, p, q) = 0 <=> s = t
    <2>1. ASSUME Strcmp(before, p, q) = 0 PROVE s = t
      <3>1. before[p + e] = before[q + e]
        BY <1>5, <1>6, <2>1
      <3>2. e = ls /\ e = lt
        BY <1>4, <1>8, <3>1
      <3> QED
        BY <1>3, <1>9, <3>2, SeqEqual
    <2>2. ASSUME s = t PROVE Strcmp(before, p, q) = 0
      <3>1. ls = lt
        BY <1>3, <2>2
      <3>2. ASSUME e # ls PROVE FALSE
        <4>1. /\ e + 1 \in 1..ls /\ e + 1 \in 1..lt /\ p + (e + 1) - 1 = p + e /\ q + (e + 1) - 1 = q + e
          BY <1>1, <1>2, <1>4, <3>1, <3>2
        <4>2. s[e + 1] = before[p + e] /\ t[e + 1] = before[q + e]
          BY <1>3, <4>1
        <4>3. before[p + e] = before[q + e]
          BY <2>2, <4>2
        <4> QED
          BY <1>4, <1>8, <3>2, <4>3
      <3> QED
        BY <1>5, <1>6, <1>8, <3>1, <3>2
    <2> QED
      BY <2>1, <2>2
  <1>11. StartsWith(before, p, q) <=> Len(t) <= Len(s) /\ SubSeq(s, 1, Len(t)) = t
    <2>1. ASSUME e = lt PROVE Len(t) <= Len(s) /\ SubSeq(s, 1, Len(t)) = t
      <3>1. lt <= ls
        BY <1>4, <2>1
      <3>2. PICK u : u = SubSeq(s, 1, lt)
        OBVIOUS
      <3>3. u \in Seq(Nat) /\ Len(u) = lt /\ \A i \in 1..lt : u[i] = s[i]
        BY <1>2, <1>3, <3>1, <3>2
      <3>4. \A i \in 1..lt : u[i] = t[i]
        BY <1>9, <2>1, <3>3
      <3>5. u = t
        BY <1>3, <3>3, <3>4, SeqEqual
      <3> QED
        BY <1>3, <3>1, <3>2, <3>5
    <2>2. ASSUME Len(t) <= Len(s), SubSeq(s, 1, Len(t)) = t PROVE e = lt
      <3>1. SUFFICES ASSUME e # lt PROVE FALSE
        OBVIOUS
      <3>2. /\ e + 1 \in 1..lt /\ e + 1 \in 1..ls /\ e # ls
            /\ p + (e + 1) - 1 = p + e /\ q + (e + 1) - 1 = q + e
        BY <1>1, <1>2, <1>3, <1>4, <2>2, <3>1
      <3>3. PICK u : u = SubSeq(s, 1, lt)
        OBVIOUS
      <3>4. \A i \in 1..lt : u[i] = s[i]
        BY <1>2, <1>3, <2>2, <3>3
      <3>5. u = t
        BY <1>3, <2>2, <3>3
      <3>6. t[e + 1] = s[e + 1]
        BY <3>2, <3>4, <3>5
      <3>7. before[p + e] = before[q + e]
        BY <1>3, <3>2, <3>6
      <3> QED
        BY <1>4, <1>8, <3>2, <3>7
    <2> QED
      BY <1>7, <1>8, <2>1, <2>2
  <1> QED
    BY <1>10, <1>11, <1>a

(***************************************************************************)
(* Recursive functions.  What a step makes of a value is given as a        *)
(* function, so that there is one lemma for all of them.                   *)
(***************************************************************************)
Runs(g, n, A, a, step) ==
  g \in [0..n -> A] /\ g[0] = a /\ \A i \in 1..n : g[i] = step[<<i, g[i - 1]>>]

LEMMA Recursion ==
  ASSUME NEW A, NEW a \in A, NEW step \in [Nat \X A -> A], NEW last \in Nat
  PROVE  \E g : Runs(g, last, A, a, step)
  <1> DEFINE S == {n \in Nat : \E g : Runs(g, n, A, a, step)}
  <1>1. ASSUME NEW n \in Nat, 0..n - 1 \subseteq S PROVE n \in S
    <2>1. CASE n = 0
      <3>1. Runs([i \in 0..0 |-> a], 0, A, a, step)
        BY DEF Runs
      <3> QED
        BY <2>1, <3>1
    <2>2. CASE n # 0
      <3>0. n - 1 \in Nat /\ n - 1 \in 0..n - 1
        BY <2>2
      <3>1. n - 1 \in S /\ n - 1 \in Nat
        <4> HIDE DEF S
        <4> QED
          BY <1>1, <3>0
      <3>2. PICK g : Runs(g, n - 1, A, a, step)
        BY <3>1
      <3> DEFINE h == [i \in 0..n |-> IF i = n THEN step[<<n, g[n - 1]>>] ELSE g[i]]
      <3>3. step[<<n, g[n - 1]>>] \in A
        <4>1. g[n - 1] \in A
          BY <3>1, <3>2 DEF Runs
        <4> QED
          BY <4>1
      <3>4. h \in [0..n -> A] /\ h[0] = a
        BY <2>2, <3>1, <3>2, <3>3 DEF Runs
      <3>5. ASSUME NEW i \in 1..n PROVE h[i] = step[<<i, h[i - 1]>>]
        <4>1. i - 1 \in 0..n /\ i - 1 # n /\ h[i - 1] = g[i - 1]
          OBVIOUS
        <4>2. CASE i = n
          BY <4>1, <4>2
        <4>3. CASE i # n
          <5>1. i \in 1..n - 1 /\ h[i] = g[i]
            BY <4>3
          <5>2. g[i] = step[<<i, g[i - 1]>>]
            BY <3>2, <5>1 DEF Runs
          <5> HIDE DEF h
          <5> QED
            BY <4>1, <5>1, <5>2
        <4> QED
          BY <4>2, <4>3
      <3> HIDE DEF h
      <3>6. Runs(h, n, A, a, step)
        BY <3>4, <3>5 DEF Runs
      <3> QED
        BY <3>6
    <2> QED
      BY <2>1, <2>2
  <1>2. S \subseteq Nat
    OBVIOUS
  <1> HIDE DEF S
  <1>3. S = Nat
    BY <1>1, <1>2, InductionBelow
  <1> QED
    BY <1>3 DEF S

(***************************************************************************)
(* Digits and their value                                                  *)
(***************************************************************************)
Radices == {8, 10, 16}

LEMMA DivideBy ==
  ASSUME NEW r \in Radices, NEW n \in Nat
  PROVE  /\ n \div r \in Nat /\ n % r \in 0..r - 1 /\ (n \div r) * r + (n % r) = n
         /\ n >= r => n \div r \in 1..n - 1
  <1>1. CASE r = 8
    <2>1. PICK q, m : q = n \div 8 /\ m = n % 8
      OBVIOUS
    <2>2. q \in Nat /\ m \in 0..7 /\ m = n - 8 * q
      BY <2>1
    <2>3. (n >= 8 => q \in 1..n - 1) /\ q * 8 + m = n
      BY <2>2
    <2>4. n \div r = q /\ n % r = m
      BY <1>1, <2>1
    <2>5. q \in Nat /\ m \in 0..r - 1 /\ q * r + m = n /\ (n >= r => q \in 1..n - 1)
      BY <1>1, <2>2, <2>3
    <2>6. n \div r \in Nat /\ n % r \in 0..r - 1
      BY <2>4, <2>5, Zenon
    <2>7. (n \div r) * r + (n % r) = n
      BY <2>4, <2>5, Zenon
    <2>8. n >= r => n \div r \in 1..n - 1
      BY <2>4, <2>5, Zenon
    <2> QED
      BY <2>6, <2>7, <2>8
  <1>2. CASE r = 10
    <2>1. PICK q, m : q = n \div 10 /\ m = n % 10
      OBVIOUS
    <2>2. q \in Nat /\ m \in 0..9 /\ m = n - 10 * q
      BY <2>1
    <2>3. (n >= 10 => q \in 1..n - 1) /\ q * 10 + m = n
      BY <2>2
    <2>4. n \div r = q /\ n % r = m
      BY <1>2, <2>1
    <2>5. q \in Nat /\ m \in 0..r - 1 /\ q * r + m = n /\ (n >= r => q \in 1..n - 1)
      BY <1>2, <2>2, <2>3
    <2>6. n \div r \in Nat /\ n % r \in 0..r - 1
      BY <2>4, <2>5, Zenon
    <2>7. (n \div r) * r + (n % r) = n
      BY <2>4, <2>5, Zenon
    <2>8. n >= r => n \div r \in 1..n - 1
      BY <2>4, <2>5, Zenon
    <2> QED
      BY <2>6, <2>7, <2>8
  <1>3. CASE r = 16
    <2>1. PICK q, m : q = n \div 16 /\ m = n % 16
      OBVIOUS
    <2>2. q \in Nat /\ m \in 0..15 /\ m = n - 16 * q
      BY <2>1
    <2>3. (n >= 16 => q \in 1..n - 1) /\ q * 16 + m = n
      BY <2>2
    <2>4. n \div r = q /\ n % r = m
      BY <1>3, <2>1
    <2>5. q \in Nat /\ m \in 0..r - 1 /\ q * r + m = n /\ (n >= r => q \in 1..n - 1)
      BY <1>3, <2>2, <2>3
    <2>6. n \div r \in Nat /\ n % r \in 0..r - 1
      BY <2>4, <2>5, Zenon
    <2>7. (n \div r) * r + (n % r) = n
      BY <2>4, <2>5, Zenon
    <2>8. n >= r => n \div r \in 1..n - 1
      BY <2>4, <2>5, Zenon
    <2> QED
      BY <2>6, <2>7, <2>8
  <1> QED
    BY <1>1, <1>2, <1>3 DEF Radices

IsValue(g, ds, r) == g = [i \in 0..Len(ds) |-> IF i = 0 THEN 0 ELSE g[i - 1] * r + ds[i]]

LEMMA ValueIs ==
  ASSUME NEW g, NEW ds, NEW r, NEW n \in Nat, Len(ds) = n
  PROVE  IsValue(g, ds, r) <=> /\ g = [i \in 0..n |-> g[i]]
                               /\ \A i \in 0..n : g[i] = IF i = 0 THEN 0 ELSE g[i - 1] * r + ds[i]
  BY DEF IsValue

Follows(g, ds, r, n) == \A i \in 0..n : g[i] = IF i = 0 THEN 0 ELSE g[i - 1] * r + ds[i]
Agree(ds, es, m) == \A i \in 1..m : ds[i] = es[i]

(* Two functions with the same recursion are equal. *)
LEMMA SameValues ==
  ASSUME NEW m \in Nat, NEW n \in Nat, m <= n, NEW g, NEW h, NEW ds, NEW es, NEW r,
         Agree(ds, es, m), Follows(g, ds, r, m), Follows(h, es, r, n)
  PROVE  \A i \in 0..m : g[i] = h[i]
  <1> DEFINE T == {i \in 0..m : g[i] # h[i]}
  <1> SUFFICES ASSUME T # {} PROVE FALSE
    OBVIOUS
  <1>1. PICK i \in T : \A j \in T : i <= j
    <2>1. T \subseteq Nat
      OBVIOUS
    <2> HIDE DEF T
    <2> QED
      BY <2>1, LeastNatural
  <1>2. i \in 0..m /\ g[i] # h[i]
    OBVIOUS
  <1>3. i \in 0..n /\ g[i] = (IF i = 0 THEN 0 ELSE g[i - 1] * r + ds[i])
    BY <1>2 DEF Follows
  <1>4. h[i] = (IF i = 0 THEN 0 ELSE h[i - 1] * r + es[i])
    BY <1>3 DEF Follows
  <1>5. i # 0
    BY <1>2, <1>3, <1>4
  <1>6. i \in 1..m /\ i - 1 \in 0..m /\ ~(i <= i - 1)
    BY <1>2, <1>5
  <1>7. g[i - 1] = h[i - 1]
    BY <1>1, <1>6
  <1>8. ds[i] = es[i]
    BY <1>6 DEF Agree
  <1> QED
    BY <1>2, <1>3, <1>4, <1>5, <1>7, <1>8

LEMMA ValueExists ==
  ASSUME NEW ds, NEW r \in Nat, NEW n \in Nat, Len(ds) = n, \A i \in 1..n : ds[i] \in Nat
  PROVE  \E g : IsValue(g, ds, r) /\ ValueOf(ds, r) = g[n]
  <1> DEFINE step == [x \in Nat \X Nat |-> IF x[1] \in 1..n THEN x[2] * r + ds[x[1]] ELSE 0]
  <1>1. step \in [Nat \X Nat -> Nat]
    <2>1. ASSUME NEW x \in Nat \X Nat PROVE (IF x[1] \in 1..n THEN x[2] * r + ds[x[1]] ELSE 0) \in Nat
      <3>1. x[2] * r \in Nat
        OBVIOUS
      <3> QED
        BY <3>1
    <2> QED
      BY <2>1
  <1>2. PICK g : Runs(g, n, Nat, 0, step)
    <2> HIDE DEF step
    <2> QED
      BY <1>1, Recursion
  <1>3. g \in [0..n -> Nat] /\ g[0] = 0 /\ \A i \in 1..n : g[i] = step[<<i, g[i - 1]>>]
    BY <1>2 DEF Runs
  <1>4. ASSUME NEW i \in 0..n PROVE g[i] = IF i = 0 THEN 0 ELSE g[i - 1] * r + ds[i]
    <2>1. CASE i = 0
      BY <1>3, <2>1
    <2>2. CASE i # 0
      <3>1. i \in 1..n /\ i - 1 \in 0..n
        BY <2>2
      <3>2. i \in Nat /\ g[i - 1] \in Nat
        BY <1>3, <3>1
      <3>3. step[<<i, g[i - 1]>>] = g[i - 1] * r + ds[i]
        BY <3>1, <3>2
      <3> QED
        BY <1>3, <2>2, <3>1, <3>3
    <2> QED
      BY <2>1, <2>2
  <1>5. g = [i \in 0..n |-> g[i]]
    BY <1>3
  <1>6. IsValue(g, ds, r)
    BY <1>4, <1>5, ValueIs
  <1> DEFINE v == CHOOSE v : IsValue(v, ds, r)
  <1>7. IsValue(v, ds, r)
    BY <1>6
  <1>8. ValueOf(ds, r) = v[n]
    BY DEF ValueOf, IsValue
  <1> QED
    BY <1>7, <1>8

LEMMA ValueOfOne == ASSUME NEW x \in Nat, NEW r \in Nat PROVE ValueOf(<<x>>, r) = x
  <1>1. PICK ds : ds = <<x>>
    OBVIOUS
  <1>2. Len(ds) = 1 /\ ds[1] = x
    BY <1>1
  <1>3. PICK g : IsValue(g, ds, r) /\ ValueOf(ds, r) = g[1]
    <2>1. PICK n \in Nat : n = 1
      OBVIOUS
    <2>2. Len(ds) = n /\ \A i \in 1..n : ds[i] \in Nat
      BY <1>2, <2>1
    <2>3. \E g : IsValue(g, ds, r) /\ ValueOf(ds, r) = g[n]
      BY <2>2, ValueExists
    <2> QED
      BY <2>1, <2>3
  <1>4. \A i \in 0..1 : g[i] = IF i = 0 THEN 0 ELSE g[i - 1] * r + ds[i]
    BY <1>2, <1>3 DEF IsValue
  <1>5. g[0] = 0 /\ g[1] = g[0] * r + ds[1]
    BY <1>4
  <1> QED
    BY <1>1, <1>2, <1>3, <1>5

LEMMA ValueOfMore ==
  ASSUME NEW ds \in Seq(Nat), NEW x \in Nat, NEW r \in Nat
  PROVE  ValueOf(Append(ds, x), r) = ValueOf(ds, r) * r + x
  <1>a. PICK n : n = Len(ds)
    OBVIOUS
  <1>b. PICK es : es = Append(ds, x)
    OBVIOUS
  <1>0. n \in Nat /\ Len(ds) = n /\ \A i \in 1..n : ds[i] \in Nat
    BY <1>a
  <1>1. Len(es) = n + 1 /\ es[n + 1] = x /\ \A i \in 1..n : es[i] = ds[i]
    BY <1>a, <1>b
  <1>c. \A i \in 1..n + 1 : es[i] \in Nat
    <2>1. \A i \in 1..n + 1 : i = n + 1 \/ i \in 1..n
      BY <1>0
    <2> QED
      BY <1>0, <1>1, <2>1
  <1>d. n + 1 \in Nat /\ n + 1 \in 0..n + 1 /\ n + 1 # 0 /\ (n + 1) - 1 = n /\ n \in 0..n /\ n <= n + 1
    BY <1>0
  <1>2. PICK g : IsValue(g, ds, r) /\ ValueOf(ds, r) = g[n]
    BY <1>0, ValueExists
  <1>3. PICK h : IsValue(h, es, r) /\ ValueOf(es, r) = h[n + 1]
    <2>1. PICK l \in Nat : l = n + 1
      BY <1>d
    <2>2. Len(es) = l /\ \A i \in 1..l : es[i] \in Nat
      BY <1>1, <1>c, <2>1
    <2>3. \E h : IsValue(h, es, r) /\ ValueOf(es, r) = h[l]
      BY <2>2, ValueExists
    <2> QED
      BY <2>1, <2>3
  <1>4. \A i \in 0..n : g[i] = IF i = 0 THEN 0 ELSE g[i - 1] * r + ds[i]
    BY <1>0, <1>2 DEF IsValue
  <1>5. \A i \in 0..n + 1 : h[i] = IF i = 0 THEN 0 ELSE h[i - 1] * r + es[i]
    BY <1>1, <1>3, <1>d DEF IsValue
  <1>6. g[n] = h[n]
    <2>1. PICK l \in Nat : l = n + 1
      BY <1>d
    <2>2. n <= l /\ Follows(h, es, r, l)
      BY <1>5, <1>d, <2>1 DEF Follows
    <2>3. \A i \in 0..n : g[i] = h[i]
      <3>1. Agree(ds, es, n) /\ Follows(g, ds, r, n)
        BY <1>1, <1>4 DEF Agree, Follows
      <3> QED
        BY <1>0, <2>2, <3>1, SameValues
    <2> QED
      BY <1>d, <2>3
  <1>7. h[n + 1] = h[n] * r + x
    BY <1>1, <1>5, <1>d
  <1> QED
    BY <1>2, <1>3, <1>6, <1>7, <1>b

(* printf_number's digits of 0..n. *)
Divides(g, n, r) ==
  \A i \in 0..n : g[i] = IF i < r THEN <<i>> ELSE Append(g[i \div r], i % r)

LEMMA SameDigits ==
  ASSUME NEW r \in Radices, NEW m \in Nat, NEW n \in Nat, m <= n, NEW g, NEW h,
         Divides(g, m, r), Divides(h, n, r)
  PROVE  \A i \in 0..m : g[i] = h[i]
  <1> DEFINE T == {i \in 0..m : g[i] # h[i]}
  <1> SUFFICES ASSUME T # {} PROVE FALSE
    OBVIOUS
  <1>1. PICK i \in T : \A j \in T : i <= j
    <2>1. T \subseteq Nat
      OBVIOUS
    <2> HIDE DEF T
    <2> QED
      BY <2>1, LeastNatural
  <1>2. i \in 0..m /\ i \in 0..n /\ i \in Nat /\ g[i] # h[i]
    OBVIOUS
  <1>3. g[i] = IF i < r THEN <<i>> ELSE Append(g[i \div r], i % r)
    BY <1>2 DEF Divides
  <1>4. h[i] = IF i < r THEN <<i>> ELSE Append(h[i \div r], i % r)
    BY <1>2 DEF Divides
  <1>5. r \in Nat
    BY DEF Radices
  <1>6. ~(i < r) /\ i >= r
    BY <1>2, <1>3, <1>4, <1>5
  <1>7. PICK q : q = i \div r /\ q \in 1..i - 1
    BY <1>2, <1>6, DivideBy
  <1>8. q \in 0..m /\ ~(i <= q)
    BY <1>2, <1>7
  <1>9. g[q] = h[q]
    BY <1>1, <1>8
  <1> QED
    BY <1>2, <1>3, <1>4, <1>6, <1>7, <1>9

LEMMA DigitsBelow ==
  ASSUME NEW r \in Radices, NEW last \in Nat PROVE \E g : Divides(g, last, r)
  <1> DEFINE S == {n \in Nat : \E g : Divides(g, n, r)}
  <1>0. r \in Nat /\ r > 0
    BY DEF Radices
  <1>1. ASSUME NEW n \in Nat, 0..n - 1 \subseteq S PROVE n \in S
    <2>1. CASE n = 0
      <3>1. PICK g : g = [i \in 0..0 |-> <<0>>]
        OBVIOUS
      <3>2. Divides(g, 0, r)
        BY <1>0, <3>1 DEF Divides
      <3> QED
        BY <2>1, <3>2
    <2>2. CASE n # 0
      <3>1. n - 1 \in Nat /\ n - 1 \in 0..n - 1
        BY <2>2
      <3>2. n - 1 \in S
        <4> HIDE DEF S
        <4> QED
          BY <1>1, <3>1
      <3>3. PICK g : Divides(g, n - 1, r)
        BY <3>2
      <3>4. PICK x : x = IF n < r THEN <<n>> ELSE Append(g[n \div r], n % r)
        OBVIOUS
      <3>5. PICK h : h = [i \in 0..n |-> IF i = n THEN x ELSE g[i]]
        OBVIOUS
      <3>6. ASSUME NEW i \in 0..n PROVE h[i] = IF i < r THEN <<i>> ELSE Append(h[i \div r], i % r)
        <4>0. h[i] = IF i = n THEN x ELSE g[i]
          BY <3>5
        <4>1. i >= r => h[i \div r] = g[i \div r]
          <5> SUFFICES ASSUME i >= r PROVE h[i \div r] = g[i \div r]
            OBVIOUS
          <5>1. PICK q : q = i \div r /\ q \in 1..i - 1
            BY DivideBy
          <5>2. q \in 0..n /\ q # n
            BY <5>1
          <5> QED
            BY <3>5, <5>1, <5>2
        <4>2. i < r \/ i >= r
          BY <1>0
        <4>3. CASE i = n
          BY <3>4, <4>0, <4>1, <4>2, <4>3
        <4>4. CASE i # n
          <5>1. i \in 0..n - 1
            BY <4>4
          <5>2. g[i] = IF i < r THEN <<i>> ELSE Append(g[i \div r], i % r)
            BY <3>3, <5>1 DEF Divides
          <5> QED
            BY <4>0, <4>1, <4>2, <4>4, <5>2
        <4> QED
          BY <4>3, <4>4
      <3>7. Divides(h, n, r)
        BY <3>6 DEF Divides
      <3> QED
        BY <3>7
    <2> QED
      BY <2>1, <2>2
  <1>2. S \subseteq Nat
    OBVIOUS
  <1>3. S = Nat
    <2> HIDE DEF S
    <2> QED
      BY <1>1, <1>2, InductionBelow
  <1>4. last \in S
    BY <1>3
  <1> QED
    BY <1>4

LEMMA DigitsIs ==
  ASSUME NEW r \in Radices, NEW n \in Nat
  PROVE  Digits(n, r) = IF n < r THEN <<n>> ELSE Append(Digits(n \div r, r), n % r)
  <1> DEFINE Wanted(d) == d = [i \in Nat |-> IF i < r THEN <<i>> ELSE Append(d[i \div r], i % r)]
             G(m) == CHOOSE g : Divides(g, m, r)
  <1>0. r \in Nat
    BY DEF Radices
  <1>1. \A m \in Nat : Divides(G(m), m, r)
    BY DigitsBelow
  <1>2. PICK d : d = [m \in Nat |-> G(m)[m]]
    OBVIOUS
  <1>3. ASSUME NEW i \in Nat PROVE d[i] = IF i < r THEN <<i>> ELSE Append(d[i \div r], i % r)
    <2> HIDE DEF G
    <2>1. d[i] = G(i)[i]
      BY <1>2
    <2>2. G(i)[i] = IF i < r THEN <<i>> ELSE Append(G(i)[i \div r], i % r)
      <3>1. i \in 0..i
        OBVIOUS
      <3> QED
        BY <1>1, <3>1 DEF Divides
    <2>3. i >= r => d[i \div r] = G(i)[i \div r]
      <3> SUFFICES ASSUME i >= r PROVE d[i \div r] = G(i)[i \div r]
        OBVIOUS
      <3>1. PICK q : q = i \div r /\ q \in 1..i - 1
        BY DivideBy
      <3>2. q \in Nat /\ q <= i /\ q \in 0..q
        BY <3>1
      <3>3. G(q)[q] = G(i)[q]
        <4>1. PICK g, h : g = G(q) /\ h = G(i)
          OBVIOUS
        <4>2. Divides(g, q, r) /\ Divides(h, i, r)
          BY <1>1, <3>2, <4>1
        <4>3. g[q] = h[q]
          BY <3>2, <4>2, SameDigits
        <4> QED
          BY <4>1, <4>3
      <3>4. d[q] = G(q)[q]
        BY <1>2, <3>2
      <3> QED
        BY <3>1, <3>3, <3>4
    <2>4. i < r \/ i >= r
      BY <1>0
    <2> QED
      BY <2>1, <2>2, <2>3, <2>4
  <1>4. Wanted(d)
    <2>1. d = [i \in Nat |-> d[i]]
      BY <1>2
    <2> QED
      BY <1>3, <2>1
  <1> DEFINE digits == CHOOSE e : Wanted(e)
  <1>5. Wanted(digits)
    BY <1>4
  <1>6. \A m : Digits(m, r) = digits[m]
    BY DEF Digits
  <1> HIDE DEF digits
  <1>7. digits[n] = IF n < r THEN <<n>> ELSE Append(digits[n \div r], n % r)
    BY <1>5
  <1> QED
    BY <1>6, <1>7

(* They are a numeral that reads back as the number. *)
IsNumeralOf(ds, n, r) ==
  /\ ds \in Seq(Nat) /\ ds # <<>> /\ \A i \in 1..Len(ds) : ds[i] \in 0..r - 1
  /\ ds[1] = 0 => n = 0
  /\ n < r => Len(ds) = 1
  /\ ValueOf(ds, r) = n

LEMMA NumeralOf ==
  ASSUME NEW r \in Radices, NEW last \in Nat PROVE IsNumeralOf(Digits(last, r), last, r)
  <1> DEFINE S == {n \in Nat : IsNumeralOf(Digits(n, r), n, r)}
  <1>0. r \in Nat /\ r > 1
    BY DEF Radices
  <1>1. ASSUME NEW n \in Nat, 0..n - 1 \subseteq S PROVE n \in S
    <2>1. CASE n < r
      <3>1. Digits(n, r) = <<n>>
        BY <2>1, DigitsIs
      <3>2. ValueOf(<<n>>, r) = n
        BY <1>0, ValueOfOne
      <3>3. <<n>> \in Seq(Nat) /\ <<n>> # <<>> /\ Len(<<n>>) = 1 /\ <<n>>[1] = n
        OBVIOUS
      <3>4. \A i \in 1..Len(<<n>>) : <<n>>[i] \in 0..r - 1
        BY <1>0, <2>1
      <3>5. IsNumeralOf(<<n>>, n, r)
        BY <3>2, <3>3, <3>4 DEF IsNumeralOf
      <3> QED
        BY <3>1, <3>5
    <2>2. CASE ~(n < r)
      <3>1. n >= r
        BY <1>0, <2>2
      <3>2. PICK q, m : q = n \div r /\ m = n % r /\ q \in 1..n - 1 /\ m \in 0..r - 1 /\ q * r + m = n
        BY <3>1, DivideBy
      <3>3. q \in 0..n - 1 /\ q \in Nat /\ q # 0 /\ m \in Nat
        BY <1>0, <3>2
      <3>4. q \in S
        <4> HIDE DEF S
        <4> QED
          BY <1>1, <3>3
      <3>5. PICK ds : ds = Digits(q, r)
        OBVIOUS
      <3>6. IsNumeralOf(ds, q, r)
        BY <3>4, <3>5
      <3>7. PICK es : es = Append(ds, m)
        OBVIOUS
      <3>8. Digits(n, r) = es
        BY <2>2, <3>2, <3>5, <3>7, DigitsIs
      <3>9. ds \in Seq(Nat) /\ ds # <<>> /\ ds[1] # 0 /\ ValueOf(ds, r) = q
        BY <3>3, <3>6 DEF IsNumeralOf
      <3>10. es \in Seq(Nat) /\ es # <<>> /\ es[1] = ds[1]
        BY <3>3, <3>7, <3>9
      <3>11. \A i \in 1..Len(es) : es[i] \in 0..r - 1
        <4>1. PICK l : l = Len(ds)
          OBVIOUS
        <4>2. l \in Nat /\ Len(es) = l + 1 /\ es[l + 1] = m /\ \A i \in 1..l : es[i] = ds[i]
          BY <3>7, <3>9, <4>1
        <4>3. \A i \in 1..l : ds[i] \in 0..r - 1
          BY <3>6, <4>1 DEF IsNumeralOf
        <4>4. \A i \in 1..l + 1 : i = l + 1 \/ i \in 1..l
          BY <4>2
        <4> QED
          BY <3>2, <4>2, <4>3, <4>4
      <3>12. ValueOf(es, r) = n
        <4>1. ValueOf(Append(ds, m), r) = ValueOf(ds, r) * r + m
          BY <1>0, <3>3, <3>9, ValueOfMore
        <4> QED
          BY <3>2, <3>7, <3>9, <4>1
      <3>13. IsNumeralOf(es, n, r)
        BY <2>2, <3>9, <3>10, <3>11, <3>12 DEF IsNumeralOf
      <3> QED
        BY <3>8, <3>13
    <2> QED
      BY <2>1, <2>2
  <1>2. S \subseteq Nat
    OBVIOUS
  <1>3. S = Nat
    <2> HIDE DEF S
    <2> QED
      BY <1>1, <1>2, InductionBelow
  <1>4. last \in S
    BY <1>3
  <1> QED
    BY <1>4

(***************************************************************************)
(* The text of a format                                                    *)
(***************************************************************************)
Letters == {".", "%", "h", "l"} \cup Specs \cup Numbers

(* What is put behind a text leaves the places in it. *)
Joins(t, s, m, c, n) ==
  /\ Len(t) = m + n
  /\ \A x \in 1..m : t[x] = s[x]
  /\ \A x \in 1..n : t[m + x] = c[x]

LEMMA PlacesKept ==
  ASSUME NEW A, NEW s \in Seq(A), NEW c \in Seq(A)
  PROVE  Concat(s, c) \in Seq(A) /\ Joins(Concat(s, c), s, Len(s), c, Len(c))
  <1>1. PICK m, n, t : m = Len(s) /\ n = Len(c) /\ t = Concat(s, c)
    OBVIOUS
  <1>2. /\ t \in Seq(A) /\ Len(t) = m + n /\ m \in Nat /\ n \in Nat
        /\ \A i \in 1 .. m + n : t[i] = IF i <= m THEN s[i] ELSE c[i - m]
    BY <1>1, ConcatProperties DEF Concat
  <1>3. \A x \in 1..m : x \in 1 .. m + n /\ x <= m
    BY <1>2
  <1>4. \A x \in 1..n : m + x \in 1 .. m + n /\ ~(m + x <= m) /\ (m + x) - m = x
    BY <1>2
  <1>5. Joins(t, s, m, c, n)
    BY <1>2, <1>3, <1>4 DEF Joins
  <1> QED
    BY <1>1, <1>2, <1>5

LEMMA CharactersAre ==
  ASSUME NEW part \in Parts
  PROVE  /\ Characters(part) \in Seq(Letters)
         /\ part = Plain => Len(Characters(part)) = 1 /\ Characters(part)[1] = "."
         /\ part # Plain => /\ Len(Characters(part)) = 2 + Len(part.length)
                            /\ Characters(part)[1] = "%"
                            /\ \A x \in 1..Len(part.length) : Characters(part)[1 + x] = part.length[x]
                            /\ Characters(part)[2 + Len(part.length)] = part.spec
  <1>1. CASE part = Plain
    <2>1. Characters(part) = <<".">>
      BY <1>1 DEF Characters
    <2>2. <<".">> \in Seq(Letters) /\ Len(<<".">>) = 1 /\ <<".">>[1] = "."
      BY DEF Letters
    <2> QED
      BY <1>1, <2>1, <2>2
  <1>2. CASE part # Plain
    <2>1. part.length \in Lengths /\ part.spec \in Letters
      BY <1>2 DEF Parts, Letters, Specs, Lengths
    <2>2. PICK mid, n : mid = part.length /\ n = Len(mid)
      OBVIOUS
    <2>3. mid \in Seq(Letters) /\ n \in Nat
      <3>1. {"h", "l"} \subseteq Letters
        BY DEF Letters
      <3>2. mid = <<>> \/ mid = <<"h">> \/ mid = <<"h", "h">> \/ mid = <<"l">> \/ mid = <<"l", "l">>
        BY <2>1, <2>2 DEF Lengths
      <3>3. <<>> \in Seq(Letters) /\ <<"h">> \in Seq(Letters) /\ <<"l">> \in Seq(Letters)
        BY <3>1
      <3>4. <<"h", "h">> \in Seq(Letters) /\ <<"l", "l">> \in Seq(Letters)
        BY <3>1
      <3>5. mid \in Seq(Letters)
        BY <3>2, <3>3, <3>4
      <3> QED
        BY <2>2, <3>5
    <2>4. PICK h, e : h = <<"%">> /\ e = <<part.spec>>
      OBVIOUS
    <2>5. h \in Seq(Letters) /\ Len(h) = 1 /\ h[1] = "%" /\ e \in Seq(Letters) /\ Len(e) = 1 /\ e[1] = part.spec
      BY <2>1, <2>4 DEF Letters
    <2>6. PICK s : s = Concat(h, mid)
      OBVIOUS
    <2>7. /\ s \in Seq(Letters) /\ Len(s) = 1 + n
          /\ \A x \in 1..1 : s[x] = h[x]
          /\ \A x \in 1..n : s[1 + x] = mid[x]
      <3>1. s \in Seq(Letters) /\ Joins(s, h, 1, mid, n)
        BY <2>2, <2>3, <2>5, <2>6, PlacesKept
      <3> QED
        BY <3>1 DEF Joins
    <2>8. PICK t : t = Concat(s, e)
      OBVIOUS
    <2>9. /\ t \in Seq(Letters) /\ Len(t) = (1 + n) + 1
          /\ \A x \in 1 .. 1 + n : t[x] = s[x]
          /\ \A x \in 1..1 : t[(1 + n) + x] = e[x]
      <3>1. t \in Seq(Letters) /\ Joins(t, s, 1 + n, e, 1)
        BY <2>5, <2>7, <2>8, PlacesKept
      <3> QED
        BY <3>1 DEF Joins
    <2>10. Characters(part) = t
      BY <1>2, <2>2, <2>4, <2>6, <2>8 DEF Characters, Concat
    <2>11. t[1] = "%"
      <3>1. 1 \in 1..1 /\ 1 \in 1 .. 1 + n
        BY <2>3
      <3> QED
        BY <2>5, <2>7, <2>9, <3>1
    <2>12. ASSUME NEW x \in 1..n PROVE t[1 + x] = mid[x]
      <3>1. 1 + x \in 1 .. 1 + n
        BY <2>3
      <3> QED
        BY <2>7, <2>9, <3>1
    <2>13. t[2 + n] = part.spec
      <3>1. 2 + n = (1 + n) + 1 /\ 1 \in 1..1
        BY <2>3
      <3> QED
        BY <2>5, <2>9, <3>1
    <2>14. Len(t) = 2 + n
      BY <2>3, <2>9
    <2> QED
      BY <1>2, <2>2, <2>9, <2>10, <2>11, <2>12, <2>13, <2>14
  <1> QED
    BY <1>1, <1>2

(* Part i begins behind character start[i] of the text. *)
Placed(start, parts, text, i) ==
  /\ start[i + 1] = start[i] + Len(Characters(parts[i])) /\ start[i + 1] <= Len(text)
  /\ \A x \in 1..Len(Characters(parts[i])) : text[start[i] + x] = Characters(parts[i])[x]

IsLayout(start, parts, n, text) ==
  /\ text \in Seq(Letters) /\ start \in [1..n + 1 -> Nat]
  /\ start[1] = 0 /\ start[n + 1] = Len(text)
  /\ \A i \in 1..n : Placed(start, parts, text, i)

IsText(g, parts) ==
  g = [i \in 0..Len(parts) |-> IF i = 0 THEN <<>> ELSE Concat(g[i - 1], Characters(parts[i]))]

TextOf(g, parts, n) ==
  /\ g \in [0..n -> Seq(Letters)] /\ g[0] = <<>>
  /\ \A i \in 1..n : g[i] = Concat(g[i - 1], Characters(parts[i]))

LEMMA TextExists ==
  ASSUME NEW n \in Nat, NEW parts \in [1..n -> Parts], Len(parts) = n
  PROVE  \E g : TextOf(g, parts, n) /\ Flat(parts) = g[n]
  <1> DEFINE Texts == Seq(Letters)
             step == [x \in Nat \X Texts |->
                        IF x[1] \in 1..n THEN Concat(x[2], Characters(parts[x[1]])) ELSE x[2]]
  <1>1. step \in [Nat \X Texts -> Texts]
    <2>1. ASSUME NEW x \in Nat \X Texts
          PROVE (IF x[1] \in 1..n THEN Concat(x[2], Characters(parts[x[1]])) ELSE x[2]) \in Texts
      <3>1. CASE x[1] \in 1..n
        <4>1. PICK u, v : u = x[2] /\ v = Characters(parts[x[1]])
          OBVIOUS
        <4>2. u \in Seq(Letters) /\ v \in Seq(Letters)
          BY <3>1, <4>1, CharactersAre
        <4>3. u \o v \in Seq(Letters)
          BY <4>2
        <4> QED
          BY <3>1, <4>1, <4>3 DEF Concat
      <3> QED
        BY <3>1
    <2> QED
      BY <2>1
  <1>2. PICK g : Runs(g, n, Texts, <<>>, step)
    <2>1. <<>> \in Texts
      OBVIOUS
    <2> HIDE DEF step, Texts
    <2> QED
      BY <1>1, <2>1, Recursion
  <1>3. g \in [0..n -> Texts] /\ g[0] = <<>> /\ \A i \in 1..n : g[i] = step[<<i, g[i - 1]>>]
    BY <1>2 DEF Runs
  <1>4. ASSUME NEW i \in 1..n PROVE g[i] = Concat(g[i - 1], Characters(parts[i]))
    <2> HIDE DEF Texts
    <2>1. i \in Nat /\ i - 1 \in 0..n
      OBVIOUS
    <2>2. g[i - 1] \in Texts
      BY <1>3, <2>1
    <2>3. step[<<i, g[i - 1]>>] = Concat(g[i - 1], Characters(parts[i]))
      BY <2>1, <2>2
    <2> QED
      BY <1>3, <2>3
  <1>5. IsText(g, parts)
    <2>1. g = [i \in 0..n |-> g[i]]
      BY <1>3
    <2>2. \A i \in 0..n : g[i] = IF i = 0 THEN <<>> ELSE Concat(g[i - 1], Characters(parts[i]))
      <3>1. \A i \in 0..n : i = 0 \/ i \in 1..n
        OBVIOUS
      <3> QED
        BY <1>3, <1>4, <3>1
    <2> QED
      BY <2>1, <2>2 DEF IsText
  <1> DEFINE text == CHOOSE f : IsText(f, parts)
  <1>6. IsText(text, parts)
    BY <1>5
  <1>7. Flat(parts) = text[n]
    BY DEF Flat, IsText, Concat
  <1> HIDE DEF text
  <1>8. \A i \in 0..n : text[i] = IF i = 0 THEN <<>> ELSE Concat(text[i - 1], Characters(parts[i]))
    BY <1>6 DEF IsText
  <1>9. text[n] = g[n]
    <2> DEFINE T == {i \in 0..n : g[i] # text[i]}
    <2>1. ASSUME T # {} PROVE FALSE
      <3>1. PICK i \in T : \A j \in T : i <= j
        <4>1. T \subseteq Nat
          OBVIOUS
        <4> HIDE DEF T
        <4> QED
          BY <2>1, <4>1, LeastNatural
      <3>2. i \in 0..n /\ g[i] # text[i]
        OBVIOUS
      <3>3. i # 0
        BY <1>3, <1>8, <3>2
      <3>4. i \in 1..n /\ i - 1 \in 0..n /\ ~(i <= i - 1)
        BY <3>2, <3>3
      <3>5. g[i - 1] = text[i - 1]
        BY <3>1, <3>4
      <3>6. g[i] = Concat(g[i - 1], Characters(parts[i])) /\ text[i] = Concat(text[i - 1], Characters(parts[i]))
        BY <1>4, <1>8, <3>2, <3>3, <3>4
      <3> QED
        BY <3>2, <3>5, <3>6
    <2>2. n \in 0..n
      OBVIOUS
    <2> QED
      BY <2>1, <2>2
  <1>10. TextOf(g, parts, n)
    BY <1>3, <1>4 DEF TextOf
  <1> QED
    BY <1>7, <1>9, <1>10

LEMMA Layout ==
  ASSUME NEW n \in Nat, NEW parts \in [1..n -> Parts], Len(parts) = n
  PROVE  \E start : IsLayout(start, parts, n, Flat(parts))
  <1>a. PICK g : TextOf(g, parts, n) /\ Flat(parts) = g[n]
    BY TextExists
  <1>1. /\ g \in [0..n -> Seq(Letters)] /\ Flat(parts) = g[n] /\ g[0] = <<>>
        /\ \A i \in 1..n : g[i] = Concat(g[i - 1], Characters(parts[i]))
    BY <1>a DEF TextOf
  <1>2. PICK start : start = [i \in 1..n + 1 |-> Len(g[i - 1])]
    OBVIOUS
  <1>3. \A i \in 0..n : Len(g[i]) \in Nat /\ start[i + 1] = Len(g[i])
    <2>1. \A i \in 0..n : g[i] \in Seq(Letters)
      BY <1>1
    <2>2. \A i \in 0..n : i + 1 \in 1..n + 1 /\ (i + 1) - 1 = i
      OBVIOUS
    <2> QED
      BY <1>2, <2>1, <2>2
  <1>4. start \in [1..n + 1 -> Nat]
    <2>1. \A i \in 1..n + 1 : i - 1 \in 0..n
      OBVIOUS
    <2> QED
      BY <1>2, <1>3, <2>1
  <1> DEFINE All(m) == \A i \in 1..m : Placed(start, parts, g[m], i)
             S == {m \in Nat : m <= n => All(m)}
  <1>5. ASSUME NEW m \in Nat, 0..m - 1 \subseteq S PROVE m \in S
    <2> SUFFICES ASSUME m <= n PROVE All(m)
      OBVIOUS
    <2>1. CASE m = 0
      BY <2>1
    <2>2. CASE m # 0
      <3>1. m - 1 \in Nat /\ m - 1 \in 0..m - 1 /\ m \in 1..n /\ m - 1 \in 0..n /\ m \in 0..n /\ m - 1 <= n
        BY <2>2
      <3>2. m - 1 \in S
        <4> HIDE DEF S
        <4> QED
          BY <1>5, <3>1
      <3>3. All(m - 1)
        BY <3>1, <3>2
      <3>4. PICK s, c, t : s = g[m - 1] /\ c = Characters(parts[m]) /\ t = g[m]
        OBVIOUS
      <3>5. s \in Seq(Letters) /\ c \in Seq(Letters) /\ t = Concat(s, c)
        BY <1>1, <3>1, <3>4, CharactersAre
      <3>6. /\ Len(t) = Len(s) + Len(c) /\ Len(s) \in Nat /\ Len(c) \in Nat
            /\ \A x \in 1..Len(s) : t[x] = s[x]
            /\ \A x \in 1..Len(c) : t[Len(s) + x] = c[x]
        <4>1. Len(s) \in Nat /\ Len(c) \in Nat
          BY <3>5
        <4>2. Joins(t, s, Len(s), c, Len(c))
          BY <3>5, PlacesKept
        <4> QED
          BY <4>1, <4>2 DEF Joins
      <3>7. start[m] = Len(s) /\ start[m + 1] = Len(t)
        BY <1>3, <3>1, <3>4
      <3>8. Placed(start, parts, t, m)
        BY <3>4, <3>6, <3>7 DEF Placed
      <3>9. ASSUME NEW i \in 1..m - 1 PROVE Placed(start, parts, t, i)
        <4>1. Placed(start, parts, s, i)
          BY <3>3, <3>4
        <4>2. i \in 1..n /\ i - 1 \in 0..n /\ i \in 0..n
          BY <3>1
        <4>3. PICK d, l, a : d = Characters(parts[i]) /\ l = Len(d) /\ a = start[i]
          OBVIOUS
        <4>4. l \in Nat /\ a \in Nat
          <5>1. parts[i] \in Parts /\ start[i] \in Nat
            BY <1>4, <4>2
          <5>2. d \in Seq(Letters)
            BY <4>3, <5>1, CharactersAre
          <5> QED
            BY <4>3, <5>1, <5>2
        <4>5. start[i + 1] = a + l /\ a + l <= Len(s) /\ \A x \in 1..l : s[a + x] = d[x]
          BY <4>1, <4>3, <4>4 DEF Placed
        <4>6. \A x \in 1..l : a + x \in 1..Len(s)
          BY <3>6, <4>4, <4>5
        <4>7. \A x \in 1..l : t[a + x] = d[x]
          BY <3>6, <4>5, <4>6
        <4>8. a + l <= Len(t)
          BY <3>6, <4>4, <4>5
        <4> QED
          BY <4>3, <4>5, <4>7, <4>8 DEF Placed
      <3>10. \A i \in 1..m : i = m \/ i \in 1..m - 1
        OBVIOUS
      <3> QED
        BY <3>4, <3>8, <3>9, <3>10
    <2> QED
      BY <2>1, <2>2
  <1>6. S \subseteq Nat
    OBVIOUS
  <1>7. S = Nat
    <2> HIDE DEF S
    <2> QED
      BY <1>5, <1>6, InductionBelow
  <1>8. All(n)
    <2>1. n \in S
      BY <1>7
    <2> QED
      BY <2>1
  <1>9. g[n] \in Seq(Letters) /\ start[1] = 0 /\ start[n + 1] = Len(g[n])
    <2>1. n \in 0..n /\ 0 \in 0..n /\ Len(g[0]) = 0
      BY <1>1
    <2> QED
      BY <1>1, <1>3, <2>1
  <1>10. IsLayout(start, parts, n, g[n])
    BY <1>4, <1>8, <1>9 DEF IsLayout
  <1> QED
    BY <1>1, <1>10

(***************************************************************************)
(* The words in front of a part                                            *)
(***************************************************************************)
Takes(f, j) == IF IsLong(f[j]) THEN 2 * WordsOf(f[j]) ELSE WordsOf(f[j])

LEMMA TakesType == ASSUME NEW f, NEW j PROVE Takes(f, j) \in 0..4
  <1>1. WordsOf(f[j]) \in {0, 1, 2}
    BY DEF WordsOf
  <1> QED
    BY <1>1 DEF Takes

IsSum(g, f, i) == g = [j \in 1..i |-> IF j = 1 THEN 0 ELSE g[j - 1] + Takes(f, j - 1)]

SumOf(f, i) == (CHOOSE g : IsSum(g, f, i))[i]

LEMMA WordsBeforeIs == \A i : WordsBefore(i) = SumOf(format, i)
  BY DEF WordsBefore, SumOf, IsSum, Takes

SumIs(g, f, i) ==
  /\ g \in [1..i -> Nat] /\ SumOf(f, i) = g[i]
  /\ \A j \in 1..i : g[j] = IF j = 1 THEN 0 ELSE g[j - 1] + Takes(f, j - 1)

LEMMA SumExists == ASSUME NEW f, NEW i \in Nat \ {0} PROVE \E g : SumIs(g, f, i)
  <1> DEFINE step == [x \in Nat \X Nat |-> IF x[1] = 1 THEN 0 ELSE x[2] + Takes(f, x[1] - 1)]
  <1>0. \A j : Takes(f, j) \in Nat
    BY TakesType
  <1>1. step \in [Nat \X Nat -> Nat]
    BY <1>0
  <1>2. PICK h : Runs(h, i, Nat, 0, step)
    <2> HIDE DEF step
    <2>1. 0 \in Nat
      OBVIOUS
    <2> QED
      BY <1>1, <2>1, Recursion
  <1>3. h \in [0..i -> Nat] /\ \A j \in 1..i : h[j] = step[<<j, h[j - 1]>>]
    BY <1>2 DEF Runs
  <1>4. PICK g : g = [j \in 1..i |-> h[j]]
    OBVIOUS
  <1>5. ASSUME NEW j \in 1..i PROVE g[j] = IF j = 1 THEN 0 ELSE g[j - 1] + Takes(f, j - 1)
    <2>1. j \in Nat /\ j - 1 \in 0..i
      OBVIOUS
    <2>2. h[j - 1] \in Nat
      BY <1>3, <2>1
    <2>3. step[<<j, h[j - 1]>>] = IF j = 1 THEN 0 ELSE h[j - 1] + Takes(f, j - 1)
      BY <2>1, <2>2
    <2>4. j # 1 => j - 1 \in 1..i
      OBVIOUS
    <2> HIDE DEF step
    <2> QED
      BY <1>3, <1>4, <2>3, <2>4
  <1>6. g \in [1..i -> Nat]
    <2>1. \A j \in 1..i : j \in 0..i
      OBVIOUS
    <2> QED
      BY <1>3, <1>4, <2>1
  <1>7. IsSum(g, f, i)
    <2>1. g = [j \in 1..i |-> g[j]]
      BY <1>4
    <2> QED
      BY <1>5, <2>1 DEF IsSum
  <1> DEFINE sum == CHOOSE s : IsSum(s, f, i)
  <1>8. IsSum(sum, f, i)
    BY <1>7
  <1>9. SumOf(f, i) = sum[i]
    BY DEF SumOf
  <1> HIDE DEF sum
  <1>10. \A j \in 1..i : sum[j] = IF j = 1 THEN 0 ELSE sum[j - 1] + Takes(f, j - 1)
    BY <1>8 DEF IsSum
  <1>11. sum = [j \in 1..i |-> sum[j]]
    BY <1>8 DEF IsSum
  <1>12. sum[i] = g[i]
    <2> DEFINE T == {j \in 1..i : g[j] # sum[j]}
    <2>1. ASSUME T # {} PROVE FALSE
      <3>1. PICK j \in T : \A e \in T : j <= e
        <4>1. T \subseteq Nat
          OBVIOUS
        <4> HIDE DEF T
        <4> QED
          BY <2>1, <4>1, LeastNatural
      <3>2. j \in 1..i /\ g[j] # sum[j]
        OBVIOUS
      <3>3. j # 1
        BY <1>5, <1>10, <3>2
      <3>4. j - 1 \in 1..i /\ ~(j <= j - 1)
        BY <3>2, <3>3
      <3>5. g[j - 1] = sum[j - 1]
        BY <3>1, <3>4
      <3> QED
        BY <1>5, <1>10, <3>2, <3>3, <3>5
    <2>2. i \in 1..i
      OBVIOUS
    <2> QED
      BY <2>1, <2>2
  <1> QED
    BY <1>5, <1>6, <1>9, <1>12 DEF SumIs

LEMMA SumNext ==
  ASSUME NEW f, NEW i \in Nat \ {0} PROVE SumOf(f, i + 1) = SumOf(f, i) + Takes(f, i)
  <1>0. i + 1 \in Nat \ {0}
    OBVIOUS
  <1>1. PICK g : SumIs(g, f, i)
    BY SumExists
  <1>2. PICK h : SumIs(h, f, i + 1)
    BY <1>0, SumExists
  <1>3. ASSUME {j \in 1..i : g[j] # h[j]} # {} PROVE FALSE
    <2> DEFINE T == {j \in 1..i : g[j] # h[j]}
    <2>1. PICK j \in T : \A e \in T : j <= e
      <3>1. T \subseteq Nat /\ T # {}
        BY <1>3
      <3> HIDE DEF T
      <3> QED
        BY <3>1, LeastNatural
    <2>2. j \in 1..i /\ j \in 1 .. i + 1 /\ g[j] # h[j]
      OBVIOUS
    <2>3. /\ g[j] = IF j = 1 THEN 0 ELSE g[j - 1] + Takes(f, j - 1)
          /\ h[j] = IF j = 1 THEN 0 ELSE h[j - 1] + Takes(f, j - 1)
      BY <1>1, <1>2, <2>2 DEF SumIs
    <2>4. j # 1
      BY <2>2, <2>3
    <2>5. j - 1 \in 1..i /\ ~(j <= j - 1)
      BY <2>2, <2>4
    <2>6. g[j - 1] = h[j - 1]
      BY <2>1, <2>5
    <2> QED
      BY <2>2, <2>3, <2>6
  <1>4. i \in 1..i /\ i + 1 \in 1 .. i + 1 /\ i + 1 # 1 /\ (i + 1) - 1 = i
    OBVIOUS
  <1>5. g[i] = h[i]
    BY <1>3, <1>4
  <1>6. h[i + 1] = h[i] + Takes(f, i)
    BY <1>2, <1>4 DEF SumIs
  <1> QED
    BY <1>1, <1>2, <1>5, <1>6 DEF SumIs

LEMMA SumBounds == ASSUME NEW f, NEW last \in Nat \ {0} PROVE SumOf(f, last) \in 0..4 * (last - 1)
  <1>1. PICK g : SumIs(g, f, last)
    BY SumExists
  <1> DEFINE S == {j \in Nat : j \in 1..last => g[j] \in 0..4 * (j - 1)}
  <1>2. ASSUME NEW j \in Nat, 0..j - 1 \subseteq S PROVE j \in S
    <2> SUFFICES ASSUME j \in 1..last PROVE g[j] \in 0..4 * (j - 1)
      OBVIOUS
    <2>1. g[j] = IF j = 1 THEN 0 ELSE g[j - 1] + Takes(f, j - 1)
      BY <1>1 DEF SumIs
    <2>2. CASE j = 1
      BY <2>1, <2>2
    <2>3. CASE j # 1
      <3>1. j - 1 \in 0..j - 1 /\ j - 1 \in 1..last
        BY <2>3
      <3>2. j - 1 \in S
        <4> HIDE DEF S
        <4> QED
          BY <1>2, <3>1
      <3>3. g[j - 1] \in 0..4 * ((j - 1) - 1)
        BY <3>1, <3>2
      <3>4. PICK t : t = Takes(f, j - 1) /\ t \in 0..4
        BY TakesType
      <3> QED
        BY <2>1, <2>3, <3>3, <3>4
    <2> QED
      BY <2>2, <2>3
  <1>3. S \subseteq Nat
    OBVIOUS
  <1>4. S = Nat
    <2> HIDE DEF S
    <2> QED
      BY <1>2, <1>3, InductionBelow
  <1>5. last \in S /\ last \in 1..last
    BY <1>4
  <1>6. g[last] \in 0..4 * (last - 1)
    BY <1>5
  <1> QED
    BY <1>1, <1>6 DEF SumIs

LEMMA SumOne == ASSUME NEW f PROVE SumOf(f, 1) = 0
  <1>1. PICK i : i = 1
    OBVIOUS
  <1>2. i \in Nat \ {0}
    BY <1>1
  <1>3. SumOf(f, i) \in 0..4 * (i - 1)
    BY <1>2, SumBounds
  <1> QED
    BY <1>1, <1>3

(***************************************************************************)
(* printf                                                                  *)
(***************************************************************************)
IsSequence(s) == \E A : s \in Seq(A)

LEMMA Appended ==
  ASSUME NEW s, NEW x, IsSequence(s)
  PROVE  /\ IsSequence(Append(s, x)) /\ Len(s) \in Nat /\ Len(Append(s, x)) = Len(s) + 1
         /\ \A i \in 1..Len(s) : Append(s, x)[i] = s[i]
         /\ Append(s, x)[Len(s) + 1] = x
  <1>1. PICK A : s \in Seq(A)
    BY DEF IsSequence
  <1>2. s \in Seq(A \cup {x})
    <2>1. Len(s) \in Nat /\ s \in [1..Len(s) -> A]
      BY <1>1
    <2>2. s \in [1..Len(s) -> A \cup {x}]
      BY <2>1
    <2> QED
      BY <2>1, <2>2, SeqDef
  <1>3. x \in A \cup {x}
    OBVIOUS
  <1> DEFINE B == A \cup {x}
  <1>4. s \in Seq(B) /\ x \in B
    BY <1>2, <1>3
  <1> HIDE DEF B
  <1>5. Append(s, x) \in Seq(B)
    BY <1>4
  <1> QED
    BY <1>4, <1>5 DEF IsSequence

LEMMA Walked ==
  ASSUME NEW A, NEW s \in Seq(A), NEW a \in 1..Len(s)
  PROVE  /\ SubSeq(s, a, Len(s)) # <<>> /\ Head(SubSeq(s, a, Len(s))) = s[a]
         /\ Tail(SubSeq(s, a, Len(s))) = SubSeq(s, a + 1, Len(s))
  <1>1. PICK n : n = Len(s)
    OBVIOUS
  <1>2. n \in Nat /\ a \in 1..n /\ a \in Nat
    BY <1>1
  <1>3. PICK t : t = SubSeq(s, a, n)
    OBVIOUS
  <1>4. t \in Seq(A) /\ Len(t) = n - a + 1 /\ \A i \in 1 .. n - a + 1 : t[i] = s[a + i - 1]
    BY <1>1, <1>2, <1>3
  <1>5. t # <<>> /\ Head(t) = s[a]
    <2>1. 1 \in 1 .. n - a + 1 /\ a + 1 - 1 = a /\ n - a + 1 > 0
      BY <1>2
    <2>2. t[1] = s[a] /\ Len(t) > 0
      BY <1>4, <2>1
    <2> QED
      BY <1>4, <2>2
  <1>6. PICK u : u = SubSeq(s, a + 1, n)
    OBVIOUS
  <1>7. u \in Seq(A) /\ Len(u) = n - a /\ \A i \in 1 .. n - a : u[i] = s[(a + 1) + i - 1]
    BY <1>1, <1>2, <1>6
  <1>8. PICK v : v = Tail(t)
    OBVIOUS
  <1>9. v \in Seq(A) /\ Len(v) = n - a /\ \A i \in 1 .. n - a : v[i] = t[i + 1]
    BY <1>2, <1>4, <1>5, <1>8
  <1>10. ASSUME NEW i \in 1 .. n - a PROVE v[i] = u[i]
    <2>1. i + 1 \in 1 .. n - a + 1 /\ a + (i + 1) - 1 = (a + 1) + i - 1
      BY <1>2
    <2> QED
      BY <1>4, <1>7, <1>9, <2>1
  <1>11. v = u
    BY <1>7, <1>9, <1>10, <1>2, SeqEqual
  <1> QED
    BY <1>1, <1>3, <1>5, <1>6, <1>8, <1>11

(* What has been read of a part, by the state and the length. *)
InPart(part, st, len) ==
  \/ st = "normal" /\ len = <<>>
  \/ /\ part # Plain
     /\ \/ st = "length" /\ len = <<>>
        \/ st = "short" /\ len = <<"h">> /\ part.length \in {<<"h">>, <<"h", "h">>}
        \/ st = "long" /\ len = <<"l">> /\ part.length \in {<<"l">>, <<"l", "l">>}
        \/ st = "spec" /\ len \in {<<"h", "h">>, <<"l", "l">>} /\ part.length = len

Read(st, len) == IF st = "normal" THEN 0 ELSE 1 + Len(len)

(* The next character tells how to go on. *)
Follow(part, st, len, c) ==
  /\ st = "normal" => (c = "%" <=> part # Plain) /\ (part = Plain => c = ".")
  /\ st # "normal" =>
       /\ \A next \in {"short", "long", "spec"} : <<st, c, next>> \in LengthChars =>
            InPart(part, next, Append(len, c)) /\ Len(Append(len, c)) = Len(len) + 1
       /\ (\A next \in {"short", "long", "spec"} : <<st, c, next>> \notin LengthChars) =>
            len = part.length /\ c = part.spec

LEMMA PartTuples ==
  /\ <<"h">> # <<>> /\ <<"l">> # <<>> /\ <<"h">> # <<"l">> /\ <<"h", "h">> # <<"l", "l">>
  /\ <<"h", "h">> # <<"h">> /\ <<"l", "l">> # <<"l">> /\ <<"h", "h">> # <<>> /\ <<"l", "l">> # <<>>
  /\ Len(<<"h">>) = 1 /\ Len(<<"l">>) = 1 /\ Len(<<"h", "h">>) = 2 /\ Len(<<"l", "l">>) = 2
  /\ <<"h">>[1] = "h" /\ <<"l">>[1] = "l"
  /\ <<"h", "h">>[1] = "h" /\ <<"h", "h">>[2] = "h" /\ <<"l", "l">>[1] = "l" /\ <<"l", "l">>[2] = "l"
  /\ Append(<<>>, "h") = <<"h">> /\ Append(<<>>, "l") = <<"l">>
  /\ Append(<<"h">>, "h") = <<"h", "h">> /\ Append(<<"l">>, "l") = <<"l", "l">>
  <1>1. /\ <<"h">> # <<>> /\ <<"l">> # <<>> /\ <<"h">> # <<"l">> /\ <<"h", "h">> # <<"l", "l">>
        /\ <<"h", "h">> # <<"h">> /\ <<"l", "l">> # <<"l">> /\ <<"h", "h">> # <<>> /\ <<"l", "l">> # <<>>
    OBVIOUS
  <1>2. Append(<<>>, "h") = <<"h">> /\ Append(<<>>, "l") = <<"l">>
    OBVIOUS
  <1>3. ASSUME NEW x PROVE Append(<<x>>, x) = <<x, x>>
    <2>1. PICK s, t, u : s = <<x>> /\ t = Append(s, x) /\ u = <<x, x>>
      OBVIOUS
    <2>2. s \in Seq({x}) /\ Len(s) = 1 /\ s[1] = x
      BY <2>1
    <2>3. t \in Seq({x}) /\ Len(t) = 2 /\ t[1] = x /\ t[2] = x
      BY <2>1, <2>2
    <2>4. u \in Seq({x}) /\ Len(u) = 2 /\ u[1] = x /\ u[2] = x
      BY <2>1
    <2>5. \A i \in 1..2 : t[i] = u[i]
      <3>1. \A i \in 1..2 : i = 1 \/ i = 2
        OBVIOUS
      <3> QED
        BY <2>3, <2>4, <3>1
    <2> QED
      BY <2>1, <2>3, <2>4, <2>5, SeqEqual
  <1> QED
    BY <1>1, <1>2, <1>3

LEMMA ReadOn ==
  ASSUME NEW part \in Parts, NEW st, NEW len, InPart(part, st, len)
  PROVE  /\ Read(st, len) + 1 \in 1..Len(Characters(part))
         /\ Follow(part, st, len, Characters(part)[Read(st, len) + 1])
  <1>1. PICK c, n : c = Characters(part) /\ n = Len(c)
    OBVIOUS
  <1>2. /\ part = Plain => n = 1 /\ c[1] = "."
        /\ part # Plain => /\ n = 2 + Len(part.length) /\ c[1] = "%" /\ c[2 + Len(part.length)] = part.spec
                           /\ \A x \in 1..Len(part.length) : c[1 + x] = part.length[x]
    BY <1>1, CharactersAre
  <1>3. part # Plain => part.length \in Lengths /\ part.spec \notin {"h", "l"}
    BY DEF Parts, Specs, Numbers, Lengths
  <1>4. CASE st = "normal"
    <2>1. Read(st, len) + 1 = 1
      BY <1>4 DEF Read
    <2>2. n >= 1
      BY <1>2, <1>3, PartTuples DEF Lengths
    <2>3. n \in Nat
      BY <1>1, CharactersAre
    <2> QED
      BY <1>1, <1>2, <1>4, <2>1, <2>2, <2>3 DEF Follow
  <1>5. CASE st # "normal"
    <2>0. part # Plain /\ part.length \in Lengths
      BY <1>3, <1>5 DEF InPart
    <2>1. CASE st = "length" /\ len = <<>>
      <3>1. Read(st, len) + 1 = 2
        BY <2>1 DEF Read
      <3>2. CASE part.length = <<>>
        <4>1. c[2] = part.spec /\ n = 2
          BY <1>2, <2>0, <3>2
        <4> QED
          BY <1>1, <1>3, <1>5, <2>0, <2>1, <3>1, <3>2, <4>1 DEF Follow, LengthChars
      <3>3. CASE part.length \in {<<"h">>, <<"h", "h">>}
        <4>1. 1 \in 1..Len(part.length) /\ part.length[1] = "h" /\ Len(part.length) \in Nat
          BY <3>3, PartTuples
        <4>2. c[2] = "h" /\ n >= 2 /\ n \in Nat
          BY <1>2, <2>0, <4>1
        <4>3. InPart(part, "short", Append(len, "h")) /\ Len(Append(len, "h")) = Len(len) + 1
          BY <2>0, <2>1, <3>3, PartTuples DEF InPart
        <4> QED
          BY <1>1, <1>5, <2>1, <3>1, <4>2, <4>3 DEF Follow, LengthChars
      <3>4. CASE part.length \in {<<"l">>, <<"l", "l">>}
        <4>1. 1 \in 1..Len(part.length) /\ part.length[1] = "l" /\ Len(part.length) \in Nat
          BY <3>4, PartTuples
        <4>2. c[2] = "l" /\ n >= 2 /\ n \in Nat
          BY <1>2, <2>0, <4>1
        <4>3. InPart(part, "long", Append(len, "l")) /\ Len(Append(len, "l")) = Len(len) + 1
          BY <2>0, <2>1, <3>4, PartTuples DEF InPart
        <4> QED
          BY <1>1, <1>5, <2>1, <3>1, <4>2, <4>3 DEF Follow, LengthChars
      <3> QED
        BY <2>0, <3>2, <3>3, <3>4 DEF Lengths
    <2>2. CASE st \in {"short", "long"}
      <3>0. PICK x : x = IF st = "short" THEN "h" ELSE "l"
        OBVIOUS
      <3>1. len = <<x>> /\ part.length \in {<<x>>, <<x, x>>} /\ x \in {"h", "l"}
        BY <1>5, <2>2, <3>0 DEF InPart
      <3>2. Read(st, len) + 1 = 3 /\ Len(len) = 1
        BY <1>5, <3>1, PartTuples DEF Read
      <3>3. CASE part.length = <<x>>
        <4>1. Len(part.length) = 1
          BY <3>3
        <4>2. c[3] = part.spec /\ n = 3
          BY <1>2, <2>0, <4>1
        <4> QED
          BY <1>1, <1>3, <1>5, <2>0, <2>2, <3>0, <3>1, <3>2, <3>3, <4>2 DEF Follow, LengthChars
      <3>4. CASE part.length = <<x, x>>
        <4>1. Len(part.length) = 2 /\ part.length[2] = x
          BY <3>4
        <4>2. c[3] = x /\ n = 4
          <5>1. 2 \in 1..Len(part.length) /\ 1 + 2 = 3
            BY <4>1
          <5> QED
            BY <1>2, <2>0, <4>1, <5>1
        <4>3. Append(len, x) = <<x, x>> /\ Len(Append(len, x)) = 2
          BY <3>1, PartTuples
        <4>4. InPart(part, "spec", Append(len, x))
          BY <2>0, <3>1, <3>4, <4>3 DEF InPart
        <4> QED
          BY <1>1, <1>5, <2>2, <3>0, <3>2, <4>2, <4>3, <4>4 DEF Follow, LengthChars
      <3> QED
        BY <3>1, <3>3, <3>4
    <2>3. CASE st = "spec"
      <3>1. len \in {<<"h", "h">>, <<"l", "l">>} /\ part.length = len
        BY <1>5, <2>3 DEF InPart
      <3>a. Len(len) = 2
        BY <3>1, PartTuples
      <3>2. Len(len) = 2 /\ Read(st, len) + 1 = 4
        BY <1>5, <3>a DEF Read
      <3>3. c[4] = part.spec /\ n = 4
        BY <1>2, <2>0, <3>1, <3>2
      <3> QED
        BY <1>1, <1>3, <1>5, <2>3, <3>1, <3>2, <3>3 DEF Follow, LengthChars
    <2> QED
      BY <1>5, <2>1, <2>2, <2>3 DEF InPart
  <1> QED
    BY <1>4, <1>5

PrintfTyped ==
  /\ Len(format) \in 0..MaxParts /\ format \in [1..Len(format) -> Parts]
  /\ words \in [1..4 * MaxParts -> 0..INT - 1]
  /\ IsSequence(out) /\ Len(out) <= Len(format)

Position(start, text, i) ==
  /\ fmt = SubSeq(text, start[i] + Read(state, length) + 1, Len(text))
  /\ i <= Len(format) => InPart(format[i], state, length) /\ argp = SumOf(format, i) + 1
  /\ i = Len(format) + 1 => state = "normal" /\ length = <<>>

AllShown == \A j \in 1..Len(out) : Shows(out[j], format[j], SumOf(format, j) + 1)

PrintfInv ==
  /\ PrintfTyped /\ AllShown
  /\ \E start, text : IsLayout(start, format, Len(format), text) /\ Position(start, text, Len(out) + 1)

LEMMA PrintfInvInit == PrintfInit => PrintfInv
  <1> SUFFICES ASSUME PrintfInit PROVE PrintfInv
    OBVIOUS
  <1>1. PICK n \in 0..MaxParts : format \in [1..n -> Parts]
    BY DEF PrintfInit
  <1>2. n \in Nat /\ Len(format) = n
    BY <1>1, FunctionIsSeq, PrintfAssumption
  <1>3. IsSequence(out) /\ Len(out) = 0
    <2>1. out \in Seq({}) /\ Len(out) = 0
      BY DEF PrintfInit
    <2> QED
      BY <2>1 DEF IsSequence
  <1>4. words \in [1..4 * MaxParts -> 0..INT - 1]
    BY PrintfAssumption DEF PrintfInit
  <1>5. PrintfTyped
    BY <1>1, <1>2, <1>3, <1>4 DEF PrintfTyped
  <1>6. AllShown
    BY <1>3 DEF AllShown
  <1>7. PICK start, text : IsLayout(start, format, n, text) /\ text = fmt
    BY <1>1, <1>2, Layout DEF PrintfInit
  <1>8. Position(start, text, Len(out) + 1)
    <2>1. start[1] = 0 /\ text \in Seq(Letters)
      BY <1>7 DEF IsLayout
    <2>2. state = "normal" /\ length = <<>> /\ argp = 1
      BY DEF PrintfInit
    <2>3. Len(out) + 1 = 1 /\ start[1] + Read(state, length) + 1 = 1
      BY <1>3, <2>1, <2>2 DEF Read
    <2>4. text = SubSeq(text, 1, Len(text))
      <3>1. PICK m, u : m = Len(text) /\ u = SubSeq(text, 1, m)
        OBVIOUS
      <3>2. m \in Nat /\ u \in Seq(Letters) /\ Len(u) = m /\ \A i \in 1..m : u[i] = text[1 + i - 1]
        BY <2>1, <3>1
      <3>3. \A i \in 1..m : u[i] = text[i]
        BY <3>2
      <3>4. text = u
        BY <2>1, <3>1, <3>2, <3>3, SeqEqual
      <3> QED
        BY <3>1, <3>4
    <2>5. argp = SumOf(format, 1) + 1
      BY <2>2, SumOne
    <2>6. InPart(format[1], state, length)
      BY <2>2 DEF InPart
    <2> QED
      BY <1>7, <2>2, <2>3, <2>4, <2>5, <2>6 DEF Position
  <1> QED
    BY <1>2, <1>5, <1>6, <1>7, <1>8 DEF PrintfInv

(* What a numeral shows. *)
LEMMA Signs ==
  ASSUME NEW ds \in Seq(Nat)
  PROVE  <<>> \o ds = ds /\ Head(<<"-">> \o ds) = "-" /\ Tail(<<"-">> \o ds) = ds
  <1>1. PICK n, h, t : n = Len(ds) /\ h = <<"-">> /\ t = Concat(h, ds)
    OBVIOUS
  <1> DEFINE A == Nat \cup {"-"}
  <1>2. ds \in Seq(A) /\ h \in Seq(A) /\ Len(h) = 1 /\ h[1] = "-" /\ n \in Nat
    BY <1>1
  <1> HIDE DEF A
  <1>3. t \in Seq(A) /\ Joins(t, h, 1, ds, n)
    BY <1>1, <1>2, PlacesKept
  <1>4. /\ Len(t) = 1 + n
        /\ \A x \in 1..1 : t[x] = h[x]
        /\ \A x \in 1..n : t[1 + x] = ds[x]
    BY <1>3 DEF Joins
  <1>5. t # <<>> /\ Head(t) = "-"
    <2>1. t[1] = "-" /\ Len(t) > 0
      BY <1>2, <1>4
    <2> QED
      BY <1>3, <2>1
  <1>6. PICK u : u = Tail(t)
    OBVIOUS
  <1>7. u \in Seq(A) /\ Len(u) = n /\ \A i \in 1..n : u[i] = t[i + 1]
    BY <1>2, <1>3, <1>4, <1>5, <1>6
  <1>8. \A i \in 1..n : u[i] = ds[i]
    BY <1>2, <1>4, <1>7
  <1>9. u = ds
    BY <1>1, <1>2, <1>7, <1>8, SeqEqual
  <1>10. <<>> \o ds = ds
    OBVIOUS
  <1> QED
    BY <1>1, <1>5, <1>6, <1>9, <1>10 DEF Concat

LEMMA NumeralRead ==
  ASSUME NEW n \in Int, NEW m \in Nat, NEW r \in Radices, m = IF n < 0 THEN -n ELSE n
  PROVE  Reads(Printed(n, m, r).text, n, r)
  <1>1. PICK ds : ds = Digits(m, r)
    OBVIOUS
  <1>2. IsNumeralOf(ds, m, r)
    BY <1>1, NumeralOf
  <1>3. ds \in Seq(Nat) /\ ValueOf(ds, r) = m
    BY <1>2 DEF IsNumeralOf
  <1>4. IsNumeral(ds, r)
    <2>1. ds[1] = 0 => m = 0 /\ 0 < r
      BY <1>2 DEF IsNumeralOf, Radices
    <2> QED
      BY <1>2, <2>1 DEF IsNumeralOf, IsNumeral
  <1>5. Printed(n, m, r).text = IF n < 0 THEN <<"-">> \o ds ELSE <<>> \o ds
    BY <1>1 DEF Printed
  <1>6. <<>> \o ds = ds /\ Head(<<"-">> \o ds) = "-" /\ Tail(<<"-">> \o ds) = ds
    BY <1>3, Signs
  <1>7. CASE n < 0
    <2>1. PICK t : t = <<"-">> \o ds
      OBVIOUS
    <2>2. Printed(n, m, r).text = t /\ Head(t) = "-" /\ Tail(t) = ds
      BY <1>5, <1>6, <1>7, <2>1
    <2> QED
      BY <1>3, <1>4, <1>7, <2>2 DEF Reads
  <1>8. CASE ~(n < 0)
    <2>1. Printed(n, m, r).text = ds
      BY <1>5, <1>6, <1>8
    <2> QED
      BY <1>3, <1>4, <1>8, <2>1 DEF Reads
  <1> QED
    BY <1>7, <1>8

(* The character c of part i comes next. *)
Reading(start, text, i, c) ==
  /\ PrintfTyped /\ AllShown /\ IsLayout(start, format, Len(format), text)
  /\ i = Len(out) + 1 /\ i \in 1..Len(format)
  /\ InPart(format[i], state, length) /\ argp = SumOf(format, i) + 1
  /\ Read(state, length) + 1 \in 1..Len(Characters(format[i]))
  /\ Follow(format[i], state, length, c)
  /\ fmt' = SubSeq(text, start[i] + (Read(state, length) + 1) + 1, Len(text))

(* The character at a of the text is the next of part i. *)
InText(start, text, i, a) ==
  /\ IsLayout(start, format, Len(format), text) /\ Position(start, text, i)
  /\ i = Len(out) + 1 /\ i \in 1..Len(format)
  /\ a \in 1..Len(text) /\ a = start[i] + (Read(state, length) + 1)
  /\ fmt = SubSeq(text, a, Len(text))
  /\ Read(state, length) + 1 \in 1..Len(Characters(format[i]))
  /\ Follow(format[i], state, length, text[a])

LEMMA NextInText ==
  ASSUME PrintfInv, fmt # <<>> \/ Len(out) # Len(format)
  PROVE  \E start, text, a : InText(start, text, Len(out) + 1, a)
  <1>1. PICK start, text : IsLayout(start, format, Len(format), text) /\ Position(start, text, Len(out) + 1)
    BY DEF PrintfInv
  <1>2. PICK n, i, off : n = Len(format) /\ i = Len(out) + 1 /\ off = Read(state, length)
    OBVIOUS
  <1>3. n \in Nat /\ i \in 1..n + 1 /\ format \in [1..n -> Parts] /\ PrintfTyped /\ AllShown
    <2>1. PICK A : out \in Seq(A)
      BY DEF PrintfInv, PrintfTyped, IsSequence
    <2>2. Len(out) \in Nat
      BY <2>1
    <2>3. PrintfTyped /\ AllShown
      BY DEF PrintfInv
    <2>4. n \in Nat /\ Len(out) <= n /\ format \in [1..n -> Parts]
      BY <1>2, <2>3, PrintfAssumption DEF PrintfTyped
    <2> QED
      BY <1>2, <2>2, <2>3, <2>4
  <1>4. /\ text \in Seq(Letters) /\ start \in [1..n + 1 -> Nat] /\ start[n + 1] = Len(text)
        /\ \A j \in 1..n : Placed(start, format, text, j)
    BY <1>1, <1>2 DEF IsLayout
  <1>5. /\ fmt = SubSeq(text, start[i] + off + 1, Len(text))
        /\ i <= n => InPart(format[i], state, length) /\ argp = SumOf(format, i) + 1
        /\ i = n + 1 => state = "normal" /\ length = <<>>
    BY <1>1, <1>2 DEF Position
  <1>6. i \in 1..n
    <2> SUFFICES ASSUME i = n + 1 PROVE FALSE
      BY <1>3
    <2>0. fmt # <<>>
      <3>1. Len(out) \in Int
        <4>1. PICK A : out \in Seq(A)
          BY <1>3 DEF PrintfTyped, IsSequence
        <4> QED
          BY <4>1
      <3> QED
        BY <1>2, <1>3, <3>1
    <2>1. off = 0
      BY <1>2, <1>5 DEF Read
    <2>2. PICK l : l = Len(text) /\ l \in Nat
      BY <1>4
    <2>3. start[i] + off + 1 = l + 1
      BY <1>4, <2>1, <2>2
    <2>4. fmt = SubSeq(text, l + 1, l)
      BY <1>5, <2>2, <2>3
    <2>5. SubSeq(text, l + 1, l) = <<>>
      BY <1>4, <2>2
    <2> QED
      BY <2>0, <2>4, <2>5
  <1>7. PICK part, q : part = format[i] /\ q = Characters(part)
    OBVIOUS
  <1>8. part \in Parts /\ InPart(part, state, length)
    BY <1>3, <1>5, <1>6, <1>7
  <1>9. off + 1 \in 1..Len(q) /\ Follow(part, state, length, q[off + 1])
    BY <1>2, <1>7, <1>8, ReadOn
  <1>10. /\ start[i + 1] = start[i] + Len(q) /\ start[i + 1] <= Len(text)
         /\ \A x \in 1..Len(q) : text[start[i] + x] = q[x]
    BY <1>4, <1>6, <1>7 DEF Placed
  <1>11. PICK a : a = start[i] + (off + 1)
    OBVIOUS
  <1>12. a \in 1..Len(text) /\ a = start[i] + off + 1 /\ text[a] = q[off + 1]
    <2>1. start[i] \in Nat /\ Len(q) \in Nat /\ Len(text) \in Nat /\ off \in Int
      <3>1. Len(q) \in Nat
        BY <1>7, <1>8, CharactersAre
      <3>2. length = <<>> \/ length \in {<<"h">>, <<"l">>, <<"h", "h">>, <<"l", "l">>}
        BY <1>8 DEF InPart
      <3>3. Len(length) \in Nat
        BY <3>2, PartTuples
      <3> QED
        BY <1>2, <1>4, <1>6, <3>1, <3>3 DEF Read
    <2>2. a \in 1..Len(text) /\ a = start[i] + off + 1
      <3>1. PICK s, l, m : s = start[i] /\ l = Len(q) /\ m = Len(text)
        OBVIOUS
      <3>2. /\ s \in Nat /\ l \in Nat /\ m \in Nat /\ off \in Int
            /\ off + 1 \in 1..l /\ s + l <= m /\ a = s + (off + 1)
        BY <1>9, <1>10, <1>11, <2>1, <3>1
      <3>3. a \in 1..m /\ a = s + off + 1
        BY ONLY <3>2
      <3> QED
        BY <3>1, <3>3
    <2> QED
      BY <1>9, <1>10, <1>11, <2>2
  <1>13. InText(start, text, i, a)
    <2>1. Read(state, length) + 1 \in 1..Len(Characters(format[i])) /\ Follow(format[i], state, length, text[a])
      BY <1>2, <1>7, <1>9, <1>12
    <2>2. a = start[i] + (Read(state, length) + 1)
      BY <1>2, <1>11
    <2>3. i \in 1..Len(format) /\ fmt = SubSeq(text, a, Len(text))
      BY <1>2, <1>5, <1>6, <1>12
    <2> QED
      BY <1>1, <1>2, <1>12, <2>1, <2>2, <2>3 DEF InText
  <1> QED
    BY <1>2, <1>13

LEMMA ReadsNext ==
  ASSUME PrintfInv, fmt # <<>>, fmt' = Tail(fmt)
  PROVE  \E start, text : Reading(start, text, Len(out) + 1, Head(fmt))
  <1>1. PICK start, text, a : InText(start, text, Len(out) + 1, a)
    BY NextInText
  <1>2. text \in Seq(Letters) /\ a \in 1..Len(text) /\ fmt = SubSeq(text, a, Len(text))
    BY <1>1 DEF InText, IsLayout
  <1>3. Head(fmt) = text[a] /\ fmt' = SubSeq(text, a + 1, Len(text))
    BY <1>2, Walked
  <1>4. PrintfTyped /\ AllShown
    BY DEF PrintfInv
  <1>5. PICK i : i = Len(out) + 1
    OBVIOUS
  <1>6. InPart(format[i], state, length) /\ argp = SumOf(format, i) + 1
    <2>1. i \in 1..Len(format) /\ Len(format) \in Int
      BY <1>1, <1>4, <1>5 DEF InText, PrintfTyped
    <2> QED
      BY <1>1, <1>5, <2>1 DEF InText, Position
  <1>7. Reading(start, text, i, Head(fmt))
    BY <1>1, <1>3, <1>4, <1>5, <1>6 DEF InText, Reading
  <1> QED
    BY <1>5, <1>7

LEMMA ShowsKept ==
  ASSUME words' = words, NEW piece, NEW part, NEW at PROVE Shows(piece, part, at)' <=> Shows(piece, part, at)
  BY DEF Shows, Passed

LEMMA StaysInPart ==
  ASSUME NEW start, NEW text, NEW i, NEW c, Reading(start, text, i, c),
         UNCHANGED <<format, words, argp, out>>,
         InPart(format[i], state', length'), Read(state', length') = Read(state, length) + 1
  PROVE  PrintfInv'
  <1>1. PrintfTyped'
    BY DEF Reading, PrintfTyped
  <1>2. AllShown'
    BY ShowsKept DEF Reading, AllShown
  <1>3. IsLayout(start, format', Len(format'), text)
    BY DEF Reading
  <1>4. i # Len(format) + 1 /\ i = Len(out') + 1
    <2>1. Len(format) \in Nat
      BY PrintfAssumption DEF Reading, PrintfTyped
    <2> QED
      BY <2>1 DEF Reading
  <1>5. Position(start, text, i)'
    BY <1>4 DEF Reading, Position
  <1> QED
    BY <1>1, <1>2, <1>3, <1>4, <1>5 DEF PrintfInv

LEMMA EndsPart ==
  ASSUME NEW start, NEW text, NEW i, NEW c, Reading(start, text, i, c), NEW piece,
         UNCHANGED <<format, words>>, out' = Append(out, piece), state' = "normal", length' = <<>>,
         Read(state, length) + 1 = Len(Characters(format[i])),
         Shows(piece, format[i], argp),
         argp' = argp + Takes(format, i)
  PROVE  PrintfInv'
  <1>1. PICK n, l : n = Len(format) /\ l = Len(out)
    OBVIOUS
  <1>2. n \in Nat /\ i \in 1..n /\ i = l + 1 /\ format \in [1..n -> Parts] /\ IsSequence(out)
    BY <1>1, PrintfAssumption DEF Reading, PrintfTyped
  <1>3. /\ IsSequence(out') /\ l \in Nat /\ Len(out') = l + 1
        /\ \A j \in 1..l : out'[j] = out[j]
        /\ out'[l + 1] = piece
    BY <1>1, <1>2, Appended
  <1>4. PrintfTyped'
    <2>1. Len(out') <= n
      BY <1>2, <1>3
    <2> QED
      BY <1>1, <1>3, <2>1 DEF Reading, PrintfTyped
  <1>5. AllShown'
    <2>1. ASSUME NEW j \in 1..Len(out') PROVE Shows(out[j], format[j], SumOf(format, j) + 1)'
      <3>1. CASE j = i
        <4>1. PICK part, at : part = format[i] /\ at = SumOf(format, i) + 1
          OBVIOUS
        <4>2. Shows(piece, part, at)
          BY <4>1 DEF Reading
        <4>3. Shows(piece, part, at)'
          BY <4>2, ShowsKept
        <4>4. out'[j] = piece /\ format'[j] = part /\ SumOf(format', j) + 1 = at
          BY <1>2, <1>3, <3>1, <4>1
        <4> QED
          BY <4>3, <4>4
      <3>2. CASE j # i
        <4>0. j \in 1..l
          BY <1>2, <1>3, <3>2
        <4>1. PICK old, part, at : old = out[j] /\ part = format[j] /\ at = SumOf(format, j) + 1
          OBVIOUS
        <4>2. Shows(old, part, at)
          BY <1>1, <4>0, <4>1 DEF Reading, AllShown
        <4>3. Shows(old, part, at)'
          BY <4>2, ShowsKept
        <4>4. out'[j] = old /\ format'[j] = part /\ SumOf(format', j) + 1 = at
          BY <1>3, <4>0, <4>1
        <4> QED
          BY <4>3, <4>4
      <3> QED
        BY <3>1, <3>2
    <2> QED
      BY <2>1 DEF AllShown
  <1>6. IsLayout(start, format', Len(format'), text)
    BY DEF Reading
  <1>7. Read(state', length') = 0
    BY DEF Read
  <1>8. start[i + 1] = start[i] + Len(Characters(format[i])) /\ start[i + 1] \in Nat
    <2>1. Placed(start, format, text, i) /\ start \in [1..n + 1 -> Nat] /\ i + 1 \in 1..n + 1
      BY <1>1, <1>2 DEF Reading, IsLayout
    <2> QED
      BY <2>1 DEF Placed
  <1>9. fmt' = SubSeq(text, start[i + 1] + Read(state', length') + 1, Len(text))
    <2>1. start[i + 1] + Read(state', length') + 1 = start[i + 1] + 1
      BY <1>7, <1>8
    <2> QED
      BY <1>8, <2>1 DEF Reading
  <1>10. i + 1 <= n => InPart(format'[i + 1], state', length') /\ argp' = SumOf(format', i + 1) + 1
    <2> SUFFICES ASSUME i + 1 <= n PROVE InPart(format'[i + 1], state', length') /\ argp' = SumOf(format', i + 1) + 1
      OBVIOUS
    <2>1. InPart(format'[i + 1], state', length')
      BY DEF InPart
    <2>2. i < n /\ i \in Nat \ {0}
      BY <1>2
    <2>3. argp' = argp + Takes(format, i) /\ argp = SumOf(format, i) + 1
      BY <1>1, <2>2 DEF Reading
    <2>4. SumOf(format, i + 1) = SumOf(format, i) + Takes(format, i)
      BY <2>2, SumNext
    <2>5. PICK s, t : s = SumOf(format, i) /\ t = Takes(format, i) /\ s \in Int /\ t \in Int
      BY <2>2, SumBounds, TakesType
    <2>6. argp' = (s + 1) + t /\ SumOf(format, i + 1) = s + t
      BY <2>3, <2>4, <2>5
    <2> QED
      BY <2>1, <2>5, <2>6
  <1>11. Position(start, text, i + 1)'
    BY <1>1, <1>9, <1>10 DEF Position
  <1>12. Len(out') + 1 = i + 1
    BY <1>2, <1>3
  <1> QED
    BY <1>4, <1>5, <1>6, <1>11, <1>12 DEF PrintfInv

(* What a conversion prints shows the argument that was passed for it.     *)
LEMMA NumberShown ==
  ASSUME NEW part \in Parts, part.spec \in Numbers, NEW at, NEW n, n = Passed(part, at), n \in Int,
         ~IsSigned(part.spec) => n \in Nat,
         NEW m \in Magnitudes(n, part.length)
  PROVE  Shows(Printed(n, m, Radix(part.spec)), part, at)
  <1>1. part.spec \notin {".", "%", "c", "s"}
    BY DEF Numbers
  <1>2. SUFFICES ASSUME ~(IsSigned(part.spec) /\ IsSmallest(n, part.length))
                 PROVE  Reads(Printed(n, m, Radix(part.spec)).text, n, Radix(part.spec))
    BY <1>1 DEF Shows
  <1>5. n < 0 => IsSigned(part.spec)
    OBVIOUS
  <1>6. m = (IF n < 0 THEN -n ELSE n) /\ m \in Nat
    <2>1. CASE n >= 0
      BY <2>1 DEF Magnitudes
    <2>2. CASE n < 0
      <3>1. ~IsSmallest(n, part.length)
        BY <1>2, <1>5, <2>2
      <3>2. m = -n
        BY <2>2, <3>1 DEF Magnitudes
      <3> QED
        BY <2>2, <3>2
    <2> QED
      BY <2>1, <2>2
  <1>7. Radix(part.spec) \in Radices
    BY DEF Radix, Radices
  <1> QED
    BY <1>6, <1>7, NumeralRead

LEMMA PassedType ==
  ASSUME words \in [1..4 * MaxParts -> 0..INT - 1], NEW part, NEW at \in 1..4 * MaxParts - 1
  PROVE  Passed(part, at) \in Int /\ (~IsSigned(part.spec) => Passed(part, at) \in Nat)
  <1>1. INT \in Nat /\ MaxParts \in Nat
    BY PrintfAssumption
  <1>2. PICK u, v : u = words[at] /\ v = words[at + 1] /\ u \in Nat /\ v \in Nat
    <2>1. at \in 1..4 * MaxParts /\ at + 1 \in 1..4 * MaxParts
      BY <1>1
    <2> QED
      BY <1>1, <2>1
  <1>3. PICK x : x = INT * v /\ x \in Nat
    BY <1>1, <1>2
  <1>4. PICK y : y = INT * INT /\ y \in Nat
    BY <1>1
  <1>5. \A w \in Nat, count \in Nat : SignedOf(w, count) \in Int
    BY DEF SignedOf
  <1>6. u + x \in Nat
    BY <1>2, <1>3
  <1>7. SignedOf(u, INT) \in Int /\ SignedOf(u + x, y) \in Int
    BY <1>1, <1>2, <1>4, <1>5, <1>6
  <1> QED
    BY <1>2, <1>3, <1>4, <1>6, <1>7 DEF Passed

LEMMA PrintfInvStep == PrintfInv /\ PrintfNext => PrintfInv'
  <1> SUFFICES ASSUME PrintfInv, PrintfNext PROVE PrintfInv'
    OBVIOUS
  <1>1. fmt # <<>> /\ fmt' = Tail(fmt) /\ UNCHANGED <<format, words>>
    BY DEF PrintfNext
  <1>2. PICK c : c = Head(fmt)
    OBVIOUS
  <1>3. PICK start, text, i : Reading(start, text, i, c)
    BY <1>1, <1>2, ReadsNext
  <1>4. Ordinary(c) \/ Percent(c) \/ LengthChar(c) \/ Convert(c)
    BY <1>2 DEF PrintfNext
  <1>5. PICK part : part = format[i]
    OBVIOUS
  <1>6. part \in Parts /\ InPart(part, state, length) /\ Follow(part, state, length, c)
    BY <1>3, <1>5 DEF Reading, PrintfTyped
  <1>7. i \in 1..MaxParts /\ argp \in 1..4 * MaxParts - 1
    <2>1. Len(format) \in 0..MaxParts /\ i \in 1..Len(format) /\ argp = SumOf(format, i) + 1 /\ MaxParts \in Nat
      BY <1>3, PrintfAssumption DEF Reading, PrintfTyped
    <2>2. i \in Nat \ {0} /\ i \in 1..MaxParts
      BY <2>1
    <2>3. PICK s : s = SumOf(format, i) /\ s \in 0..4 * (i - 1)
      BY <2>2, SumBounds
    <2> QED
      BY <2>1, <2>2, <2>3
  <1>8. CASE Ordinary(c)
    <2>1. state = "normal" /\ c # "%" /\ out' = Append(out, [what |-> "character", text |-> c])
          /\ UNCHANGED <<state, length, argp>>
      BY <1>8 DEF Ordinary, Put
    <2>2. part = Plain /\ c = "." /\ length = <<>>
      BY <1>6, <2>1 DEF Follow, InPart
    <2>3. Read(state, length) + 1 = Len(Characters(part))
      BY <1>6, <2>1, <2>2, CharactersAre DEF Read
    <2>4. Shows([what |-> "character", text |-> c], part, argp)
      BY <2>2 DEF Shows, Plain
    <2>5. Takes(format, i) = 0
      BY <1>5, <2>2 DEF Takes, IsLong, WordsOf, Plain
    <2>6. argp' = argp + Takes(format, i)
      BY <1>7, <2>1, <2>5
    <2> QED
      BY <1>1, <1>3, <1>5, <2>1, <2>2, <2>3, <2>4, <2>6, EndsPart
  <1>9. CASE Percent(c)
    <2>1. state = "normal" /\ c = "%" /\ state' = "length" /\ UNCHANGED <<length, argp, out>>
      BY <1>9 DEF Percent
    <2>2. part # Plain /\ length = <<>>
      BY <1>6, <2>1 DEF Follow, InPart
    <2>3. InPart(part, state', length') /\ Read(state', length') = Read(state, length) + 1
      BY <2>1, <2>2 DEF InPart, Read
    <2> QED
      BY <1>1, <1>3, <1>5, <2>1, <2>3, StaysInPart
  <1>10. CASE LengthChar(c)
    <2>1. PICK next \in {"short", "long", "spec"} :
            <<state, c, next>> \in LengthChars /\ state' = next /\ length' = Append(length, c)
            /\ UNCHANGED <<argp, out>>
      BY <1>10 DEF LengthChar
    <2>2. state # "normal"
      BY <2>1 DEF LengthChars
    <2>3. InPart(part, state', length') /\ Len(length') = Len(length) + 1
      BY <1>6, <2>1, <2>2 DEF Follow
    <2>4. Len(length) \in Nat
      <3>1. length = <<>> \/ length \in {<<"h">>, <<"l">>, <<"h", "h">>, <<"l", "l">>}
        BY <1>6 DEF InPart
      <3> QED
        BY <3>1, PartTuples
    <2>5. Read(state', length') = Read(state, length) + 1
      BY <2>1, <2>2, <2>3, <2>4 DEF Read
    <2> QED
      BY <1>1, <1>3, <1>5, <2>1, <2>3, <2>5, StaysInPart
  <1>11. CASE Convert(c)
    <2>1. /\ state # "normal" /\ Conversion(c) /\ state' = "normal" /\ length' = <<>>
          /\ \A next \in {"short", "long", "spec"} : <<state, c, next>> \notin LengthChars
      BY <1>11 DEF Convert
    <2>2. length = part.length /\ c = part.spec /\ part # Plain
      BY <1>6, <2>1 DEF Follow, InPart
    <2>3. Read(state, length) + 1 = Len(Characters(part))
      <3>1. part.length \in Lengths
        BY <1>6, <2>2 DEF Parts, Lengths
      <3>2. Len(part.length) \in Nat
        BY <3>1, PartTuples DEF Lengths
      <3> QED
        BY <1>6, <2>1, <2>2, <3>2, CharactersAre DEF Read
    <2>4. c = "%" => Takes(format, i) = 0
      BY <1>5, <2>2 DEF Takes, WordsOf
    <2>5. c \in {"c", "s"} => Takes(format, i) = 1
      <3> SUFFICES ASSUME c \in {"c", "s"} PROVE Takes(format, i) = 1
        OBVIOUS
      <3>1. part.length = <<>>
        BY <1>6, <2>2 DEF Parts, Specs, Numbers
      <3>2. ~IsLong(part) /\ WordsOf(part) = 1
        BY <2>2, <3>1, PartTuples DEF IsLong, WordsOf
      <3> QED
        BY <1>5, <3>2 DEF Takes
    <2>6. ASSUME NEW piece, out' = Append(out, piece), Shows(piece, part, argp),
                 argp' = argp + Takes(format, i)
          PROVE  PrintfInv'
      BY <1>1, <1>3, <1>5, <2>1, <2>3, <2>6, EndsPart
    <2>7. CASE c = "c" /\ out' = Append(out, [what |-> "char", text |-> words[argp]]) /\ argp' = argp + 1
      <3>1. Shows([what |-> "char", text |-> words[argp]], part, argp)
        BY <2>2, <2>7 DEF Shows
      <3> QED
        BY <2>5, <2>6, <2>7, <3>1
    <2>8. CASE c = "s" /\ out' = Append(out, [what |-> "string", text |-> words[argp]]) /\ argp' = argp + 1
      <3>1. Shows([what |-> "string", text |-> words[argp]], part, argp)
        BY <2>2, <2>8 DEF Shows
      <3> QED
        BY <2>5, <2>6, <2>8, <3>1
    <2>9. CASE c = "%" /\ out' = Append(out, [what |-> "character", text |-> "%"]) /\ UNCHANGED argp
      <3>1. Shows([what |-> "character", text |-> "%"], part, argp)
        BY <2>2, <2>9 DEF Shows
      <3>2. argp' = argp + Takes(format, i)
        BY <1>7, <2>4, <2>9
      <3> QED
        BY <2>6, <2>9, <3>1, <3>2
    <2>10. CASE c \in Numbers /\ argp' = argp + Step
                /\ \E m \in Magnitudes(Number(c), length) : out' = Append(out, Printed(Number(c), m, Radix(c)))
      <3>1. part = [spec |-> c, length |-> length]
        BY <1>6, <2>2 DEF Parts
      <3>2. PICK n : n = Passed(part, argp)
        OBVIOUS
      <3>3. Number(c) = n
        BY <3>1, <3>2 DEF Number
      <3>4. PICK m \in Magnitudes(n, part.length) : out' = Append(out, Printed(n, m, Radix(c)))
        BY <2>2, <2>10, <3>3
      <3>5. n \in Int /\ (~IsSigned(part.spec) => n \in Nat)
        BY <1>3, <1>7, <3>2, PassedType DEF Reading, PrintfTyped
      <3>6. Shows(Printed(n, m, Radix(c)), part, argp)
        BY <1>6, <2>2, <2>10, <3>2, <3>5, NumberShown
      <3>7. argp' = argp + Takes(format, i)
        <4>1. c \notin {".", "%"}
          BY <2>10 DEF Numbers
        <4>2. Step = Takes(format, i)
          BY <1>5, <2>2, <4>1, PartTuples DEF Step, Takes, IsLong, WordsOf
        <4> QED
          BY <2>10, <4>2
      <3> QED
        BY <2>6, <3>4, <3>6, <3>7
    <2> QED
      BY <2>1, <2>7, <2>8, <2>9, <2>10 DEF Conversion, Put
  <1> QED
    BY <1>4, <1>8, <1>9, <1>10, <1>11

LEMMA PrintfInvShows == PrintfInv /\ fmt = <<>> => FormatShown
  <1> SUFFICES ASSUME PrintfInv, fmt = <<>> PROVE FormatShown
    OBVIOUS
  <1>1. Len(out) = Len(format)
    <2> SUFFICES ASSUME Len(out) # Len(format) PROVE FALSE
      OBVIOUS
    <2>1. PICK start, text, a : InText(start, text, Len(out) + 1, a)
      BY NextInText
    <2>2. text \in Seq(Letters) /\ a \in 1..Len(text) /\ fmt = SubSeq(text, a, Len(text))
      BY <2>1 DEF InText, IsLayout
    <2> QED
      BY <2>2, Walked
  <1> QED
    BY <1>1, WordsBeforeIs DEF FormatShown, PrintfInv, AllShown

(***************************************************************************)
(* The theorems                                                            *)
(***************************************************************************)
LibraryInv ==
  \/ UtilsInv /\ Argued /\ NoPrintf
  \/ PrintfInv /\ NoUtils

LEMMA NoUtilsMoves == NoUtils => MovedExactly /\ StringsJoined /\ ComparesExact
  <1> SUFFICES ASSUME NoUtils PROVE MovedExactly /\ StringsJoined /\ ComparesExact
    OBVIOUS
  <1>1. job.to = 0 /\ job.count = 0 /\ ~job.nul /\ done /\ args.fn = "none"
    BY DEF NoUtils, Memset, Up
  <1>2. mem = [a \in Addresses |-> before[a]]
    BY DEF NoUtils
  <1>3. \A a : a \notin job.to..(job.to + job.count - 1)
    BY <1>1
  <1>4. MovedExactly
    BY <1>1, <1>2, <1>3 DEF MovedExactly
  <1> QED
    BY <1>1, <1>4 DEF StringsJoined, ComparesExact

LEMMA NoPrintfShows == NoPrintf => FormatShown
  <1> SUFFICES ASSUME NoPrintf PROVE FormatShown
    OBVIOUS
  <1>1. Len(format) = 0 /\ Len(out) = 0
    BY DEF NoPrintf
  <1> QED
    BY <1>1 DEF FormatShown

LEMMA LibraryInvInit == LibraryInit => LibraryInv
  BY InvInit, ArguedInit, PrintfInvInit DEF LibraryInit, LibraryInv

LEMMA LibraryInvStep == LibraryInv /\ [LibraryNext]_libraryVars => LibraryInv'
  <1> SUFFICES ASSUME LibraryInv, [LibraryNext]_libraryVars PROVE LibraryInv'
    OBVIOUS
  <1>1. CASE UtilsInv /\ Argued /\ NoPrintf
    <2>1. [Next]_vars /\ UNCHANGED printfVars
      BY <1>1 DEF LibraryNext, libraryVars, PrintfNext, NoPrintf
    <2>2. NoPrintf'
      BY <1>1, <2>1 DEF printfVars, NoPrintf
    <2> QED
      BY <1>1, <2>1, <2>2, InvStep, ArguedStep DEF LibraryInv
  <1>2. CASE PrintfInv /\ NoUtils
    <2>1. UNCHANGED vars /\ (PrintfNext \/ UNCHANGED printfVars)
      BY <1>2 DEF LibraryNext, libraryVars, Next, Move, Return, NoUtils
    <2>2. NoUtils'
      BY <1>2, <2>1 DEF vars, NoUtils
    <2>3. PrintfInv'
      <3>1. CASE PrintfNext
        BY <1>2, <3>1, PrintfInvStep
      <3>2. CASE UNCHANGED printfVars
        <4>1. UNCHANGED <<format, words, fmt, state, length, argp, out>>
          BY <3>2 DEF printfVars
        <4>2. PrintfTyped'
          BY <1>2, <4>1 DEF PrintfInv, PrintfTyped
        <4>4. AllShown'
          BY <1>2, <4>1, ShowsKept DEF PrintfInv, AllShown
        <4>5. PICK start, text : IsLayout(start, format, Len(format), text) /\ Position(start, text, Len(out) + 1)
          BY <1>2 DEF PrintfInv
        <4>6. Position(start, text, Len(out) + 1)'
          BY <4>1, <4>5 DEF Position
        <4> QED
          BY <4>1, <4>2, <4>4, <4>5, <4>6 DEF PrintfInv
      <3> QED
        BY <2>1, <3>1, <3>2
    <2> QED
      BY <2>2, <2>3 DEF LibraryInv
  <1> QED
    BY <1>1, <1>2 DEF LibraryInv

LEMMA LibraryInvariant == LibrarySpec => []LibraryInv
  BY LibraryInvInit, LibraryInvStep, PTL DEF LibrarySpec

(* The functions move exactly what they are to move, in every memory and   *)
(* for every call the kernel may make: memmove also where its blocks       *)
(* overlap, and the string functions with the NUL they write.              *)
THEOREM MovesExactly == LibrarySpec => []MovedExactly
  <1>1. LibraryInv => MovedExactly
    BY NoUtilsMoves DEF LibraryInv, UtilsInv, MovedExactly
  <1> QED
    BY <1>1, LibraryInvariant, PTL

(* strcat, strncat and getInfoAfterCommand return the strings they are to  *)
(* put together, ended by a NUL, for strings of any length and content.    *)
THEOREM JoinsStrings == LibrarySpec => []StringsJoined
  <1>1. LibraryInv => StringsJoined
    BY Joined, NoUtilsMoves DEF LibraryInv
  <1> QED
    BY <1>1, LibraryInvariant, PTL

(* strcmp and startsWith tell any two strings of any memory apart exactly  *)
(* as they are to, and their recursion ends at the first NUL.              *)
THEOREM ComparesExactly == LibrarySpec => []ComparesExact
  <1>1. LibraryInv => ComparesExact
    BY Compared, NoUtilsMoves DEF LibraryInv
  <1> QED
    BY <1>1, LibraryInvariant, PTL

(* What printf prints of any format with any words behind it, whatever the *)
(* widths of its types and the number of its parts: every part in front of *)
(* which there is no long or long long shows its own argument, h and hh as *)
(* the whole int; a part behind them shows the words that argp, moved      *)
(* twice too far over each of them, has come to.                           *)
THEOREM ShowsFormat == LibrarySpec => []FormatShown
  <1>1. LibraryInv => FormatShown
    BY PrintfInvShows, NoPrintfShows DEF LibraryInv, FormatShown
  <1> QED
    BY <1>1, LibraryInvariant, PTL
=============================================================================
