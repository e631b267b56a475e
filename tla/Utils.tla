------------------------------- MODULE Utils -------------------------------
(***************************************************************************)
(* The memory and string functions of Kernel/utils.c.  A behaviour is one  *)
(* call.  Those that write come down to one loop, which fills or copies    *)
(* upwards or downwards; a step moves one byte, so that a copy whose ends  *)
(* overlap reads what it has just written.                                 *)
(***************************************************************************)
EXTENDS Integers, Sequences

CONSTANTS
  MemSize,   \* the addresses are 0..MemSize - 1
  Bytes      \* values of a byte, NUL among them

ASSUME UtilsAssumption == MemSize \in Nat /\ 0 \in Bytes /\ Bytes \subseteq Nat

VARIABLES
  mem,      \* address -> byte
  before,   \* history: mem at the call
  args,     \* what the function is called with: [fn, dst, src, n]
  job,      \* what its loop does
  k,        \* the bytes it has moved
  done

vars == <<mem, before, args, job, k, done>>

Addresses == 0..MemSize - 1

(* The loop writes count bytes at to: the byte, or the bytes at from.  nul *)
(* says whether it puts a NUL behind them.                                 *)
Jobs == [way : {"fill", "up", "down"}, to : Nat, from : Nat, count : Nat,
         byte : Bytes, nul : BOOLEAN]

(***************************************************************************)
(* Strings                                                                 *)
(***************************************************************************)
Ends(m, p) == {a \in Addresses : a >= p /\ m[a] = 0}

(* strl *)
Strl(m, p) == (CHOOSE e \in Ends(m, p) : \A f \in Ends(m, p) : e <= f) - p

StringAt(m, p) == [i \in 1..Strl(m, p) |-> m[p + i - 1]]

(* strcmp *)
Strcmp(m, p, q) ==
  LET from[i \in Nat] ==
        IF m[p + i] # 0 /\ m[p + i] = m[q + i] THEN from[i + 1] ELSE m[p + i] - m[q + i]
  IN  from[0]

(* The mistake: the prefix has to be shorter. *)
StartsWithMore(m, p, q) ==
  LET from[i \in Nat] == IF m[q + i] = 0 THEN m[p + i] # 0 ELSE m[p + i] = m[q + i] /\ from[i + 1]
  IN  from[0]

(* startsWith, which is all of checkCommand *)
StartsWith(m, p, q) ==
  LET from[i \in Nat] == m[q + i] = 0 \/ (m[p + i] = m[q + i] /\ from[i + 1])
  IN  from[0]

(***************************************************************************)
(* The functions that write                                                *)
(***************************************************************************)
Up(to, from, count, nul) ==
  [way |-> "up", to |-> to, from |-> from, count |-> count, byte |-> 0, nul |-> nul]

Memset(p, b, n) == [Up(p, p, n, FALSE) EXCEPT !.way = "fill", !.byte = b]

Memcpy(d, s, n) == Up(d, s, n, FALSE)

(* The mistake: the way does not depend on which block comes first. *)
MemmoveUp(d, s, n) == Up(d, s, n, FALSE)

Memmove(d, s, n) == IF d < s THEN Up(d, s, n, FALSE) ELSE [Up(d, s, n, FALSE) EXCEPT !.way = "down"]

(* The NUL of dest goes, and none is written behind src. *)
Strcat(m, d, s) == Up(d + Strl(m, d), s, Strl(m, s), FALSE)

(* The mistake: the NUL is forgotten. *)
StrncatOpen(m, d, s, n) == Up(d + Strl(m, d), s, n, FALSE)

Strncat(m, d, s, n) == Up(d + Strl(m, d), s, n, TRUE)

(* getInfoAfterCommand: what follows the n characters of the command, in   *)
(* the block d that kmalloc has returned.                                  *)
GetInfoAfterCommand(m, d, s, n) == Up(d, s + n, Strl(m, s) - n, TRUE)

(***************************************************************************)
(* The calls the kernel makes.  What is read and written is within the     *)
(* memory; a copy upwards does not overlap, unless it is memmove's; the    *)
(* string src stays as it is; and dest of strcat, which comes from calloc, *)
(* is followed by zeros.                                                   *)
(***************************************************************************)
Apart(p, m, q, n) == p + m <= q \/ q + n <= p

Fits(j) ==
  /\ j.to + j.count + (IF j.nul THEN 1 ELSE 0) <= MemSize
  /\ j.from + j.count <= MemSize

Call(fn, d, s, n, j) ==
  /\ Fits(j)
  /\ args = [fn |-> fn, dst |-> d, src |-> s, n |-> n]
  /\ job = j

StringCall(fn, d, s, n, j) ==
  /\ Apart(j.to, j.count + 1, s, Strl(before, s) + 1)
  /\ Call(fn, d, s, n, j)

Cleared(j) == j.to + j.count \in Addresses /\ before[j.to + j.count] = 0

MemoryCall(d, s, n) ==
  \/ \E b \in Bytes : Call("memset", d, d, n, Memset(d, b, n))
  \/ Apart(d, n, s, n) /\ Call("memcpy", d, s, n, Memcpy(d, s, n))
  \/ Call("memmove", d, s, n, Memmove(d, s, n))

AppendCall(d, s) ==
  \/ /\ Cleared(Strcat(before, d, s))
     /\ StringCall("strcat", d, s, 0, Strcat(before, d, s))
  \/ \E n \in 0..Strl(before, s) : StringCall("strncat", d, s, n, Strncat(before, d, s, n))

InfoCall(d, s) ==
  \E n \in 0..Strl(before, s) - 1 : StringCall("info", d, s, n, GetInfoAfterCommand(before, d, s, n))

Init ==
  /\ before \in [Addresses -> Bytes]
  /\ mem = before
  /\ k = 0 /\ done = FALSE
  /\ \E d, s \in Addresses :
       \/ \E n \in 0..MemSize : MemoryCall(d, s, n)
       \/ Ends(before, s) # {} /\ InfoCall(d, s)
       \/ Ends(before, s) # {} /\ Ends(before, d) # {} /\ AppendCall(d, s)

Move ==
  LET o == IF job.way = "down" THEN job.count - k - 1 ELSE k
  IN  /\ ~done /\ k < job.count
      /\ mem' = [mem EXCEPT ![job.to + o] = IF job.way = "fill" THEN job.byte ELSE mem[job.from + o]]
      /\ k' = k + 1
      /\ UNCHANGED <<before, args, job, done>>

Return ==
  /\ ~done /\ k = job.count
  /\ mem' = IF job.nul THEN [mem EXCEPT ![job.to + job.count] = 0] ELSE mem
  /\ done' = TRUE
  /\ UNCHANGED <<before, args, job, k>>

Next == Move \/ Return

Spec == Init /\ [][Next]_vars

(***************************************************************************)
(* Properties                                                              *)
(***************************************************************************)

(* Once a function has returned, the bytes it was to write are the byte it *)
(* was given, or those that were at the source when it was called, however *)
(* the two overlap, and no other byte has changed.                         *)
MovedExactly ==
  done =>
    mem = [a \in Addresses |->
             IF a \in job.to..(job.to + job.count - 1)
             THEN IF job.way = "fill" THEN job.byte ELSE before[job.from + (a - job.to)]
             ELSE IF job.nul /\ a = job.to + job.count THEN 0
             ELSE before[a]]

(* The strings the kernel puts together are what their parts were: the     *)
(* path and the name, and what follows the command on the line.  They end  *)
(* with a NUL.                                                             *)
StringsJoined ==
  LET old == StringAt(before, args.dst)
      src == StringAt(before, args.src)
      new == StringAt(mem, args.dst)
  IN  done /\ args.fn \in {"strcat", "strncat", "info"} =>
        /\ Ends(mem, args.dst) # {}
        /\ args.fn = "strcat"  => new = old \o src
        /\ args.fn = "strncat" => new = old \o SubSeq(src, 1, args.n)
        /\ args.fn = "info"    => new = SubSeq(src, args.n + 1, Len(src))

(* strcmp is 0 for equal strings and no others, and a line starts with a   *)
(* command if the command is its first characters: neither reads on behind *)
(* the end of the shorter string.  (Compared once for a memory.)           *)
ComparesExact ==
  job.count = 0 /\ ~done =>
    \A p, q \in {a \in Addresses : Ends(before, a) # {}} :
      LET s == StringAt(before, p)
          t == StringAt(before, q)
      IN  /\ Strcmp(before, p, q) = 0 <=> s = t
          /\ StartsWith(before, p, q) <=> Len(t) <= Len(s) /\ SubSeq(s, 1, Len(t)) = t
=============================================================================
