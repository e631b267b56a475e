----------------------------- MODULE Allocator -----------------------------
(***************************************************************************)
(* What the rest of the kernel relies on when it calls malloc, calloc,     *)
(* realloc and free: a set of blocks that keep what was written to them.   *)
(* Neither headers, nor a list, nor the steps of a call are visible here.  *)
(* HeapMemory is shown to implement this specification.                    *)
(***************************************************************************)
EXTENDS Integers

CONSTANTS
  ArenaStart, ArenaEnd,  \* the addresses from ArenaStart up to, not including, ArenaEnd
  Sizes,                 \* the sizes the client asks for
  Zero                   \* the byte malloc fills a new block with

VARIABLE blocks          \* pointer -> what its block holds, from offset 0 on

(* n bytes at q lie in the arena and touch none of the blocks in ps. *)
Unused(q, n, ps) ==
  /\ ArenaStart <= q /\ q + n <= ArenaEnd
  /\ q \notin ps
  /\ \A p \in ps : \A i \in DOMAIN blocks[p] : p + i \notin q..(q + n - 1)

Others(p) == \A q \in DOMAIN blocks \ {p} : blocks'[q] = blocks[q]

Init == blocks = [p \in {} |-> Zero]

Malloc(p, n) ==
  /\ Unused(p, n, DOMAIN blocks)
  /\ blocks' = [q \in DOMAIN blocks \cup {p} |->
                  IF q = p THEN [i \in 0..n - 1 |-> Zero] ELSE blocks[q]]

(* q is p itself or a block apart from every old one; what fits of the old *)
(* content is kept and the bytes behind it are undetermined.               *)
Realloc(p, q, n) ==
  /\ q # p => Unused(q, n, DOMAIN blocks)
  /\ DOMAIN blocks' = (DOMAIN blocks \ {p}) \cup {q}
  /\ DOMAIN blocks'[q] = 0..n - 1
  /\ \A i \in DOMAIN blocks[p] \cap 0..n - 1 : blocks'[q][i] = blocks[p][i]
  /\ Others(p)

Free(p) == blocks' = [q \in DOMAIN blocks \ {p} |-> blocks[q]]

(* The client writes any bytes inside a block it holds. *)
Write(p) ==
  /\ DOMAIN blocks' = DOMAIN blocks
  /\ DOMAIN blocks'[p] = DOMAIN blocks[p]
  /\ Others(p)

Next ==
  \/ \E p \in ArenaStart..ArenaEnd, n \in Sizes : Malloc(p, n)
  \/ \E p \in DOMAIN blocks :
       \/ \E q \in ArenaStart..ArenaEnd, n \in Sizes : Realloc(p, q, n)
       \/ Free(p)
       \/ Write(p)

Spec == Init /\ [][Next]_blocks

=============================================================================
