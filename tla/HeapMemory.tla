---------------------------- MODULE HeapMemory ----------------------------
(***************************************************************************)
(* The heap together with the bytes it lives in.  mem holds, for every     *)
(* address of the arena, what was last stored there: a byte of a header, a *)
(* byte one of the memsets of heap.c wrote, or a byte of the client.  Each *)
(* step of Heap gets the stores its code makes; the steps that store       *)
(* nothing leave mem alone.                                                *)
(***************************************************************************)
EXTENDS Heap

CONSTANT Stamps   \* the bytes the client writes, apart from the ones below

VARIABLE mem      \* address -> byte

mvars == <<hdr, pc, cur, req, ptr, res, owned, mem>>

Bytes == Stamps \cup {"boot", "header", "zero", "dd"}

(* memset(addr, byte, n) *)
Filled(addr, n, byte) == [a \in DOMAIN mem |-> IF a \in addr..(addr + n - 1) THEN byte ELSE mem[a]]

(* memcpy(dest, src, n) of blocks that do not overlap *)
Copied(dest, src, n) ==
  [a \in DOMAIN mem |-> IF a \in dest..(dest + n - 1) THEN mem[src + a - dest] ELSE mem[a]]

HeaderBytes(h) == h..(h + HEADER_SIZE - 1)

MInit ==
  /\ Init
  /\ mem = [a \in MEM_ADDR_START..(MEM_END - 1) |->
              IF a \in HeaderBytes(MEM_ADDR_START) THEN "header" ELSE "boot"]

(* The header h is given out: a header that splitHeader or allocHeader     *)
(* makes is stored, then the payload of h is zeroed.                       *)
StoreTaken(h) ==
  mem' = [a \in DOMAIN mem |->
            IF a \in PtrOf(h)..(PtrOf(h) + req - 1) THEN "zero"
            ELSE IF \E new \in DOMAIN hdr' \ DOMAIN hdr : a \in HeaderBytes(new) THEN "header"
            ELSE mem[a]]

(* The mistake: the poison starts at the header. *)
PoisonWhole(h) == mem' = Filled(h, hdr'[h].size, "dd")

(* free and its merge loops fill the payload of the block they leave. *)
Poison(h) == mem' = Filled(PtrOf(h), hdr'[h].size, "dd")

(* The mistake: the block is freed before it is copied. *)
MoveContentLate == mem' = Filled(res, hdr[HeaderOf(ptr)].size, "dd")

(* realloc copies all of the old payload, which is smaller than the new. *)
MoveContent == mem' = Copied(res, ptr, hdr[HeaderOf(ptr)].size)

(* The client writes to a block it holds. *)
ClientWrite(p, s) ==
  /\ pc = "idle"
  /\ mem' = Filled(p, owned[p], s)
  /\ UNCHANGED vars

(* The steps of a call that store nothing but fields of headers. *)
Silent ==
  \/ MallocRefuse \/ StartScan \/ ScanNext \/ ScanFail
  \/ MallocReturn \/ ReallocFail \/ MergeNextDone \/ MergePrevDone

MStep ==
  \/ Silent /\ UNCHANGED mem
  \/ TakeInitialHeader /\ StoreTaken(MEM_ADDR_START)
  \/ ScanTake /\ StoreTaken(cur)
  \/ ScanAppend /\ StoreTaken(EndOf(cur))
  \/ ReallocCopy /\ MoveContent
  \/ FreeMark /\ Poison(HeaderOf(ptr))
  \/ MergeNext /\ Poison(cur)
  \/ MergePrev /\ Poison(hdr[cur].prev)

MNext ==
  \/ Call /\ UNCHANGED mem
  \/ \E p \in DOMAIN owned, s \in Stamps : ClientWrite(p, s)
  \/ MStep

(* A call runs on the only thread there is, so it takes its next step. *)
MSpec == MInit /\ [][MNext]_mvars /\ WF_mvars(MStep)

(***************************************************************************)
(* Properties                                                              *)
(***************************************************************************)

(* No memset, memcpy or write of the client reaches a byte of a header of  *)
(* the list, although the headers lie between the payloads and the merge   *)
(* loops fill whole blocks.                                                *)
HeadersIntact == \A h \in DOMAIN hdr : \A a \in HeaderBytes(h) : mem[a] = "header"

(* What the client sees of the memory. *)
Held == [p \in DOMAIN owned |-> [i \in 0..owned[p] - 1 |-> mem[p + i]]]

Blocks == INSTANCE Allocator WITH
  ArenaStart <- MEM_ADDR_START, ArenaEnd <- MEM_END, Sizes <- Requests, Zero <- "zero",
  blocks <- Held

(* The heap is an allocator: a block it hands out is zeroed and apart from *)
(* all others, realloc keeps the content, and no step of a call on one     *)
(* block, nor the merging behind free, changes a byte of another one.      *)
IsAllocator == Blocks!Spec

=============================================================================
