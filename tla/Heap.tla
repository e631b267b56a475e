------------------------------- MODULE Heap -------------------------------
(***************************************************************************)
(* The kernel heap of Kernel/Memory/heap.c: a doubly linked list of block  *)
(* headers that lie in the memory they manage.  This module keeps the      *)
(* headers and the control of the four entry points; what the bytes hold   *)
(* is added by HeapMemory.                                                 *)
(*                                                                         *)
(* An address is a natural number and NULL is 0.  hdr maps the address of  *)
(* every header of the list to its fields.  A call is a sequence of steps  *)
(* that follow the loops of the code: pc says where the call is, and while *)
(* it is not "idle" the client (the kernel) waits for the call to return.  *)
(* No interrupt handler touches the heap, so nothing else changes it.      *)
(* The sums of the code are 32 bit sums; every size here is far below      *)
(* 2^32 - MEM_SIZE, where none of them wraps.                              *)
(***************************************************************************)
EXTENDS Integers

CONSTANTS
  MEM_ADDR_START,  \* address of the first header
  MEM_SIZE,        \* bytes the heap manages, headers included
  HEADER_SIZE,     \* sizeof(Header)
  Requests         \* the sizes the client asks for

ASSUME HeapAssumption ==
  /\ MEM_ADDR_START \in Nat \ {0}
  /\ HEADER_SIZE \in Nat \ {0}
  /\ MEM_SIZE \in Nat
  /\ MEM_SIZE >= HEADER_SIZE
  /\ Requests \subseteq Nat

VARIABLES
  hdr,    \* header address -> [next, prev, size, taken]
  pc,     \* where the call in progress is
  cur,    \* the local cur of findUnusedHeader and of free
  req,    \* the parameter size of malloc
  ptr,    \* the parameter ptr of realloc or addr of free, NULL in malloc
  res,    \* the pointer malloc returns
  owned   \* pointers the client holds -> the size it asked for

vars == <<hdr, pc, cur, req, ptr, res, owned>>

NULL == 0
MEM_END == MEM_ADDR_START + MEM_SIZE

(* The address just behind the payload of header h. *)
EndOf(h) == h + HEADER_SIZE + hdr[h].size

(* A client pointer points behind its header. *)
PtrOf(h) == h + HEADER_SIZE
HeaderOf(p) == p - HEADER_SIZE

(* f with k mapped to v, whether or not k was in its domain. *)
With(f, k, v) == [x \in DOMAIN f \cup {k} |-> IF x = k THEN v ELSE f[x]]
Without(f, k) == [x \in DOMAIN f \ {k} |-> f[x]]

(***************************************************************************)
(* Headers.  Some definitions come in two forms: the one the specification *)
(* uses, and before it a form with a plausible mistake, used only to show  *)
(* that a property notices the mistake.                                    *)
(***************************************************************************)

(* The mistake: a block that has no room for a second header is split too. *)
CanSplitWithoutHeader(h, n) == hdr[h].size > n

(* The condition of splitHeader. *)
CanSplit(h, n) == hdr[h].size > n + HEADER_SIZE

(* The list splitHeader leaves, but for header->next->prev. *)
SplitForward(h, n) ==
  LET rest == h + HEADER_SIZE + n
      list == With(hdr, rest, [next  |-> hdr[h].next,
                               prev  |-> h,
                               size  |-> hdr[h].size - n - HEADER_SIZE,
                               taken |-> FALSE])
  IN  [list EXCEPT ![h].size = n, ![h].next = rest]

Split(h, n) ==
  IF hdr[h].next # NULL
  THEN [SplitForward(h, n) EXCEPT ![hdr[h].next].prev = h + HEADER_SIZE + n]
  ELSE SplitForward(h, n)

(* What both callers of splitHeader do with the header they found: when it *)
(* does not split they set the size by hand, and from then on the up to    *)
(* HEADER_SIZE bytes it was too large by belong to no block.               *)
TakeHeader(h, n) ==
  LET list == IF CanSplit(h, n) THEN Split(h, n) ELSE [hdr EXCEPT ![h].size = n]
  IN  hdr' = [list EXCEPT ![h].taken = TRUE]

(* The condition of allocHeader for a header right behind the tail. *)
RoomBehind(tail, n) == MEM_SIZE >= EndOf(tail) - MEM_ADDR_START + HEADER_SIZE + n

(* allocHeader behind the tail, and the two links findUnusedHeader sets. *)
AppendHeader(tail, n) ==
  LET new == EndOf(tail)
      list == With(hdr, new, [next |-> NULL, prev |-> tail, size |-> n, taken |-> TRUE])
  IN  hdr' = [list EXCEPT ![tail].next = new]

(* What the round of a merge loop of free leaves when it forgets the prev  *)
(* field of the header behind the merged block.                            *)
AbsorbForward(h, gone) ==
  [Without(hdr, gone) EXCEPT ![h].size = @ + HEADER_SIZE + hdr[gone].size,
                             ![h].next = hdr[gone].next]

(* A round of a merge loop of free: block h absorbs the block behind it. *)
Absorb(h, gone) ==
  IF hdr[gone].next # NULL
  THEN [AbsorbForward(h, gone) EXCEPT ![hdr[gone].next].prev = h]
  ELSE AbsorbForward(h, gone)

(* The mistake: the loop looks at the link only. *)
IsLinked(h) == h # NULL

IsFree(h) == h # NULL /\ ~hdr[h].taken

(***************************************************************************)
(* malloc: takeInitialHeader, then findUnusedHeader                        *)
(***************************************************************************)
Init ==
  /\ hdr = [a \in {MEM_ADDR_START} |->
              [next |-> NULL, prev |-> NULL, size |-> 0, taken |-> FALSE]]
  /\ pc = "idle"
  /\ cur = NULL
  /\ req = 0
  /\ ptr = NULL
  /\ res = NULL
  /\ owned = [p \in {} |-> 0]

(* malloc(n), and realloc(NULL, n). *)
CallMalloc(n) ==
  /\ pc = "idle"
  /\ pc' = "malloc"
  /\ req' = n
  /\ UNCHANGED <<hdr, cur, ptr, res, owned>>

(* calloc(num, n): the block malloc returns is zeroed a second time. *)
CallCalloc(num, n) ==
  /\ num * n \in Requests
  /\ CallMalloc(num * n)

EnoughRoom(n) == MEM_SIZE >= n + HEADER_SIZE

MallocRefuse ==
  /\ pc = "malloc"
  /\ ~EnoughRoom(req)
  /\ pc' = "malloced"
  /\ res' = NULL
  /\ UNCHANGED <<hdr, cur, req, ptr, owned>>

InitialIsAlone ==
  /\ hdr[MEM_ADDR_START].next = NULL
  /\ ~hdr[MEM_ADDR_START].taken

TakeInitialHeader ==
  /\ pc = "malloc"
  /\ EnoughRoom(req)
  /\ InitialIsAlone
  /\ TakeHeader(MEM_ADDR_START, req)
  /\ pc' = "malloced"
  /\ res' = PtrOf(MEM_ADDR_START)
  /\ UNCHANGED <<cur, req, ptr, owned>>

StartScan ==
  /\ pc = "malloc"
  /\ EnoughRoom(req)
  /\ ~InitialIsAlone
  /\ pc' = "scan"
  /\ cur' = MEM_ADDR_START
  /\ UNCHANGED <<hdr, req, ptr, res, owned>>

(* The mistake: an exact fit is passed over. *)
FitsStrictly(h, n) == ~hdr[h].taken /\ hdr[h].size > n

Fits(h, n) == ~hdr[h].taken /\ hdr[h].size >= n

ScanTake ==
  /\ pc = "scan"
  /\ Fits(cur, req)
  /\ TakeHeader(cur, req)
  /\ pc' = "malloced"
  /\ res' = PtrOf(cur)
  /\ cur' = NULL
  /\ UNCHANGED <<req, ptr, owned>>

(* The mistake: lastHeader moves on and cur does not. *)
ScanStays ==
  /\ pc = "scan"
  /\ ~Fits(cur, req)
  /\ hdr[cur].next # NULL
  /\ UNCHANGED vars

ScanNext ==
  /\ pc = "scan"
  /\ ~Fits(cur, req)
  /\ hdr[cur].next # NULL
  /\ cur' = hdr[cur].next
  /\ UNCHANGED <<hdr, pc, req, ptr, res, owned>>

ScanAppend ==
  /\ pc = "scan"
  /\ ~Fits(cur, req)
  /\ hdr[cur].next = NULL
  /\ RoomBehind(cur, req)
  /\ AppendHeader(cur, req)
  /\ pc' = "malloced"
  /\ res' = PtrOf(EndOf(cur))
  /\ cur' = NULL
  /\ UNCHANGED <<req, ptr, owned>>

ScanFail ==
  /\ pc = "scan"
  /\ ~Fits(cur, req)
  /\ hdr[cur].next = NULL
  /\ ~RoomBehind(cur, req)
  /\ pc' = "malloced"
  /\ res' = NULL
  /\ cur' = NULL
  /\ UNCHANGED <<hdr, req, ptr, owned>>

MallocReturn ==
  /\ pc = "malloced"
  /\ ptr = NULL
  /\ owned' = IF res = NULL THEN owned ELSE With(owned, res, req)
  /\ pc' = "idle"
  /\ req' = 0
  /\ res' = NULL
  /\ UNCHANGED <<hdr, cur, ptr>>

(***************************************************************************)
(* realloc of a pointer the client holds                                   *)
(***************************************************************************)
ReallocInPlace(p, n) ==
  /\ pc = "idle"
  /\ n > 0
  /\ n <= hdr[HeaderOf(p)].size
  /\ owned' = [owned EXCEPT ![p] = n]
  /\ UNCHANGED <<hdr, pc, cur, req, ptr, res>>

ReallocMove(p, n) ==
  /\ pc = "idle"
  /\ n > hdr[HeaderOf(p)].size
  /\ pc' = "malloc"
  /\ req' = n
  /\ ptr' = p
  /\ UNCHANGED <<hdr, cur, res, owned>>

(* malloc failed: realloc returns NULL and the old block stays. *)
ReallocFail ==
  /\ pc = "malloced"
  /\ ptr # NULL
  /\ res = NULL
  /\ pc' = "idle"
  /\ req' = 0
  /\ ptr' = NULL
  /\ UNCHANGED <<hdr, cur, res, owned>>

(* The mistake: the old block is forgotten instead of freed. *)
ReallocForget ==
  /\ pc = "malloced"
  /\ ptr # NULL
  /\ res # NULL
  /\ owned' = With(Without(owned, ptr), res, req)
  /\ pc' = "idle"
  /\ req' = 0
  /\ ptr' = NULL
  /\ res' = NULL
  /\ UNCHANGED <<hdr, cur>>

(* memcpy to the new block, which the client holds from here on; free(ptr) *)
(* follows before realloc returns.                                         *)
ReallocCopy ==
  /\ pc = "malloced"
  /\ ptr # NULL
  /\ res # NULL
  /\ owned' = With(Without(owned, ptr), res, req)
  /\ pc' = "free"
  /\ req' = 0
  /\ res' = NULL
  /\ UNCHANGED <<hdr, cur, ptr>>

(***************************************************************************)
(* free                                                                    *)
(***************************************************************************)
CallFree(p) ==
  /\ pc = "idle"
  /\ owned' = Without(owned, p)
  /\ pc' = "free"
  /\ ptr' = p
  /\ UNCHANGED <<hdr, cur, req, res>>

(* realloc(p, 0) *)
ReallocZero(p) ==
  /\ 0 \in Requests
  /\ CallFree(p)

(* The mistake: only the loop that looks backwards. *)
FreeMarkBackward ==
  /\ pc = "free"
  /\ hdr' = [hdr EXCEPT ![HeaderOf(ptr)].taken = FALSE]
  /\ cur' = HeaderOf(ptr)
  /\ ptr' = NULL
  /\ pc' = "mergePrev"
  /\ UNCHANGED <<req, res, owned>>

FreeMark ==
  /\ pc = "free"
  /\ hdr' = [hdr EXCEPT ![HeaderOf(ptr)].taken = FALSE]
  /\ cur' = HeaderOf(ptr)
  /\ ptr' = NULL
  /\ pc' = "mergeNext"
  /\ UNCHANGED <<req, res, owned>>

MergeNext ==
  /\ pc = "mergeNext"
  /\ IsFree(hdr[cur].next)
  /\ hdr' = Absorb(cur, hdr[cur].next)
  /\ UNCHANGED <<pc, cur, req, ptr, res, owned>>

MergeNextDone ==
  /\ pc = "mergeNext"
  /\ ~IsFree(hdr[cur].next)
  /\ pc' = "mergePrev"
  /\ UNCHANGED <<hdr, cur, req, ptr, res, owned>>

MergePrev ==
  /\ pc = "mergePrev"
  /\ IsFree(hdr[cur].prev)
  /\ hdr' = Absorb(hdr[cur].prev, cur)
  /\ cur' = hdr[cur].prev
  /\ UNCHANGED <<pc, req, ptr, res, owned>>

MergePrevDone ==
  /\ pc = "mergePrev"
  /\ ~IsFree(hdr[cur].prev)
  /\ pc' = "idle"
  /\ cur' = NULL
  /\ UNCHANGED <<hdr, req, ptr, res, owned>>

(***************************************************************************)
(* The specification                                                       *)
(***************************************************************************)

(* A call the client may make: it frees and resizes only what it holds. *)
Call ==
  \/ \E n \in Requests : CallMalloc(n)
  \/ \E num \in 1..2, n \in Requests : CallCalloc(num, n)
  \/ \E p \in DOMAIN owned :
       \/ CallFree(p)
       \/ ReallocZero(p)
       \/ \E n \in Requests : ReallocInPlace(p, n) \/ ReallocMove(p, n)

(* A step of the call in progress. *)
Step ==
  \/ MallocRefuse \/ TakeInitialHeader \/ StartScan
  \/ ScanTake \/ ScanNext \/ ScanAppend \/ ScanFail
  \/ MallocReturn \/ ReallocFail \/ ReallocCopy
  \/ FreeMark \/ MergeNext \/ MergeNextDone \/ MergePrev \/ MergePrevDone

Next == Call \/ Step

Spec == Init /\ [][Next]_vars

(* A call runs on the only thread there is, so it takes its next step. *)
FairSpec == Spec /\ WF_vars(Step)

(***************************************************************************)
(* Properties                                                              *)
(***************************************************************************)
Header == [next : Nat, prev : Nat, size : Nat, taken : BOOLEAN]

(* The type invariant: the list of heap.h's Header records, the locals of  *)
(* the call in progress and what the client holds.                         *)
TypeOK ==
  /\ DOMAIN hdr \subseteq Nat \ {NULL}
  /\ hdr \in [DOMAIN hdr -> Header]
  /\ pc \in {"idle", "malloc", "scan", "malloced", "free", "mergeNext", "mergePrev"}
  /\ cur \in Nat /\ req \in Nat /\ ptr \in Nat /\ res \in Nat
  /\ DOMAIN owned \subseteq Nat \ {NULL}
  /\ owned \in [DOMAIN owned -> Nat]

(* The links name headers of the list and agree with each other. *)
LinksAgree ==
  /\ MEM_ADDR_START \in DOMAIN hdr
  /\ hdr[MEM_ADDR_START].prev = NULL
  /\ \A a \in DOMAIN hdr :
       /\ hdr[a].next # NULL => /\ hdr[a].next \in DOMAIN hdr
                               /\ hdr[hdr[a].next].prev = a
       /\ a # MEM_ADDR_START => /\ hdr[a].prev \in DOMAIN hdr
                                /\ hdr[hdr[a].prev].next = a

(* Blocks lie in the arena one behind the other, in the list's order. *)
InArena == \A a \in DOMAIN hdr : MEM_ADDR_START <= a /\ EndOf(a) <= MEM_END
InOrder ==
  /\ \A a \in DOMAIN hdr : hdr[a].next # NULL => EndOf(a) <= hdr[a].next
  /\ \A a, b \in DOMAIN hdr : a < b => hdr[a].next # NULL /\ hdr[a].next <= b

(* After any history of split, append, merge and growth the headers form   *)
(* one doubly linked list, sorted by address, of blocks that overlap       *)
(* neither each other nor the end of the arena.                            *)
WellLinked == LinksAgree /\ InArena /\ InOrder

(* What the client holds is the payload of a taken block. *)
OwnedBacked ==
  \A p \in DOMAIN owned :
    /\ HeaderOf(p) \in DOMAIN hdr
    /\ hdr[HeaderOf(p)].taken
    /\ owned[p] <= hdr[HeaderOf(p)].size

(* Whatever malloc, calloc and realloc handed out and free did not take    *)
(* back is the payload of a taken block of at least the size asked for,    *)
(* and no two of these payloads share a byte, nor a byte with a header.    *)
OwnedDisjoint ==
  /\ OwnedBacked
  /\ \A p \in DOMAIN owned, h \in DOMAIN hdr : p <= h => p + owned[p] <= h
  /\ \A p, q \in DOMAIN owned : p < q => p + owned[p] <= q - HEADER_SIZE

(* No block leaks inside the allocator: a taken block is one the client    *)
(* holds, or the one the call in progress is about to hand out or free.    *)
(* The one call that leaves it between both is realloc, which frees the    *)
(* old block after it has the new one.                                     *)
Accounted ==
  \A h \in DOMAIN hdr : hdr[h].taken =>
    \/ PtrOf(h) \in DOMAIN owned
    \/ pc = "malloced" /\ res = PtrOf(h)
    \/ pc = "free" /\ ptr = PtrOf(h)

(* The two loops of free coalesce all there is: two free blocks are        *)
(* neighbours only next to the block free is merging at the moment.        *)
Coalesced ==
  \A a \in DOMAIN hdr :
    /\ ~hdr[a].taken
    /\ IsFree(hdr[a].next)
    => \/ pc = "mergeNext" /\ cur \in {a, hdr[a].next}
       \/ pc = "mergePrev" /\ cur = hdr[a].next

(* A client that has freed everything is back at the list init_heap made:  *)
(* one free header at the start, which takes any request that fits.        *)
DrainedHeapIsWhole ==
  pc = "idle" /\ owned = [p \in {} |-> 0] =>
    DOMAIN hdr = {MEM_ADDR_START} /\ InitialIsAlone

(* malloc returns NULL only when no free block of the list is large enough *)
(* and the arena has no room behind the tail, although the scan looks at   *)
(* one header at a time and takeInitialHeader at the first one only.       *)
RefusedOnlyWhenFull ==
  pc = "malloced" /\ res = NULL =>
    \A h \in DOMAIN hdr :
      /\ ~hdr[h].taken => hdr[h].size < req
      /\ hdr[h].next = NULL => MEM_END - EndOf(h) < HEADER_SIZE + req

(* Every call of the heap returns: the scan reaches the tail and the merge *)
(* loops run out of free neighbours.                                       *)
CallReturns == pc # "idle" ~> pc = "idle"

=============================================================================
