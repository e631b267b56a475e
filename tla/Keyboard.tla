----------------------------- MODULE Keyboard -----------------------------
(***************************************************************************)
(* The ring between the keyboard interrupt and getchar                     *)
(* (Kernel/Drivers/keyboard.c, getchar in Kernel/System/stdio.c).          *)
(*                                                                         *)
(* key_head and key_tail are uint8_t: they count modulo COUNTER = 256,     *)
(* which is not a multiple of KEYBUFF_SIZE = 100, and their difference in  *)
(* key_push is taken in int, without a modulus.  The handler runs with     *)
(* interrupts off, so it is one step; the reader runs with interrupts on   *)
(* and can be interrupted between the load of key_head, the store of its   *)
(* increment and the fetch from keybuff, so these are three.               *)
(***************************************************************************)
EXTENDS Integers, Sequences

CONSTANTS
  KEYBUFF_SIZE,   \* slots of keybuff
  COUNTER,        \* the number of values of key_head and key_tail
  Keys,           \* characters of the table keyboard[]
  NUL,            \* (char)0, what keyboard[] has for the keys without one
  MaxUnread       \* how many keys a typist gets ahead of the reader

ASSUME KeyboardAssumption ==
  /\ KEYBUFF_SIZE \in Nat \ {0}
  /\ COUNTER \in Nat
  /\ COUNTER > KEYBUFF_SIZE
  /\ NUL \notin Keys
  /\ MaxUnread \in Nat

(* Unread keys across the wrap of the counters have slots of their own. *)
ASSUME TypistAssumption == MaxUnread <= COUNTER % KEYBUFF_SIZE

VARIABLES
  keybuff,   \* slot -> key
  key_head, key_tail,
  pc,        \* where the kernel is: in getchar ("test"), in key_pop ("store",
             \* "fetch"), returning a key ("got"), or in a command ("away")
  head,      \* the register that holds the loaded key_head
  c          \* the local c of getchar

vars == <<keybuff, key_head, key_tail, pc, head, c>>

Slot(n) == n % KEYBUFF_SIZE

(* The mistake: a counter that does not wrap. *)
SuccUnbounded(n) == n + 1

Succ(n) == (n + 1) % COUNTER

Pending == (key_tail - key_head) % COUNTER

(* The key the reader has unlinked and not yet fetched still has its slot. *)
Unread == IF pc = "fetch" THEN Pending + 1 ELSE Pending

(* init_keyboard.  keybuff is in .bss. *)
Init ==
  /\ keybuff = [s \in 0..KEYBUFF_SIZE - 1 |-> NUL]
  /\ key_head = 0 /\ key_tail = 0
  /\ pc = "away"
  /\ head = 0
  /\ c = NUL

(***************************************************************************)
(* keyboard_handler and key_push.  A scancode of a key release returns     *)
(* without a step.                                                         *)
(***************************************************************************)
Full == key_tail - key_head = KEYBUFF_SIZE

(* The mistake: a full ring drops nothing. *)
KeyPressKeepHead(k) ==
  /\ keybuff' = [keybuff EXCEPT ![Slot(key_tail)] = k]
  /\ key_tail' = Succ(key_tail)
  /\ UNCHANGED <<key_head, pc, head, c>>

KeyPress(k) ==
  /\ key_head' = IF Full THEN Succ(key_head) ELSE key_head
  /\ keybuff' = [keybuff EXCEPT ![Slot(key_tail)] = k]
  /\ key_tail' = Succ(key_tail)
  /\ UNCHANGED <<pc, head, c>>

(***************************************************************************)
(* getchar and key_pop                                                     *)
(***************************************************************************)

(* The kernel calls getchar, at the start of getline or for its next key. *)
CallGetchar ==
  /\ pc \in {"away", "got"}
  /\ pc' = "test"
  /\ c' = NUL
  /\ UNCHANGED <<keybuff, key_head, key_tail, head>>

(* getline returned at a newline, and the kernel runs the command. *)
RunCommand ==
  /\ pc = "got"
  /\ pc' = "away"
  /\ c' = NUL
  /\ UNCHANGED <<keybuff, key_head, key_tail, head>>

(* The ring is not empty, and key_head is loaded.  While it is empty the   *)
(* loop of getchar changes nothing.                                        *)
PopLoad ==
  /\ pc = "test"
  /\ key_tail # key_head
  /\ head' = key_head
  /\ pc' = "store"
  /\ UNCHANGED <<keybuff, key_head, key_tail, c>>

(* The mistake: the increment is lost. *)
PopKeep ==
  /\ pc = "store"
  /\ key_head' = head
  /\ pc' = "fetch"
  /\ UNCHANGED <<keybuff, key_tail, head, c>>

PopStore ==
  /\ pc = "store"
  /\ key_head' = Succ(head)
  /\ pc' = "fetch"
  /\ UNCHANGED <<keybuff, key_tail, head, c>>

(* A NUL sends getchar round its loop again. *)
PopFetch ==
  /\ pc = "fetch"
  /\ c' = keybuff[Slot(head)]
  /\ pc' = IF c' = NUL THEN "test" ELSE "got"
  /\ UNCHANGED <<keybuff, key_head, key_tail, head>>

Reader == CallGetchar \/ RunCommand \/ PopLoad \/ PopStore \/ PopFetch

(* The handler runs at any moment: nothing in the code limits a typist. *)
Next == Reader \/ \E k \in Keys \cup {NUL} : KeyPress(k)

Spec == Init /\ [][Next]_vars

(***************************************************************************)
(* A typist within the limits of the ring.  Beyond them key_push breaks    *)
(* the queue: a full ring while the reader is in key_pop (both move        *)
(* key_head), and keys that wait across the wrap of the counters, more     *)
(* than have slots of their own or than make Full true.                    *)
(***************************************************************************)

(* Types at any moment, but at most MaxUnread keys ahead of the reader.    *)
SteadyPress(k) == Unread < MaxUnread /\ KeyPress(k)

(* Types ahead without limit while a command runs, as long as no key that  *)
(* waits lies across the wrap of the counters.                             *)
BurstPress(k) ==
  /\ pc = "away"
  /\ key_head <= key_tail /\ key_tail < COUNTER - 1
  /\ KeyPress(k)

TypistNext == Reader \/ \E k \in Keys \cup {NUL} : SteadyPress(k) \/ BurstPress(k)

TypistSpec == Init /\ [][TypistNext]_vars

(* The kernel keeps running: it polls in getchar, and a command returns.   *)
FairSpec == TypistSpec /\ WF_vars(Reader)

(***************************************************************************)
(* Properties                                                              *)
(***************************************************************************)

(* The type invariant: the counters stay uint8_t and the slots characters, *)
(* whatever is typed.                                                      *)
TypeOK ==
  /\ keybuff \in [0..KEYBUFF_SIZE - 1 -> Keys \cup {NUL}]
  /\ key_head \in 0..COUNTER - 1 /\ key_tail \in 0..COUNTER - 1 /\ head \in 0..COUNTER - 1
  /\ pc \in {"test", "store", "fetch", "got", "away"}
  /\ c \in Keys \cup {NUL}
  /\ pc = "got" <=> c # NUL

(* The keys between key_head and key_tail, oldest first. *)
Ring == [i \in 1..Pending |-> keybuff[Slot((key_head + i - 1) % COUNTER)]]

(* The key the reader has taken out of the ring. *)
Hand == IF pc = "fetch" THEN keybuff[Slot(head)] ELSE c

Queue == INSTANCE KeyQueue WITH Capacity <- KEYBUFF_SIZE, queue <- Ring, hand <- Hand

(* For a typist within the limits, whatever the interrupt does between the *)
(* steps of key_pop, getchar returns the keys in the order they were       *)
(* pressed, each once; a burst during a command that overruns the ring     *)
(* loses its oldest keys and no others.  Not claimed of a ring that is     *)
(* full while the reader is in key_pop, nor of a burst over the wrap.      *)
IsKeyQueue == Queue!Spec

(* For the same typist, a key with a character that waits in the ring      *)
(* while the kernel is in getchar reaches getline, although others keep    *)
(* coming and keys without a character are in front of it.                 *)
KeysArrive ==
  (pc # "away" /\ \E i \in 1..Pending : Ring[i] # NUL) ~> pc = "got"

=============================================================================
