-------------------------- MODULE KeyboardProofs --------------------------
(***************************************************************************)
(* The keyboard ring is a queue, for every size and every counter width,   *)
(* as long as the typist keeps the limits of Keyboard.  Way and Behind say *)
(* without a remainder what the counters do; SlotsApart says when two of   *)
(* them have different slots.                                              *)
(***************************************************************************)
EXTENDS Keyboard, SequenceTheorems, TLAPS

LEMMA Modulus == ASSUME NEW n \in Int, NEW m \in Nat \ {0} PROVE n % m \in 0..m - 1
  OBVIOUS

LEMMA Constants ==
  /\ KEYBUFF_SIZE \in Nat \ {0} /\ COUNTER \in Nat \ {0}
  /\ \A n \in Int : Slot(n) \in 0..KEYBUFF_SIZE - 1 /\ Succ(n) \in 0..COUNTER - 1
  BY KeyboardAssumption, Modulus DEF Slot, Succ

LEMMA Counters == TypeOK => key_head \in Int /\ key_tail \in Int /\ head \in Int
  BY Constants DEF TypeOK

LEMMA TypeInit == Init => TypeOK
  BY Constants DEF Init, TypeOK

LEMMA PressKeepsType ==
  ASSUME TypeOK, NEW k \in Keys \cup {NUL}, KeyPress(k) PROVE TypeOK'
  <1>1. /\ key_head \in Int /\ key_tail \in Int
        /\ Slot(key_tail) \in 0..KEYBUFF_SIZE - 1
        /\ Succ(key_head) \in 0..COUNTER - 1 /\ Succ(key_tail) \in 0..COUNTER - 1
    BY Constants, Counters
  <1>2. keybuff' \in [0..KEYBUFF_SIZE - 1 -> Keys \cup {NUL}]
    BY <1>1 DEF TypeOK, KeyPress
  <1> QED
    BY <1>1, <1>2 DEF TypeOK, KeyPress

LEMMA ReaderKeepsType == TypeOK /\ Reader => TypeOK'
  <1> SUFFICES ASSUME TypeOK, Reader PROVE TypeOK'
    OBVIOUS
  <1>1. CASE CallGetchar
    BY <1>1 DEF CallGetchar, TypeOK
  <1>2. CASE RunCommand
    BY <1>2 DEF RunCommand, TypeOK
  <1>3. CASE PopLoad
    BY <1>3 DEF PopLoad, TypeOK
  <1>4. CASE PopStore
    BY <1>4, Constants DEF PopStore, TypeOK
  <1>5. CASE PopFetch
    <2>1. Slot(head) \in 0..KEYBUFF_SIZE - 1
      BY Constants, Counters
    <2>2. c' \in Keys \cup {NUL}
      BY <1>5, <2>1 DEF PopFetch, TypeOK
    <2>3. pc' \in {"test", "got"} /\ (pc' = "got" <=> c' # NUL)
      BY <1>5, <2>2 DEF PopFetch
    <2> QED
      BY <1>5, <2>2, <2>3 DEF PopFetch, TypeOK
  <1> QED
    BY <1>1, <1>2, <1>3, <1>4, <1>5 DEF Reader

LEMMA TypeStep == TypeOK /\ [Next]_vars => TypeOK'
  <1>1. TypeOK /\ UNCHANGED vars => TypeOK'
    BY DEF TypeOK, vars
  <1> QED
    BY <1>1, PressKeepsType, ReaderKeepsType DEF Next

(* The counters stay uint8_t and the slots characters, whatever is typed.  *)
THEOREM TypeCorrect == Spec => []TypeOK
  BY TypeInit, TypeStep, PTL DEF Spec

(***************************************************************************)
(* Counters                                                                *)
(***************************************************************************)
Counter == 0..COUNTER - 1

(* The way from a to b, counting modulo COUNTER. *)
Way(a, b) == IF a <= b THEN b - a ELSE b - a + COUNTER

(* The counter i steps behind a. *)
Behind(a, i) == IF a + i < COUNTER THEN a + i ELSE a + i - COUNTER

LEMMA Remainders ==
  ASSUME NEW m \in Nat \ {0}, NEW r \in 0..m - 1
  PROVE  r % m = r /\ (r + m) % m = r /\ (r - m) % m = r
  OBVIOUS

LEMMA CounterSteps ==
  ASSUME NEW a \in Counter, NEW b \in Counter
  PROVE  /\ (b - a) % COUNTER = Way(a, b)
         /\ Way(a, b) \in Counter
         /\ Succ(a) = Behind(a, 1)
         /\ \A i \in Counter : (a + i) % COUNTER = Behind(a, i) /\ Behind(a, i) \in Counter
  <1>1. COUNTER \in Nat \ {0} /\ a \in Nat /\ b \in Nat
    BY KeyboardAssumption DEF Counter
  <1>2. Way(a, b) \in Counter
    BY <1>1 DEF Way, Counter
  <1>3. b - a = Way(a, b) \/ b - a = Way(a, b) - COUNTER
    BY <1>1 DEF Way
  <1>4. (b - a) % COUNTER = Way(a, b)
    BY <1>1, <1>2, <1>3, Remainders DEF Counter
  <1>5. ASSUME NEW i \in Counter
        PROVE  (a + i) % COUNTER = Behind(a, i) /\ Behind(a, i) \in Counter
    <2>1. Behind(a, i) \in Counter
      BY <1>1 DEF Behind, Counter
    <2>2. a + i = Behind(a, i) \/ a + i = Behind(a, i) + COUNTER
      BY <1>1 DEF Behind, Counter
    <2> QED
      BY <1>1, <2>1, <2>2, Remainders DEF Counter
  <1>6. COUNTER > 1
    BY KeyboardAssumption
  <1>7. Succ(a) = Behind(a, 1)
    BY <1>1, <1>5, <1>6 DEF Succ, Counter
  <1> QED
    BY <1>2, <1>4, <1>5, <1>7

(***************************************************************************)
(* Slots                                                                   *)
(***************************************************************************)
LEMMA Multiple ==
  ASSUME NEW m \in Nat \ {0}, NEW k \in Int, k # 0
  PROVE  k * m >= m \/ k * m <= -m
  <1>1. \A j \in Nat : j * m \in Nat
    OBVIOUS
  <1>2. CASE k >= 1
    <2>1. PICK j \in Nat : k = j + 1
      BY <1>2
    <2>2. k * m = j * m + m
      BY <2>1
    <2> QED
      BY <1>1, <2>1, <2>2
  <1>3. CASE k <= -1
    <2>1. PICK j \in Nat : k = -1 - j
      <3>1. -1 - k \in Nat /\ k = -1 - (-1 - k)
        BY <1>3
      <3> QED
        BY <3>1
    <2>2. k * m = -m - j * m
      BY <2>1
    <2> QED
      BY <1>1, <2>1, <2>2
  <1> QED
    BY <1>2, <1>3

LEMMA Division ==
  ASSUME NEW m \in Int, m > 0, NEW n \in Int
  PROVE  \E q \in Int : n % m = n - m * q
  <1>1. n \div m \in Int
    OBVIOUS
  <1>2. n % m = n - m * (n \div m)
    OBVIOUS
  <1> QED
    BY <1>1, <1>2, Zenon

LEMMA NoMultipleBetween ==
  ASSUME NEW m \in Nat \ {0}, NEW k \in Int, -m < k * m, k * m < m
  PROVE  k * m = 0
  <1>1. CASE k = 0
    BY <1>1
  <1>2. CASE k # 0
    <2>1. k * m \in Int
      OBVIOUS
    <2> QED
      BY <1>2, <2>1, Multiple
  <1> QED
    BY <1>1, <1>2

(* Two counters have different slots, unless they are as far from each     *)
(* other as the ring is long; across the wrap they must be nearer.         *)
LEMMA SlotsApart ==
  ASSUME NEW a \in Counter, NEW b \in Counter, a # b, Way(a, b) < KEYBUFF_SIZE,
         b < a => Way(a, b) < COUNTER % KEYBUFF_SIZE
  PROVE  Slot(a) # Slot(b)
  <1> DEFINE N == KEYBUFF_SIZE
             rest == COUNTER % N
  <1>1. /\ N \in Nat \ {0} /\ COUNTER \in Nat /\ a \in Nat /\ b \in Nat
    BY KeyboardAssumption DEF Counter
  <1>2. rest \in Nat /\ rest < N
    BY <1>1
  <1>3. Slot(a) \in Nat /\ Slot(b) \in Nat
    BY <1>1 DEF Slot
  <1>4. N \in Int /\ N > 0 /\ COUNTER \in Int /\ a \in Int /\ b \in Int
    BY <1>1
  <1>5. PICK p \in Int : Slot(a) = a - N * p
    BY <1>4, Division DEF Slot
  <1>6. PICK q \in Int : Slot(b) = b - N * q
    BY <1>4, Division DEF Slot
  <1>7. PICK w \in Int : rest = COUNTER - N * w
    BY <1>4, Division
  <1> HIDE DEF N, rest
  <1>8. \A k \in Int : N * k = k * N /\ k * N \in Int
    BY <1>4
  <1>9. a = p * N + Slot(a) /\ b = q * N + Slot(b) /\ COUNTER = w * N + rest
    BY <1>2, <1>3, <1>4, <1>5, <1>6, <1>7, <1>8
  <1> SUFFICES ASSUME Slot(a) = Slot(b) PROVE FALSE
    OBVIOUS
  <1>10. /\ p * N \in Int /\ q * N \in Int /\ w * N \in Int
        /\ (q - p) * N = q * N - p * N
        /\ (q - p + w) * N = q * N - p * N + w * N
    BY <1>1, <1>9
  <1>11. CASE a < b
    <2>1. b - a = (q - p) * N /\ 0 < b - a /\ b - a < N
      BY <1>1, <1>9, <1>3, <1>10, <1>11 DEF Way, N
    <2>2. q - p \in Int /\ -N < (q - p) * N /\ (q - p) * N < N /\ (q - p) * N # 0
      BY <1>1, <1>9, <2>1
    <2> QED
      BY <1>1, <2>2, NoMultipleBetween
  <1>12. CASE b < a
    <2>1. /\ b - a + COUNTER = (q - p + w) * N + rest
          /\ 0 < b - a + COUNTER /\ b - a + COUNTER < rest
      BY <1>1, <1>9, <1>3, <1>10, <1>12 DEF Way, Counter, N, rest
    <2>2. -N < (q - p + w) * N /\ (q - p + w) * N < 0
      BY <1>1, <1>2, <1>10, <2>1
    <2>3. q - p + w \in Int /\ (q - p + w) * N < N /\ (q - p + w) * N # 0
      BY <1>1, <1>9, <2>2
    <2> QED
      BY <1>1, <2>2, <2>3, NoMultipleBetween
  <1> QED
    BY <1>1, <1>11, <1>12

(***************************************************************************)
(* The inductive invariant                                                 *)
(***************************************************************************)

(* The oldest key that is in the ring or has been unlinked and not fetched. *)
Base == IF pc = "fetch" THEN head ELSE key_head

(* The reader's register is up to date, and keys that are unread have      *)
(* slots of their own: there are no more than the ring has, and across the *)
(* wrap of the counters no more than the typist gets ahead.                *)
RingInv ==
  /\ TypeOK
  /\ pc = "store" => head = key_head /\ key_tail # key_head
  /\ pc = "fetch" => key_head = Succ(head) /\ key_tail # head
  /\ Way(Base, key_tail) <= KEYBUFF_SIZE
  /\ key_tail < Base => Way(Base, key_tail) <= MaxUnread

LEMMA Widths ==
  /\ COUNTER \in Nat /\ KEYBUFF_SIZE \in Nat \ {0} /\ MaxUnread \in Nat
  /\ COUNTER > KEYBUFF_SIZE
  /\ MaxUnread < KEYBUFF_SIZE
  <1>1. COUNTER % KEYBUFF_SIZE \in 0..KEYBUFF_SIZE - 1
    BY KeyboardAssumption, Modulus
  <1> QED
    BY <1>1, KeyboardAssumption, TypistAssumption

LEMMA RingFacts ==
  ASSUME RingInv
  PROVE  /\ key_head \in Counter /\ key_tail \in Counter /\ head \in Counter /\ Base \in Counter
         /\ Pending = Way(key_head, key_tail) /\ Unread = Way(Base, key_tail)
         /\ Succ(key_head) = Behind(key_head, 1) /\ Succ(key_tail) = Behind(key_tail, 1)
         /\ Succ(head) = Behind(head, 1)
         /\ Unread \in Nat /\ Unread <= KEYBUFF_SIZE /\ Pending \in Nat /\ Pending <= KEYBUFF_SIZE
  <1>1. key_head \in Counter /\ key_tail \in Counter /\ head \in Counter /\ Base \in Counter
    BY DEF RingInv, TypeOK, Counter, Base
  <1>2. /\ Pending = Way(key_head, key_tail)
        /\ Succ(key_head) = Behind(key_head, 1) /\ Succ(key_tail) = Behind(key_tail, 1)
        /\ Succ(head) = Behind(head, 1)
    BY <1>1, CounterSteps DEF Pending
  <1>3. Unread = Way(Base, key_tail)
    <2>1. CASE pc = "fetch"
      <3>1. key_head = Behind(head, 1) /\ key_tail # head /\ Way(head, key_tail) <= KEYBUFF_SIZE
        BY <1>2, <2>1 DEF RingInv, Base
      <3> QED
        BY <1>1, <1>2, <2>1, <3>1, Widths DEF Unread, Base, Way, Behind, Counter
    <2>2. CASE pc # "fetch"
      BY <1>2, <2>2 DEF Unread, Base
    <2> QED
      BY <2>1, <2>2
  <1>4. Unread \in Nat /\ Unread <= KEYBUFF_SIZE
    <2>1. Way(Base, key_tail) \in Counter
      BY <1>1, CounterSteps
    <2> QED
      BY <1>3, <2>1, Widths DEF RingInv, Counter
  <1>5. Pending \in Nat /\ Pending <= Unread
    <2>1. Pending \in Nat
      BY <1>1, <1>2, CounterSteps DEF Counter
    <2> QED
      BY <2>1 DEF Unread
  <1> QED
    BY <1>1, <1>2, <1>3, <1>4, <1>5, Widths

(* A key is pressed while fewer than MaxUnread wait, or during a command.  *)
LEMMA PressFacts ==
  ASSUME RingInv, NEW k \in Keys \cup {NUL}, SteadyPress(k) \/ BurstPress(k)
  PROVE  /\ KeyPress(k)
         /\ pc # "away" => Unread < MaxUnread
         /\ Full <=> Pending = KEYBUFF_SIZE
         /\ Full => pc = "away"
         /\ Unread < MaxUnread \/ (pc = "away" /\ key_head <= key_tail /\ key_tail < COUNTER - 1)
  <1>1. KeyPress(k) /\ (pc # "away" => Unread < MaxUnread)
        /\ (Unread < MaxUnread \/ (pc = "away" /\ key_head <= key_tail /\ key_tail < COUNTER - 1))
    BY DEF SteadyPress, BurstPress
  <1>2. Full <=> Pending = KEYBUFF_SIZE
    <2>1. Full => Pending = KEYBUFF_SIZE
      BY RingFacts, Widths DEF Full, Way, Counter
    <2>2. ASSUME Pending = KEYBUFF_SIZE PROVE Full
      <3>1. key_head <= key_tail
        <4>1. CASE Unread < MaxUnread
          BY <2>2, <4>1, RingFacts, Widths DEF Unread
        <4>2. CASE ~(Unread < MaxUnread)
          BY <1>1, <4>2
        <4> QED
          BY <4>1, <4>2
      <3> QED
        BY <2>2, <3>1, RingFacts, Widths DEF Full, Way, Counter
    <2> QED
      BY <2>1, <2>2
  <1>3. Pending = KEYBUFF_SIZE => pc = "away"
    BY <1>1, RingFacts, Widths DEF Unread
  <1> QED
    BY <1>1, <1>2, <1>3

LEMMA RingInit == Init => RingInv
  <1> SUFFICES ASSUME Init PROVE RingInv
    OBVIOUS
  <1>1. TypeOK
    BY TypeInit
  <1> QED
    BY <1>1, Widths DEF Init, RingInv, Base, Way

LEMMA RingPress ==
  ASSUME RingInv, NEW k \in Keys \cup {NUL}, SteadyPress(k) \/ BurstPress(k)
  PROVE  RingInv'
  <1>1. KeyPress(k) /\ UNCHANGED <<pc, head, c>> /\ key_tail' = Behind(key_tail, 1)
        /\ key_head' = IF Full THEN Behind(key_head, 1) ELSE key_head
    BY PressFacts, RingFacts DEF KeyPress
  <1>2. TypeOK'
    BY <1>1, PressKeepsType DEF RingInv
  <1>3. CASE Full
    <2>1. pc = "away" /\ key_head <= key_tail /\ key_tail < COUNTER - 1 /\ Pending = KEYBUFF_SIZE
      BY <1>3, PressFacts, RingFacts, Widths DEF Unread
    <2>2. Base' = Behind(key_head, 1) /\ Base = key_head
      BY <1>1, <1>3, <2>1 DEF Base
    <2> QED
      BY <1>1, <1>2, <2>1, <2>2, RingFacts, Widths DEF RingInv, Way, Behind, Counter
  <1>4. CASE ~Full
    <2>1. Base' = Base /\ key_head' = key_head
      BY <1>1, <1>4 DEF Base
    <2>2. Way(Base, key_tail) < KEYBUFF_SIZE
      BY <1>4, PressFacts, RingFacts, Widths DEF Unread
    <2>3. /\ Way(Base', key_tail') <= KEYBUFF_SIZE
          /\ key_tail' < Base' => Way(Base', key_tail') <= MaxUnread
          /\ key_tail' # Base'
      <3>1. \/ Way(Base, key_tail) < MaxUnread
            \/ Base <= key_tail /\ key_tail < COUNTER - 1
        BY PressFacts, RingFacts DEF Base
      <3> QED
        BY <1>1, <2>1, <2>2, <3>1, RingFacts, Widths DEF Way, Behind, Counter
    <2>4. pc = "store" => head' = key_head' /\ key_tail' # key_head'
      BY <1>1, <2>1, <2>3 DEF RingInv, Base
    <2>5. pc = "fetch" => key_head' = Succ(head') /\ key_tail' # head'
      BY <1>1, <2>1, <2>3 DEF RingInv, Base
    <2> QED
      BY <1>1, <1>2, <2>3, <2>4, <2>5 DEF RingInv
  <1> QED
    BY <1>3, <1>4

LEMMA RingReader == RingInv /\ Reader => RingInv'
  <1> SUFFICES ASSUME RingInv, Reader PROVE RingInv'
    OBVIOUS
  <1>1. TypeOK'
    BY ReaderKeepsType DEF RingInv
  <1>2. CASE CallGetchar \/ RunCommand
    <2>1. UNCHANGED <<key_head, key_tail, head>> /\ pc \in {"away", "got"} /\ pc' \in {"test", "away"}
      BY <1>2 DEF CallGetchar, RunCommand
    <2> QED
      BY <1>1, <2>1 DEF RingInv, Base
  <1>3. CASE PopLoad
    BY <1>1, <1>3 DEF PopLoad, RingInv, Base
  <1>4. CASE PopStore
    <2>1. /\ pc = "store" /\ pc' = "fetch" /\ head' = head /\ key_tail' = key_tail
          /\ key_head' = Succ(head)
      BY <1>4 DEF PopStore
    <2>2. Base = key_head /\ Base' = head /\ head = key_head /\ key_tail # head
      BY <2>1 DEF RingInv, Base
    <2>3. Succ(head)' = Succ(head)
      BY <2>1 DEF Succ
    <2> QED
      BY <1>1, <2>1, <2>2, <2>3 DEF RingInv
  <1>5. CASE PopFetch
    <2>1. /\ pc = "fetch" /\ pc' \in {"test", "got"} /\ UNCHANGED <<head, key_head, key_tail>>
      BY <1>5 DEF PopFetch
    <2>2. Base = head /\ Base' = key_head /\ key_head = Behind(head, 1) /\ key_tail # head
      BY <2>1, RingFacts DEF RingInv, Base
    <2>3. /\ Way(key_head, key_tail) <= KEYBUFF_SIZE
          /\ key_tail < key_head => Way(key_head, key_tail) <= MaxUnread
      BY <2>2, RingFacts, Widths DEF RingInv, Way, Behind, Counter
    <2> QED
      BY <1>1, <2>1, <2>2, <2>3 DEF RingInv
  <1> QED
    BY <1>2, <1>3, <1>4, <1>5 DEF Reader

LEMMA RingStep == RingInv /\ [TypistNext]_vars => RingInv'
  <1>1. RingInv /\ UNCHANGED vars => RingInv'
    BY DEF RingInv, TypeOK, vars, Base
  <1> QED
    BY <1>1, RingPress, RingReader DEF TypistNext

(***************************************************************************)
(* The queue                                                               *)
(***************************************************************************)
RingShape ==
  /\ Ring \in Seq(Keys \cup {NUL}) /\ Len(Ring) = Pending
  /\ \A i \in 1..Pending : Ring[i] = keybuff[Slot(Behind(key_head, i - 1))]

LEMMA RingHasShape == RingInv => RingShape
  <1> SUFFICES ASSUME RingInv PROVE RingShape
    OBVIOUS
  <1>1. Pending \in Nat /\ Pending <= KEYBUFF_SIZE /\ key_head \in Counter
    BY RingFacts
  <1>2. ASSUME NEW i \in 1..Pending
        PROVE  /\ (key_head + i - 1) % COUNTER = Behind(key_head, i - 1)
               /\ keybuff[Slot(Behind(key_head, i - 1))] \in Keys \cup {NUL}
    <2>1. i - 1 \in Counter
      BY <1>1, Widths DEF Counter
    <2>2. key_head + i - 1 = key_head + (i - 1)
      BY <1>1, <2>1 DEF Counter
    <2>3. (key_head + (i - 1)) % COUNTER = Behind(key_head, i - 1) /\ Behind(key_head, i - 1) \in Int
      BY <1>1, <2>1, CounterSteps DEF Counter
    <2>4. Slot(Behind(key_head, i - 1)) \in 0..KEYBUFF_SIZE - 1
      BY <2>3, Constants
    <2> QED
      BY <2>2, <2>3, <2>4 DEF RingInv, TypeOK
  <1>3. Ring = [i \in 1..Pending |-> keybuff[Slot(Behind(key_head, i - 1))]]
    BY <1>2 DEF Ring
  <1>4. Ring \in [1..Pending -> Keys \cup {NUL}]
    BY <1>2, <1>3
  <1>5. Ring \in Seq(Keys \cup {NUL}) /\ Len(Ring) = Pending
    BY <1>1, <1>4
  <1> QED
    BY <1>3, <1>5 DEF RingShape

LEMMA RingAfter == RingInv' => RingShape'
  BY RingHasShape, PTL

LEMMA PendingAfter == RingInv' => Pending' = Way(key_head', key_tail')
  <1>1. RingInv => Pending = Way(key_head, key_tail)
    BY RingFacts
  <1>2. RingInv' => (Pending = Way(key_head, key_tail))'
    BY <1>1, PTL
  <1> QED
    BY <1>2 DEF Way

(* A key that is pressed is stored beside those that stay unread. *)
LEMMA Beside ==
  ASSUME RingInv, NEW k \in Keys \cup {NUL}, SteadyPress(k) \/ BurstPress(k),
         NEW a \in Counter, a # key_tail, Way(a, key_tail) <= Unread, Way(a, key_tail) < KEYBUFF_SIZE,
         key_tail < a => key_tail < Base
  PROVE  keybuff'[Slot(a)] = keybuff[Slot(a)]
  <1>1. key_tail < a => Way(a, key_tail) < COUNTER % KEYBUFF_SIZE
    <2>1. Way(a, key_tail) \in Nat
      BY CounterSteps, RingFacts DEF Counter
    <2>3. COUNTER % KEYBUFF_SIZE \in 0..KEYBUFF_SIZE - 1
      BY KeyboardAssumption, Modulus
    <2>2. key_tail < Base => Unread < MaxUnread
      BY PressFacts, RingFacts DEF Base, Counter
    <2> QED
      BY <2>1, <2>2, <2>3, TypistAssumption, RingFacts, Widths
  <1>2. Slot(a) # Slot(key_tail)
    BY <1>1, SlotsApart, RingFacts
  <1>3. keybuff' = [keybuff EXCEPT ![Slot(key_tail)] = k]
    BY PressFacts DEF KeyPress
  <1>4. Slot(a) \in DOMAIN keybuff
    BY Constants DEF RingInv, TypeOK, Counter
  <1> QED
    BY <1>2, <1>3, <1>4

LEMMA PressIsPress ==
  ASSUME RingInv, NEW k \in Keys \cup {NUL}, SteadyPress(k) \/ BurstPress(k)
  PROVE  Queue!Press(k)
  <1> DEFINE S == Keys \cup {NUL}
             kept == IF Len(Ring) = KEYBUFF_SIZE THEN Tail(Ring) ELSE Ring
             gone == IF Full THEN 1 ELSE 0
  <1>1. RingInv' /\ RingShape /\ RingShape'
    BY RingPress, RingHasShape, RingAfter
  <1>2. /\ key_tail' = Behind(key_tail, 1) /\ key_head' = Behind(key_head, gone)
        /\ UNCHANGED <<pc, head, c>>
        /\ keybuff' = [keybuff EXCEPT ![Slot(key_tail)] = k]
        /\ Pending \in Nat /\ Pending <= KEYBUFF_SIZE /\ (Full <=> Pending = KEYBUFF_SIZE)
        /\ key_head \in Counter /\ key_tail \in Counter
        /\ gone \in 0..1 /\ gone <= Pending
    BY PressFacts, RingFacts, Widths DEF KeyPress, Behind, Counter
  <1>3. Pending' = Pending + 1 - gone
    <2>1. Pending' = Way(key_head', key_tail') /\ Pending = Way(key_head, key_tail)
      BY <1>1, RingFacts, PendingAfter
    <2> QED
      BY <1>2, <2>1, Widths, RingFacts DEF Way, Behind, Counter
  <1>4. kept \in Seq(S) /\ Len(kept) = Pending - gone
        /\ \A i \in 1..Pending - gone : kept[i] = Ring[i + gone]
    <2>1. CASE Full
      <3>1. Len(Ring) = KEYBUFF_SIZE /\ Ring \in Seq(S) /\ Ring # <<>> /\ gone = 1
        BY <1>1, <1>2, <2>1, Widths DEF RingShape
      <3> QED
        BY <1>1, <1>2, <3>1, HeadTailProperties DEF RingShape
    <2>2. CASE ~Full
      BY <1>1, <1>2, <2>2 DEF RingShape
    <2> QED
      BY <2>1, <2>2
  <1> HIDE DEF kept, gone
  <1>5. ASSUME NEW i \in 1..Pending - gone PROVE Ring'[i] = kept[i]
    <2> DEFINE a == Behind(key_head, i + gone - 1)
    <2>1. /\ a \in Counter /\ a # key_tail /\ Way(a, key_tail) <= Pending /\ Way(a, key_tail) < KEYBUFF_SIZE
          /\ key_tail < a => key_tail < key_head
          /\ Behind(key_head', i - 1) = a
      BY <1>2, RingFacts, Widths DEF Way, Behind, Counter, gone
    <2>2. Way(a, key_tail) <= Unread /\ (key_tail < a => key_tail < Base)
      <3>1. Way(a, key_tail) \in Nat
        BY <2>1, RingFacts, CounterSteps DEF Counter
      <3>2. Pending <= Unread
        BY <1>2 DEF Unread
      <3>3. key_tail < key_head => key_tail < Base
        <4>1. CASE pc = "fetch"
          <5>1. Base = head /\ key_head = Behind(head, 1) /\ key_tail # head
            BY <4>1, RingFacts DEF Base, RingInv
          <5> QED
            BY <5>1, RingFacts, Widths DEF Behind, Counter
        <4>2. CASE pc # "fetch"
          BY <4>2 DEF Base
        <4> QED
          BY <4>1, <4>2
      <3> QED
        BY <1>2, <2>1, <3>1, <3>2, <3>3, RingFacts
    <2> HIDE DEF a
    <2>3. keybuff'[Slot(a)] = keybuff[Slot(a)]
      BY <2>1, <2>2, Beside
    <2>4. Ring'[i] = keybuff'[Slot(a)]
      BY <1>1, <1>2, <1>3, <2>1 DEF RingShape, Slot
    <2>5. Ring[i + gone] = keybuff[Slot(a)]
      BY <1>1, <1>2 DEF RingShape, a
    <2> QED
      BY <1>4, <2>3, <2>4, <2>5
  <1>6. Ring'[Pending + 1 - gone] = k
    <2> DEFINE last == Pending + 1 - gone
    <2>1. last \in 1..Pending' /\ Behind(key_head', last - 1) = key_tail
      BY <1>2, <1>3, RingFacts, Widths DEF Way, Behind, Counter, gone
    <2> HIDE DEF last
    <2>4. Ring'[last] = keybuff'[Slot(Behind(key_head', last - 1))]
      BY <1>1, <2>1 DEF RingShape, Slot, Behind
    <2>2. Ring'[Pending + 1 - gone] = keybuff'[Slot(key_tail)]
      BY <2>1, <2>4 DEF last
    <2>3. Slot(key_tail) \in DOMAIN keybuff
      BY <1>2, Constants DEF RingInv, TypeOK, Counter
    <2> QED
      BY <1>2, <2>2, <2>3
  <1>7. Ring' = Append(kept, k)
    <2>1. Append(kept, k) \in Seq(S) /\ Len(Append(kept, k)) = Pending + 1 - gone
          /\ \A i \in 1..Pending - gone : Append(kept, k)[i] = kept[i]
          /\ Append(kept, k)[Pending + 1 - gone] = k
      BY <1>2, <1>4
    <2>2. Ring' \in Seq(S) /\ Len(Ring') = Pending + 1 - gone
      BY <1>1, <1>3 DEF RingShape
    <2>3. \A i \in 1..Len(Ring') : Ring'[i] = Append(kept, k)[i]
      BY <1>2, <1>5, <1>6, <2>1, <2>2
    <2> QED
      BY <2>1, <2>2, <2>3, SeqEqual
  <1>8. Hand' = Hand
    <2>1. CASE pc = "fetch"
      <3>1. head \in Counter /\ head # key_tail /\ Way(head, key_tail) = Unread /\ Base = head
        BY <2>1, RingFacts DEF RingInv, Base
      <3>2. Unread < KEYBUFF_SIZE
        BY <2>1, PressFacts, RingFacts, Widths
      <3>3. keybuff'[Slot(head)] = keybuff[Slot(head)]
        BY <3>1, <3>2, RingFacts, Beside
      <3> QED
        BY <1>2, <2>1, <3>3 DEF Hand, Slot
    <2>2. CASE pc # "fetch"
      BY <1>2, <2>2 DEF Hand
    <2> QED
      BY <2>1, <2>2
  <1> QED
    BY <1>7, <1>8 DEF Queue!Press, kept

LEMMA RingUnchanged ==
  ASSUME UNCHANGED <<keybuff, key_head, key_tail>>
  PROVE  Ring' = Ring
  BY DEF Ring, Pending, Slot

(* Storing the incremented key_head takes the oldest key out of the queue. *)
LEMMA StoreIsRead ==
  ASSUME RingInv, PopStore
  PROVE  Queue!Read
  <1> DEFINE S == Keys \cup {NUL}
  <1>1. RingInv' /\ RingShape /\ RingShape'
    BY RingReader, RingHasShape, RingAfter DEF Reader
  <1>2. /\ pc = "store" /\ pc' = "fetch" /\ head = key_head /\ key_tail # key_head
        /\ key_head' = Behind(key_head, 1) /\ UNCHANGED <<keybuff, key_tail, head, c>>
        /\ key_head \in Counter /\ key_tail \in Counter /\ c = NUL
    BY RingFacts DEF PopStore, RingInv, TypeOK
  <1>3. Pending \in Nat \ {0} /\ Pending' = Pending - 1 /\ Pending <= KEYBUFF_SIZE
    <2>1. Pending = Way(key_head, key_tail) /\ Pending' = Way(key_head', key_tail')
      BY <1>1, RingFacts, PendingAfter
    <2> QED
      BY <1>2, <2>1, RingFacts, Widths DEF Way, Behind, Counter
  <1>4. Ring \in Seq(S) /\ Len(Ring) = Pending /\ Ring # <<>> /\ Ring' \in Seq(S) /\ Len(Ring') = Pending - 1
    BY <1>1, <1>3 DEF RingShape
  <1>5. Hand = NUL /\ Hand' = Head(Ring)
    <2>1. Hand' = keybuff[Slot(key_head)]
      BY <1>2 DEF Hand, Slot
    <2>2. Behind(key_head, 1 - 1) = key_head
      BY <1>2, Widths DEF Behind, Counter
    <2>3. Ring[1] = keybuff[Slot(key_head)]
      BY <1>1, <1>3, <2>2 DEF RingShape
    <2> QED
      BY <1>2, <1>4, <2>1, <2>3 DEF Hand
  <1>6. ASSUME NEW i \in 1..Pending - 1 PROVE Ring'[i] = Tail(Ring)[i]
    <2>1. Behind(key_head', i - 1) = Behind(key_head, i + 1 - 1)
      BY <1>2, <1>3, RingFacts, Widths DEF Behind, Counter
    <2>2. Ring'[i] = keybuff[Slot(Behind(key_head', i - 1))]
      BY <1>1, <1>2, <1>3 DEF RingShape, Slot, Behind
    <2>3. i + 1 \in 1..Pending /\ Ring[i + 1] = keybuff[Slot(Behind(key_head, i + 1 - 1))]
      BY <1>1, <1>3 DEF RingShape
    <2>4. Tail(Ring)[i] = Ring[i + 1]
      BY <1>3, <1>4, HeadTailProperties
    <2> QED
      BY <2>1, <2>2, <2>3, <2>4
  <1>7. Ring' = Tail(Ring)
    <2>1. Tail(Ring) \in Seq(S) /\ Len(Tail(Ring)) = Pending - 1
      BY <1>4, HeadTailProperties
    <2> QED
      BY <1>4, <1>6, <2>1, SeqEqual
  <1> QED
    BY <1>4, <1>5, <1>7 DEF Queue!Read

LEMMA RingRefines == RingInv /\ [TypistNext]_vars => [Queue!Next]_<<Ring, Hand>>
  <1> SUFFICES ASSUME RingInv, [TypistNext]_vars PROVE [Queue!Next]_<<Ring, Hand>>
    OBVIOUS
  <1>1. ASSUME NEW k \in Keys \cup {NUL}, SteadyPress(k) \/ BurstPress(k) PROVE Queue!Next
    BY <1>1, PressIsPress DEF Queue!Next
  <1>2. CASE CallGetchar \/ RunCommand
    <2>1. /\ UNCHANGED <<keybuff, key_head, key_tail>> /\ c' = NUL
          /\ pc \in {"away", "got"} /\ pc' # "fetch"
      BY <1>2 DEF CallGetchar, RunCommand
    <2>2. Ring' = Ring /\ Hand = c /\ Hand' = NUL
      BY <2>1, RingUnchanged DEF Hand
    <2>3. Hand # NUL => Queue!Accept
      BY <2>2 DEF Queue!Accept
    <2> QED
      BY <2>2, <2>3 DEF Queue!Next
  <1>3. CASE PopLoad \/ UNCHANGED vars
    <2>1. UNCHANGED <<keybuff, key_head, key_tail, c>> /\ (pc = "fetch" <=> pc' = "fetch")
          /\ (pc = "fetch" => head' = head)
      BY <1>3 DEF PopLoad, vars
    <2> QED
      BY <2>1, RingUnchanged DEF Hand, Slot
  <1>4. CASE PopStore
    BY <1>4, StoreIsRead DEF Queue!Next
  <1>5. CASE PopFetch
    <2>1. UNCHANGED <<keybuff, key_head, key_tail>> /\ pc = "fetch" /\ pc' # "fetch"
          /\ c' = keybuff[Slot(head)]
      BY <1>5 DEF PopFetch
    <2> QED
      BY <2>1, RingUnchanged DEF Hand
  <1> QED
    BY <1>1, <1>2, <1>3, <1>4, <1>5 DEF TypistNext, Reader

LEMMA QueueInit == Init => Queue!Init
  <1> SUFFICES ASSUME Init PROVE Queue!Init
    OBVIOUS
  <1>1. RingShape /\ key_head = 0 /\ key_tail = 0 /\ pc = "away" /\ c = NUL
    BY RingInit, RingHasShape DEF Init
  <1>2. Pending = 0
    BY <1>1, Widths, Remainders DEF Pending
  <1>3. Ring = <<>>
    BY <1>1, <1>2, EmptySeq DEF RingShape
  <1> QED
    BY <1>1, <1>3 DEF Queue!Init, Hand

(* For a typist within the limits of the ring (TypistSpec: at most         *)
(* MaxUnread keys ahead while the kernel is in getchar, and bursts only    *)
(* during a command and not over the wrap), every ring and every width of  *)
(* the counters, and wherever the interrupt falls in key_pop: every key is *)
(* handed out once, in the order in which they were pressed, but for the   *)
(* oldest keys that a burst overruns.                                      *)
THEOREM Implementation == TypistSpec => IsKeyQueue
  <1>1. Init => RingInv /\ Queue!Init
    BY RingInit, QueueInit
  <1>2. RingInv /\ [TypistNext]_vars => RingInv' /\ [Queue!Next]_<<Ring, Hand>>
    BY RingStep, RingRefines
  <1> QED
    BY <1>1, <1>2, PTL DEF TypistSpec, IsKeyQueue, Queue!Spec
=============================================================================
