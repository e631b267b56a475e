----------------------------- MODULE AtaProofs -----------------------------
(***************************************************************************)
(* A transfer moves its words, each once, to and from the sectors that     *)
(* were asked for: for every disk, every length of a sector and of a       *)
(* transfer, and wherever drive and interrupts come in between.  AtaInv    *)
(* says what the words moved so far are and where the drive stands.        *)
(***************************************************************************)
EXTENDS Ata, TLAPS

(***************************************************************************)
(* Arithmetic of places and of the registers                               *)
(***************************************************************************)
LEMMA DivMod ==
  ASSUME NEW a \in Nat, NEW m \in Nat \ {0}
  PROVE  /\ a \div m \in Nat /\ a % m \in 0..m - 1
         /\ a = (a \div m) * m + (a % m)
  <1>1. a \div m \in Int
    OBVIOUS
  <1>2. a % m = a - m * (a \div m)
    OBVIOUS
  <1>3. a % m \in 0..m - 1
    OBVIOUS
  <1>4. m * (a \div m) = (a \div m) * m
    BY <1>1
  <1>5. a = (a \div m) * m + (a % m)
    <2> DEFINE q == a \div m
    <2> DEFINE r == a % m
    <2>1. q * m \in Int /\ r \in Int /\ r = a - q * m
      BY <1>1, <1>2, <1>3, <1>4
    <2> HIDE DEF q, r
    <2>2. a = q * m + r
      BY <2>1
    <2> QED
      BY <2>2 DEF q, r
  <1>6. a \div m >= 0
    OBVIOUS
  <1> QED
    BY <1>1, <1>3, <1>5, <1>6

(* Two places are the same only in the same sector and at the same word. *)
LEMMA OnePlace ==
  ASSUME NEW W \in Nat \ {0}, NEW a \in Int, NEW b \in Int,
         NEW v \in 0..W - 1, NEW w \in 0..W - 1, a * W + v = b * W + w
  PROVE  a = b /\ v = w
  <1>1. ASSUME NEW x \in Int, NEW y \in Int, x < y PROVE x * W + W <= y * W
    <2>1. (y - x - 1) * W >= 0
      BY <1>1
    <2>2. (y - x - 1) * W = y * W - x * W - W
      OBVIOUS
    <2> QED
      BY <2>1, <2>2
  <1>2. ~(a < b)
    BY <1>1
  <1>3. ~(b < a)
    BY <1>1
  <1> QED
    BY <1>2, <1>3

(* Places of earlier sectors come before. *)
LEMMA Before ==
  ASSUME NEW W \in Nat \ {0}, NEW a \in Nat, NEW b \in Nat, a < b
  PROVE  a * W \in Nat /\ b * W \in Nat /\ a * W + W <= b * W
  <1>1. (b - a - 1) * W >= 0
    OBVIOUS
  <1>2. (b - a - 1) * W = b * W - a * W - W
    OBVIOUS
  <1>3. a * W \in Nat /\ b * W \in Nat
    OBVIOUS
  <1> QED
    BY <1>1, <1>2, <1>3

LEMMA Multiple ==
  ASSUME NEW W \in Nat \ {0}, NEW k \in Nat PROVE (k * W) % W = 0
  <1> DEFINE a == k * W
  <1> DEFINE q == a \div W
  <1> DEFINE r == a % W
  <1>1. a \in Nat
    OBVIOUS
  <1>2. q \in Nat /\ r \in 0..W - 1 /\ a = q * W + r
    BY <1>1, DivMod
  <1> HIDE DEF q, r
  <1>3. q * W + r = k * W + 0
    BY <1>2
  <1>4. 0 \in 0..W - 1 /\ q \in Int
    BY <1>2
  <1>5. r = 0
    BY <1>2, <1>3, <1>4, OnePlace
  <1> QED
    BY <1>5 DEF r

(* The drive gets the address that the driver was called with. *)
LEMMA AddressArrives == \A lba \in LBAs : Decoded(Registers(lba)) = lba
  <1> SUFFICES ASSUME NEW lba \in LBAs PROVE Decoded(Registers(lba)) = lba
    OBVIOUS
  <1> DEFINE q1 == lba \div UINT8
  <1> DEFINE r1 == lba % UINT8
  <1> DEFINE q2 == q1 \div UINT8
  <1> DEFINE r2 == q1 % UINT8
  <1> DEFINE S == UINT8 * UINT8
  <1> DEFINE q3 == lba \div S
  <1> DEFINE r3 == lba % S
  <1>1. UINT8 \in Nat \ {0, 1} /\ lba \in Nat /\ S \in Nat \ {0} /\ lba < S * UINT8
    BY AtaAssumption
  <1>2. q1 \in Nat /\ r1 \in 0..UINT8 - 1 /\ lba = q1 * UINT8 + r1
    BY <1>1, DivMod
  <1>3. q2 \in Nat /\ r2 \in 0..UINT8 - 1 /\ q1 = q2 * UINT8 + r2
    BY <1>1, <1>2, DivMod
  <1>4. q3 \in Nat /\ r3 \in 0..S - 1 /\ lba = q3 * S + r3
    BY <1>1, DivMod
  <1>5. Decoded(Registers(lba)) = r1 + UINT8 * r2 + S * (q3 % UINT8)
    BY DEF Decoded, Registers
  <1> HIDE DEF q1, r1, q2, r2, q3, r3
  <1>6. UINT8 * r2 + r1 \in 0..S - 1
    <2>1. UINT8 * r2 <= UINT8 * (UINT8 - 1)
      BY <1>1, <1>3
    <2>2. UINT8 * r2 >= 0 /\ UINT8 * (UINT8 - 1) = S - UINT8 /\ UINT8 * r2 \in Int
      BY <1>1, <1>3
    <2> QED
      BY <1>1, <1>2, <2>1, <2>2
  <1>7. lba = q2 * S + (UINT8 * r2 + r1)
    <2>1. (q2 * UINT8 + r2) * UINT8 = q2 * S + UINT8 * r2
      BY <1>1, <1>3
    <2> QED
      BY <1>1, <1>2, <1>3, <2>1
  <1>8. q3 * S + r3 = q2 * S + (UINT8 * r2 + r1)
    BY <1>1, <1>4, <1>7
  <1> HIDE DEF S
  <1>9. q3 = q2 /\ r3 = UINT8 * r2 + r1
    <2> DEFINE v == UINT8 * r2 + r1
    <2>1. v \in 0..S - 1 /\ q3 * S + r3 = q2 * S + v /\ q3 \in Int /\ q2 \in Int
      BY <1>3, <1>4, <1>6, <1>8
    <2>3. S \in Nat \ {0} /\ r3 \in 0..S - 1
      BY <1>1, <1>4
    <2> HIDE DEF v
    <2>2. q3 = q2 /\ r3 = v
      BY <1>4, <2>1, <2>3, OnePlace
    <2> QED
      BY <2>2 DEF v
  <1>10. q3 < UINT8
    <2>1. q3 \in Nat /\ r3 \in Nat /\ q3 * S + r3 < UINT8 * S
      BY <1>1, <1>4
    <2>2. CASE UINT8 < q3
      BY <1>1, <2>1, <2>2, Before
    <2>3. CASE UINT8 = q3
      BY <1>1, <2>1, <2>3
    <2> QED
      BY <1>1, <2>1, <2>2, <2>3
  <1>11. q3 % UINT8 = q3
    BY <1>1, <1>4, <1>10
  <1>12. r1 + UINT8 * r2 + S * q3 = lba
    BY <1>1, <1>2, <1>3, <1>4, <1>9
  <1> QED
    BY <1>5, <1>11, <1>12

(* And the count, which is 0 in its register for the longest transfer. *)
LEMMA CountArrives == \A n \in 1..MaxSectors : Count(n % UINT8) = n
  BY AtaAssumption DEF Count

(***************************************************************************)
(* The invariant                                                           *)
(***************************************************************************)
IsSector(f) == f = [w \in 0..SECTOR_WORDS - 1 |-> f[w]]
IsDisk(m) == m = [s \in LBAs |-> m[s]] /\ \A s \in LBAs : IsSector(m[s])

IsDrive ==
  /\ drive = [busy |-> drive.busy, drq |-> drive.drq, op |-> drive.op, lba |-> drive.lba,
              left |-> drive.left, word |-> drive.word, cache |-> drive.cache, err |-> drive.err]
  /\ drive.busy \in BOOLEAN /\ drive.drq \in BOOLEAN /\ drive.err \in BOOLEAN
  /\ drive.op \in {"read", "write"}
  /\ drive.lba \in Int /\ drive.left \in 0..MaxSectors /\ drive.word \in 0..SECTOR_WORDS
  /\ IsSector(drive.cache)

Shape ==
  /\ IsDrive /\ IsDisk(media) /\ IsDisk(asked)
  /\ pc # "boot" => InRange(call) /\ DOMAIN buffer = 0..Length(call) - 1

Failed == drive.err => ~drive.busy /\ ~drive.drq /\ drive.left = 0

(* A drive that is busy with a write is at the start or the end of a sector, *)
(* and at the end it has the words that were asked for.                      *)
Storing ==
  drive.busy /\ drive.op = "write" =>
    /\ drive.lba \in LBAs /\ drive.left > 0
    /\ drive.word \in {0, SECTOR_WORDS}
    /\ drive.word = SECTOR_WORDS => drive.cache = asked[drive.lba]

(* Between two transfers the drive has at most the last sector to store. *)
AtRest ==
  pc \in {"boot", "idle", "waitIdle"} =>
    /\ ~drive.drq
    /\ ~drive.busy => drive.left = 0
    /\ drive.busy => drive.op = "write" /\ drive.word = SECTOR_WORDS /\ drive.left = 1
    /\ pc = "waitIdle" => i = 0

Done == drive.lba - call.lba

(* Words of the sector at hand that are behind the counter. *)
Offset == IF drive.op = "read" /\ ~drive.drq THEN 0 ELSE drive.word

Progress ==
  /\ drive.op = call.op
  /\ Done \in 0..call.sectors
  /\ drive.left = call.sectors - Done
  /\ i = Done * SECTOR_WORDS + Offset
  /\ drive.drq => ~drive.busy /\ drive.word < SECTOR_WORDS /\ drive.left > 0
  /\ drive.busy => drive.left > 0
  /\ ~drive.drq /\ ~drive.busy => drive.left = 0 /\ Offset = 0

Fetched ==
  /\ \A s \in call.lba..drive.lba - 1 : SectorOf(s) = media[s]
  /\ drive.drq =>
       /\ drive.cache = media[drive.lba]
       /\ \A w \in 0..drive.word - 1 : buffer[Done * SECTOR_WORDS + w] = drive.cache[w]

Sent ==
  /\ \A s \in call.lba..call.lba + call.sectors - 1 : asked[s] = SectorOf(s)
  /\ \A s \in call.lba..drive.lba - 1 : media[s] = asked[s]
  /\ drive.drq => \A w \in 0..drive.word - 1 : drive.cache[w] = asked[drive.lba][w]

InTransfer ==
  pc \in {"sent", "words", "idle"} /\ ~drive.err =>
    Progress /\ (call.op = "read" => Fetched) /\ (call.op = "write" => Sent)

AtaInv == TypeOK /\ Shape /\ Failed /\ Storing /\ AtRest /\ InTransfer

LEMMA Constants ==
  /\ 0 \in LBAs /\ LBAs \subseteq Nat
  /\ SECTOR_WORDS \in Nat \ {0} /\ MaxSectors \in Nat \ {0}
  /\ UINT8 \in Nat /\ UINT16 \in Nat /\ MaxSectors * SECTOR_WORDS < UINT16
  /\ DISK \in Lines /\ KEYBOARD \in Lines /\ MaxRaised \in Nat
  <1>1. LBAs \subseteq Nat
    <2>1. LBAs \subseteq 0..UINT8 * UINT8 * UINT8 - 1
      BY AtaAssumption
    <2> QED
      BY <2>1
  <1>2. /\ 0 \in LBAs /\ SECTOR_WORDS \in Nat \ {0} /\ MaxSectors \in Nat \ {0}
        /\ UINT8 \in Nat /\ UINT16 \in Nat /\ MaxSectors * SECTOR_WORDS < UINT16
    BY AtaAssumption
  <1>3. DISK \in Lines /\ KEYBOARD \in Lines /\ MaxRaised \in Nat
    BY InterruptsAssumption
  <1> QED
    BY <1>1, <1>2, <1>3

LEMMA Sizes ==
  ASSUME NEW t \in Transfers
  PROVE  /\ t.op \in {"read", "write"} /\ t.lba \in LBAs /\ t.lba \in Nat
         /\ t.sectors \in 1..MaxSectors /\ t.sectors \in Nat
         /\ Length(t) \in Nat /\ Length(t) < UINT16
  <1>1. /\ t.op \in {"read", "write"} /\ t.lba \in LBAs /\ t.lba \in Nat
        /\ t.sectors \in 1..MaxSectors /\ t.sectors \in Nat
        /\ SECTOR_WORDS \in Nat \ {0} /\ MaxSectors \in Nat \ {0} /\ UINT16 \in Nat
        /\ MaxSectors * SECTOR_WORDS < UINT16
    <2>1. t.op \in {"read", "write"} /\ t.lba \in LBAs /\ t.sectors \in 1..MaxSectors
      BY DEF Transfers
    <2>2. MaxSectors \in Nat /\ LBAs \subseteq Nat
      BY Constants
    <2>3. t.lba \in Nat
      BY <2>1, <2>2
    <2>4. t.sectors \in 1..MaxSectors
      BY <2>1
    <2>5. t.sectors \in Nat
      BY <2>2, <2>4
    <2> QED
      BY <2>1, <2>3, <2>5, Constants
  <1>2. Length(t) = t.sectors * SECTOR_WORDS
    BY DEF Length
  <1>3. t.sectors * SECTOR_WORDS \in Nat
    BY <1>1
  <1>4. t.sectors * SECTOR_WORDS <= MaxSectors * SECTOR_WORDS
    <2>1. CASE t.sectors = MaxSectors
      BY <1>1, <2>1
    <2>2. CASE t.sectors < MaxSectors
      BY <1>1, <2>2, Before
    <2> QED
      BY <1>1, <2>1, <2>2
  <1>5. MaxSectors * SECTOR_WORDS \in Nat
    BY <1>1
  <1> QED
    BY <1>1, <1>2, <1>3, <1>4, <1>5

(* The sectors of a call are sectors of the disk. *)
LEMMA Addressed ==
  ASSUME NEW t \in Transfers, InRange(t), NEW s \in t.lba..t.lba + t.sectors - 1
  PROVE  s \in LBAs
  <1>1. t.lba \in Nat /\ t.sectors \in Nat
    BY Sizes
  <1>2. s - t.lba \in 0..t.sectors - 1 /\ t.lba + (s - t.lba) = s
    BY <1>1
  <1> QED
    BY <1>2 DEF InRange

LEMMA InvInit == Init => AtaInv
  <1> SUFFICES ASSUME Init PROVE AtaInv
    OBVIOUS
  <1>1. call \in Transfers
    BY Constants DEF Init, Transfers
  <1>2. TypeOK
    <2>1. 0 \in 0..Length(call)
      BY <1>1, Sizes
    <2>2. InterruptsTypeOK
      BY Constants DEF Init, InterruptsInit, InterruptsTypeOK
    <2>3. drive.left \in 0..MaxSectors /\ drive.word \in 0..SECTOR_WORDS /\ DOMAIN media = LBAs
      BY Constants DEF Init
    <2>4. i = 0 /\ pc = "boot"
      BY DEF Init
    <2> QED
      BY <1>1, <2>1, <2>2, <2>3, <2>4 DEF TypeOK
  <1>3. IsDrive
    BY Constants DEF Init, IsDrive, IsSector, NoWords
  <1>4. IsDisk(media) /\ IsDisk(asked)
    BY DEF Init, IsDisk, IsSector, Words
  <1>5. Shape /\ Failed /\ Storing /\ AtRest /\ InTransfer
    BY <1>3, <1>4 DEF Init, Shape, Failed, Storing, AtRest, InTransfer
  <1> QED
    BY <1>2, <1>5 DEF AtaInv

(***************************************************************************)
(* Interrupts leave the transfer alone                                     *)
(***************************************************************************)
LEMMA InterruptsKeepInv ==
  ASSUME AtaInv, UNCHANGED ataVars, InterruptsTypeOK'
  PROVE  AtaInv'
  <1>1. TypeOK'
    BY DEF AtaInv, ataVars, TypeOK, Length
  <1>2. Shape'
    BY DEF AtaInv, ataVars, Shape, IsDrive, IsSector, IsDisk, InRange, Length
  <1>3. Failed' /\ Storing' /\ AtRest'
    BY DEF AtaInv, ataVars, Failed, Storing, AtRest
  <1>4. InTransfer'
    BY DEF AtaInv, ataVars, InTransfer, Progress, Fetched, Sent, Done, Offset, SectorOf
  <1> QED
    BY <1>1, <1>2, <1>3, <1>4 DEF AtaInv

LEMMA InterruptsType ==
  ASSUME InterruptsTypeOK, Handler \/ Device PROVE InterruptsTypeOK'
  <1>1. /\ Lines \subseteq 0..15 /\ KEYBOARD \in Lines /\ MaxRaised \in Nat
    BY InterruptsAssumption
  <1>2. CASE Accept
    BY <1>2 DEF Accept, Deliverable, InterruptsTypeOK
  <1>3. CASE Routine
    <2>1. CASE line \in Installed
      <3>1. scancodes' \in Nat
        BY <1>3, <2>1 DEF Routine, ReadScancode, InterruptsTypeOK
      <3>2. irr' \subseteq Lines
        BY <1>1, <1>3, <2>1 DEF Routine, ReadScancode, InterruptsTypeOK
      <3> QED
        BY <1>3, <3>1, <3>2 DEF Routine, InterruptsTypeOK
    <2>2. CASE line \notin Installed
      BY <1>3, <2>2 DEF Routine, InterruptsTypeOK
    <2> QED
      BY <2>1, <2>2
  <1>4. CASE ToSlave
    BY <1>4 DEF ToSlave, EndSlave, InterruptsTypeOK
  <1>5. CASE ToMaster
    BY <1>5 DEF ToMaster, InterruptsTypeOK
  <1>6. CASE Timer
    BY <1>1, <1>6 DEF Timer, InterruptsTypeOK
  <1>7. CASE Scancode
    BY <1>1, <1>7 DEF Scancode, InterruptsTypeOK
  <1> QED
    BY <1>2, <1>3, <1>4, <1>5, <1>6, <1>7 DEF Handler, Device

(***************************************************************************)
(* The thread outside the words                                            *)
(***************************************************************************)
LEMMA EnterKeepsInv ==
  ASSUME AtaInv, NEW t \in Transfers, InRange(t), NEW content,
         DOMAIN content = 0..Length(t) - 1, Enter(t, content),
         pc \in {"boot", "idle"}
  PROVE  AtaInv'
  <1>1. /\ flag' = FALSE /\ pc' = "waitIdle" /\ call' = t /\ i' = 0 /\ buffer' = content
        /\ UNCHANGED <<irr, isr, cpu, line, scancodes, raised, drive, media, asked>>
    BY DEF Enter
  <1>2. TypeOK'
    <2>1. 0 \in 0..Length(t)
      BY Sizes
    <2>2. InterruptsTypeOK'
      BY <1>1 DEF AtaInv, TypeOK, InterruptsTypeOK
    <2>3. i' \in 0..Length(call')
      BY <1>1, <2>1
    <2> QED
      BY <1>1, <2>2, <2>3 DEF AtaInv, TypeOK, Length
  <1>3. Shape'
    BY <1>1 DEF AtaInv, Shape, IsDrive, IsSector, IsDisk, InRange, Length
  <1>4. Failed' /\ Storing'
    BY <1>1 DEF AtaInv, Failed, Storing
  <1>5. AtRest' /\ InTransfer'
    BY <1>1 DEF AtaInv, AtRest, InTransfer
  <1> QED
    BY <1>2, <1>3, <1>4, <1>5 DEF AtaInv

LEMMA CallsKeepInv ==
  ASSUME AtaInv, BootRead \/ \E t \in Transfers : Call(t) PROVE AtaInv'
  <1>1. CASE BootRead
    <2>1. pc = "boot"
      BY <1>1 DEF BootRead
    <2>2. PICK t \in Transfers : InRange(t) /\ Enter(t, [w \in 0..Length(t) - 1 |-> Junk])
      BY <1>1 DEF BootRead
    <2> DEFINE content == [w \in 0..Length(t) - 1 |-> Junk]
    <2>3. DOMAIN content = 0..Length(t) - 1 /\ Enter(t, content)
      BY <2>2
    <2> HIDE DEF content
    <2> QED
      BY <2>1, <2>2, <2>3, EnterKeepsInv
  <1>2. CASE \E t \in Transfers : Call(t)
    <2>1. PICK t \in Transfers : Call(t)
      BY <1>2
    <2> DEFINE content == [w \in 0..Length(t) - 1 |->
                             IF t.op = "read" THEN Junk
                             ELSE Words("data", w \div SECTOR_WORDS)[w % SECTOR_WORDS]]
    <2>2. pc = "idle" /\ InRange(t) /\ Enter(t, content)
      BY <2>1 DEF Call
    <2>3. DOMAIN content = 0..Length(t) - 1
      OBVIOUS
    <2> HIDE DEF content
    <2> QED
      BY <2>2, <2>3, EnterKeepsInv
  <1> QED
    BY <1>1, <1>2

LEMMA AnsweredKeepsInv ==
  ASSUME AtaInv, Answered PROVE AtaInv'
  <1>1. pc = "sent" /\ pc' = "words" /\ UNCHANGED <<irqVars, call, i, buffer, drive, media, asked>>
    BY DEF Answered
  <1>2. TypeOK'
    BY <1>1 DEF AtaInv, TypeOK, InterruptsTypeOK, irqVars, Length
  <1>3. Shape'
    BY <1>1 DEF AtaInv, Shape, IsDrive, IsSector, IsDisk, InRange, Length
  <1>4. Failed' /\ Storing' /\ AtRest'
    BY <1>1 DEF AtaInv, Failed, Storing, AtRest
  <1>5. InTransfer'
    BY <1>1 DEF AtaInv, InTransfer, Progress, Fetched, Sent, Done, Offset, SectorOf
  <1> QED
    BY <1>2, <1>3, <1>4, <1>5 DEF AtaInv

LEMMA SendKeepsInv ==
  ASSUME AtaInv, SendCommand PROVE AtaInv'
  <1> DEFINE asking == [s \in LBAs |->
                 IF call.op = "write" /\ s \in call.lba..(call.lba + call.sectors - 1)
                 THEN SectorOf(s) ELSE asked[s]]
  <1>1. /\ pc = "waitIdle" /\ pc' \in {"sent", "words"} /\ asked' = asking
        /\ UNCHANGED <<irqVars, call, i, buffer, media>>
    BY DEF SendCommand
  <1>2. /\ call \in Transfers /\ InRange(call) /\ i = 0
    BY <1>1 DEF AtaInv, TypeOK, Shape, AtRest
  <1>3. /\ call.op \in {"read", "write"} /\ call.lba \in LBAs /\ call.lba \in Nat
        /\ call.sectors \in 1..MaxSectors /\ call.sectors \in Nat
    BY <1>2, Sizes
  <1>4. drive' = [busy |-> TRUE, drq |-> FALSE, op |-> call.op, lba |-> call.lba,
                  left |-> call.sectors, word |-> 0, cache |-> NoWords, err |-> FALSE]
    BY <1>3, AddressArrives, CountArrives DEF SendCommand
  <1>5. /\ drive'.busy = TRUE /\ drive'.drq = FALSE /\ drive'.op = call.op /\ drive'.lba = call.lba
        /\ drive'.left = call.sectors /\ drive'.word = 0 /\ drive'.cache = NoWords
        /\ drive'.err = FALSE
    BY <1>4
  <1>6. TypeOK'
    BY <1>1, <1>3, <1>5, Constants DEF AtaInv, TypeOK, InterruptsTypeOK, irqVars, Length
  <1>7. Shape'
    <2>1. IsDrive'
      <3>1. IsSector(NoWords)
        BY DEF IsSector, NoWords
      <3> QED
        BY <1>3, <1>4, <1>5, <3>1, Constants DEF IsDrive, IsSector
    <2>2. IsDisk(asking)
      BY DEF AtaInv, Shape, IsDisk, IsSector, SectorOf
    <2>3. IsDisk(asked)' /\ IsDisk(media)'
      BY <1>1, <2>2 DEF AtaInv, Shape, IsDisk, IsSector
    <2> QED
      BY <1>1, <2>1, <2>3 DEF AtaInv, Shape, InRange, Length
  <1>8. Failed' /\ Storing' /\ AtRest'
    BY <1>1, <1>3, <1>5, Constants DEF AtaInv, Failed, Storing, AtRest
  <1>9. Progress'
    <2>1. Done' = 0
      BY <1>1, <1>3, <1>5 DEF Done
    <2>2. Offset' = 0
      BY <1>5 DEF Offset
    <2>3. 0 * SECTOR_WORDS + 0 = 0
      BY Constants
    <2> QED
      BY <1>1, <1>2, <1>3, <1>5, <2>1, <2>2, <2>3 DEF Progress
  <1>10. Fetched'
    BY <1>1, <1>3, <1>5 DEF Fetched
  <1>11. call.op = "write" => Sent'
    <2>1. \A s \in call.lba..call.lba + call.sectors - 1 : s \in LBAs
      BY <1>2, Addressed
    <2>2. \A s : SectorOf(s)' = SectorOf(s)
      BY <1>1 DEF SectorOf
    <2> QED
      BY <1>1, <1>3, <1>5, <2>1, <2>2 DEF Sent
  <1> QED
    BY <1>1, <1>6, <1>7, <1>8, <1>9, <1>10, <1>11 DEF AtaInv, InTransfer

(* When no word is left nothing is on its way but the last sector of a write. *)
LEMMA FinishKeepsInv ==
  ASSUME AtaInv, Finish PROVE AtaInv'
  <1>1. /\ pc = "words" /\ ~More /\ flag' = TRUE /\ pc' = "idle"
        /\ UNCHANGED <<irr, isr, cpu, line, scancodes, raised, call, i, buffer, drive, media, asked>>
    BY DEF Finish
  <1>2. TypeOK'
    BY <1>1 DEF AtaInv, TypeOK, InterruptsTypeOK, Length
  <1>3. Shape'
    BY <1>1 DEF AtaInv, Shape, IsDrive, IsSector, IsDisk, InRange, Length
  <1>4. Failed' /\ Storing'
    BY <1>1 DEF AtaInv, Failed, Storing
  <1>5. InTransfer'
    BY <1>1 DEF AtaInv, InTransfer, Progress, Fetched, Sent, Done, Offset, SectorOf
  <1>6. AtRest'
    <2>1. CASE drive.err
      BY <1>1, <2>1 DEF AtaInv, Failed, AtRest
    <2>2. CASE ~drive.err
      <3>1. Progress
        BY <1>1, <2>2 DEF AtaInv, InTransfer
      <3>2. Done \in Nat /\ call.sectors \in Nat /\ Done <= call.sectors
        BY <3>1, Sizes DEF AtaInv, TypeOK, Progress
      <3>3. SECTOR_WORDS \in Nat \ {0}
        BY Constants
      <3>4. i >= call.sectors * SECTOR_WORDS /\ i \in Int
        <4>1. i \in 0..Length(call) /\ Length(call) \in Nat
          BY Sizes DEF AtaInv, TypeOK
        <4>2. ~(i < Length(call))
          BY <1>1 DEF More
        <4>3. i >= Length(call) /\ i \in Int
          BY <4>1, <4>2
        <4> QED
          BY <4>3 DEF Length
      <3>5. i = Done * SECTOR_WORDS + Offset
        BY <3>1 DEF Progress
      <3>6. drive.word \in 0..SECTOR_WORDS
        BY DEF AtaInv, TypeOK
      <3>7. ASSUME Done < call.sectors, Offset # SECTOR_WORDS PROVE FALSE
        <4>1. Done * SECTOR_WORDS + SECTOR_WORDS <= call.sectors * SECTOR_WORDS
              /\ Done * SECTOR_WORDS \in Nat /\ call.sectors * SECTOR_WORDS \in Nat
          BY <3>2, <3>3, <3>7, Before
        <4>2. Offset \in 0..SECTOR_WORDS - 1
          BY <3>3, <3>6, <3>7 DEF Offset
        <4> QED
          BY <3>3, <3>4, <3>5, <4>1, <4>2
      <3>8. ASSUME Done < call.sectors - 1 PROVE FALSE
        <4>1. (Done + 1) * SECTOR_WORDS + SECTOR_WORDS <= call.sectors * SECTOR_WORDS
              /\ (Done + 1) * SECTOR_WORDS \in Nat /\ call.sectors * SECTOR_WORDS \in Nat
          BY <3>2, <3>3, <3>8, Before
        <4>2. (Done + 1) * SECTOR_WORDS = Done * SECTOR_WORDS + SECTOR_WORDS
          BY <3>2, <3>3
        <4>3. Offset \in 0..SECTOR_WORDS
          BY <3>3, <3>6 DEF Offset
        <4>4. Done * SECTOR_WORDS \in Nat
          BY <3>2, <3>3
        <4> QED
          BY <3>3, <3>4, <3>5, <4>1, <4>2, <4>3, <4>4
      <3>9. CASE ~drive.busy
        <4>1. ~drive.drq
          BY <3>1, <3>2, <3>3, <3>7, <3>6 DEF Progress, Offset
        <4> QED
          BY <1>1, <3>1, <3>9, <4>1 DEF AtRest, Progress
      <3>10. CASE drive.busy
        <4>1. ~drive.drq /\ drive.left > 0 /\ drive.left = call.sectors - Done
          BY <3>1, <3>10 DEF Progress
        <4>2. Done = call.sectors - 1
          BY <3>2, <3>8, <4>1
        <4>3. Offset = SECTOR_WORDS
          BY <3>2, <3>7, <4>2
        <4>4. drive.op = "write" /\ drive.word = SECTOR_WORDS
          BY <3>3, <4>1, <4>3 DEF Offset, AtaInv, Shape, IsDrive
        <4>5. drive.left = 1
          BY <3>2, <4>1, <4>2
        <4> QED
          BY <1>1, <3>10, <4>1, <4>4, <4>5 DEF AtRest
      <3> QED
        BY <3>9, <3>10
    <2> QED
      BY <2>1, <2>2
  <1> QED
    BY <1>2, <1>3, <1>4, <1>5, <1>6 DEF AtaInv

(***************************************************************************)
(* The drive                                                               *)
(***************************************************************************)
LEMMA DriveTypes ==
  ASSUME TypeOK, Drive, drive'.left \in 0..MaxSectors, drive'.word \in 0..SECTOR_WORDS
  PROVE  TypeOK'
  <1>1. UNCHANGED <<flag, isr, cpu, line, scancodes, raised, pc, call, i>>
    BY DEF Drive
  <1>2. irr' \subseteq Lines
    BY Constants DEF Drive, DriveReads, DriveOpens, DriveStores, DriveFails, Request, TypeOK,
                     InterruptsTypeOK
  <1>3. DOMAIN media' = LBAs
    BY DEF Drive, DriveReads, DriveOpens, DriveStores, DriveFails, TypeOK
  <1> QED
    BY <1>1, <1>2, <1>3 DEF TypeOK, InterruptsTypeOK, Length

LEMMA DriveShape ==
  ASSUME Shape, Drive, IsDrive', IsDisk(media)' PROVE Shape'
  BY DEF Shape, Drive, InRange, Length, IsDisk, IsSector

LEMMA FailsKeepsInv ==
  ASSUME AtaInv, Drive, DriveFails PROVE AtaInv'
  <1>1. /\ drive' = [busy |-> FALSE, drq |-> FALSE, op |-> "read", lba |-> 0, left |-> 0,
                     word |-> 0, cache |-> NoWords, err |-> TRUE]
        /\ media' = media
        /\ UNCHANGED <<flag, isr, cpu, line, scancodes, raised, pc, call, i, buffer, asked>>
    BY DEF DriveFails, Drive
  <1>2. /\ drive'.busy = FALSE /\ drive'.drq = FALSE /\ drive'.op = "read" /\ drive'.lba = 0
        /\ drive'.left = 0 /\ drive'.word = 0 /\ drive'.cache = NoWords /\ drive'.err = TRUE
    BY <1>1
  <1>3. TypeOK'
    BY <1>2, Constants, DriveTypes DEF AtaInv
  <1>4. IsDrive'
    <2>1. IsSector(NoWords)
      BY DEF IsSector, NoWords
    <2> QED
      BY <1>1, <1>2, <2>1, Constants DEF IsDrive, IsSector
  <1>5. IsDisk(media)'
    BY <1>1 DEF AtaInv, Shape, IsDisk, IsSector
  <1>6. Failed' /\ Storing' /\ AtRest' /\ InTransfer'
    BY <1>1, <1>2 DEF AtaInv, Failed, Storing, AtRest, InTransfer
  <1> QED
    BY <1>3, <1>4, <1>5, <1>6, DriveShape DEF AtaInv

LEMMA ReadsKeepsInv ==
  ASSUME AtaInv, Drive, DriveReads PROVE AtaInv'
  <1> DEFINE words == IF drive.lba \in LBAs THEN media[drive.lba] ELSE NoWords
  <1>1. /\ drive.busy /\ drive.op = "read" /\ media' = media
        /\ UNCHANGED <<flag, isr, cpu, line, scancodes, raised, pc, call, i, buffer, asked>>
    BY DEF DriveReads, Drive
  <1>2. drive' = [busy |-> FALSE, drq |-> TRUE, op |-> drive.op, lba |-> drive.lba,
                  left |-> drive.left, word |-> 0, cache |-> words, err |-> drive.err]
    BY DEF DriveReads, AtaInv, Shape, IsDrive
  <1> HIDE DEF words
  <1>3. /\ drive'.busy = FALSE /\ drive'.drq = TRUE /\ drive'.op = drive.op
        /\ drive'.lba = drive.lba /\ drive'.left = drive.left /\ drive'.word = 0
        /\ drive'.cache = words /\ drive'.err = drive.err
    BY <1>2
  <1>4. TypeOK'
    <2>1. drive'.left \in 0..MaxSectors /\ drive'.word \in 0..SECTOR_WORDS
      BY <1>3, Constants DEF AtaInv, TypeOK
    <2> QED
      BY <2>1, DriveTypes DEF AtaInv
  <1>5. IsDrive'
    <2>1. IsSector(words)
      BY DEF words, IsSector, NoWords, AtaInv, Shape, IsDisk
    <2> QED
      BY <1>2, <1>3, <2>1, Constants DEF IsDrive, IsSector, AtaInv, Shape
  <1>6. IsDisk(media)'
    BY <1>1 DEF AtaInv, Shape, IsDisk, IsSector
  <1>7. pc \in {"sent", "words"} /\ ~drive.err
    BY <1>1 DEF AtaInv, AtRest, Failed, TypeOK
  <1>8. Failed' /\ Storing' /\ AtRest'
    BY <1>1, <1>3, <1>7 DEF AtaInv, Failed, Storing, AtRest
  <1>9. Progress /\ (call.op = "read" => Fetched) /\ call.op = "read"
    BY <1>1, <1>7 DEF AtaInv, InTransfer, Progress
  <1>10. ~drive.drq /\ drive.left > 0 /\ drive.left = call.sectors - Done /\ Offset = 0
    BY <1>1, <1>9 DEF Progress, Offset
  <1>11. Progress'
    <2>1. Done' = Done
      BY <1>1, <1>3 DEF Done
    <2>2. Offset' = 0
      BY <1>3 DEF Offset
    <2>3. 0 < SECTOR_WORDS
      BY Constants
    <2> QED
      BY <1>1, <1>3, <1>9, <1>10, <2>1, <2>2, <2>3 DEF Progress
  <1>12. Fetched'
    <2>1. drive.lba \in call.lba..call.lba + call.sectors - 1
      <3>1. drive.lba \in Int /\ call.lba \in Int /\ call.sectors \in Int
        BY Sizes DEF AtaInv, Shape, IsDrive, TypeOK
      <3>2. drive.lba - call.lba >= 0 /\ call.sectors - (drive.lba - call.lba) > 0
        BY <1>9, <1>10 DEF Progress, Done
      <3> QED
        BY <3>1, <3>2
    <2>2. drive.lba \in LBAs
      BY <1>7, <2>1, Addressed DEF AtaInv, Shape, TypeOK
    <2>3. drive'.cache = media'[drive'.lba]
      BY <1>1, <1>3, <2>2 DEF words
    <2>4. \A s : SectorOf(s)' = SectorOf(s)
      BY <1>1 DEF SectorOf
    <2>5. \A s \in call'.lba..drive'.lba - 1 : SectorOf(s)' = media'[s]
      BY <1>1, <1>3, <1>9, <2>4 DEF Fetched
    <2>6. 0..drive'.word - 1 = {}
      BY <1>3
    <2> QED
      BY <2>3, <2>5, <2>6 DEF Fetched
  <1>13. InTransfer'
    BY <1>1, <1>3, <1>9, <1>11, <1>12 DEF InTransfer
  <1> QED
    BY <1>4, <1>5, <1>6, <1>8, <1>13, DriveShape DEF AtaInv

LEMMA OpensKeepsInv ==
  ASSUME AtaInv, Drive, DriveOpens PROVE AtaInv'
  <1>1. /\ drive.busy /\ drive.op = "write" /\ drive.word = 0 /\ media' = media
        /\ UNCHANGED <<flag, isr, cpu, line, scancodes, raised, pc, call, i, buffer, asked>>
    BY DEF DriveOpens, Drive
  <1>2. drive' = [busy |-> FALSE, drq |-> TRUE, op |-> drive.op, lba |-> drive.lba,
                  left |-> drive.left, word |-> drive.word, cache |-> drive.cache,
                  err |-> drive.err]
    BY DEF DriveOpens, AtaInv, Shape, IsDrive
  <1>3. /\ drive'.busy = FALSE /\ drive'.drq = TRUE /\ drive'.op = drive.op
        /\ drive'.lba = drive.lba /\ drive'.left = drive.left /\ drive'.word = drive.word
        /\ drive'.cache = drive.cache /\ drive'.err = drive.err
    BY <1>2
  <1>4. TypeOK'
    <2>1. drive'.left \in 0..MaxSectors /\ drive'.word \in 0..SECTOR_WORDS
      BY <1>3 DEF AtaInv, TypeOK
    <2> QED
      BY <2>1, DriveTypes DEF AtaInv
  <1>5. IsDrive'
    BY <1>2, <1>3 DEF IsDrive, IsSector, AtaInv, Shape
  <1>6. IsDisk(media)'
    BY <1>1 DEF AtaInv, Shape, IsDisk, IsSector
  <1>7. SECTOR_WORDS # 0 /\ 0 < SECTOR_WORDS
    BY Constants
  <1>8. pc \in {"sent", "words"} /\ ~drive.err
    BY <1>1, <1>7 DEF AtaInv, AtRest, Failed, TypeOK
  <1>9. Failed' /\ Storing' /\ AtRest'
    BY <1>1, <1>3, <1>8 DEF AtaInv, Failed, Storing, AtRest
  <1>10. Progress /\ (call.op = "write" => Sent) /\ call.op = "write"
    BY <1>1, <1>8 DEF AtaInv, InTransfer, Progress
  <1>11. Progress'
    <2>1. Done' = Done
      BY <1>1, <1>3 DEF Done
    <2>2. Offset' = 0 /\ Offset = 0
      BY <1>1, <1>3 DEF Offset
    <2> QED
      BY <1>1, <1>3, <1>7, <1>10, <2>1, <2>2 DEF Progress
  <1>12. Sent'
    <2>1. \A s : SectorOf(s)' = SectorOf(s)
      BY <1>1 DEF SectorOf
    <2>2. 0..drive'.word - 1 = {}
      BY <1>1, <1>3
    <2> QED
      BY <1>1, <1>3, <1>10, <2>1, <2>2 DEF Sent
  <1>13. InTransfer'
    BY <1>1, <1>3, <1>10, <1>11, <1>12 DEF InTransfer
  <1> QED
    BY <1>4, <1>5, <1>6, <1>9, <1>13, DriveShape DEF AtaInv

(* The sector at the drive is the one asked for: it may go on the disk. *)
LEMMA StoredIsAsked ==
  ASSUME AtaInv, DriveStores
  PROVE  /\ drive.lba \in LBAs /\ drive.left > 0
         /\ media' = [s \in LBAs |-> IF s = drive.lba THEN asked[drive.lba] ELSE media[s]]
  <1>1. drive.busy /\ drive.op = "write" /\ drive.word = SECTOR_WORDS
    BY DEF DriveStores
  <1>2. drive.lba \in LBAs /\ drive.left > 0 /\ drive.cache = asked[drive.lba]
    BY <1>1 DEF AtaInv, Storing
  <1> QED
    BY <1>2 DEF DriveStores

LEMMA StoresKeepsInv ==
  ASSUME AtaInv, Drive, DriveStores PROVE AtaInv'
  <1>1. /\ drive.busy /\ drive.op = "write" /\ drive.word = SECTOR_WORDS
        /\ UNCHANGED <<flag, isr, cpu, line, scancodes, raised, pc, call, i, buffer, asked>>
    BY DEF DriveStores, Drive
  <1>2. drive' = [busy |-> FALSE, drq |-> drive.left > 1, op |-> drive.op, lba |-> drive.lba + 1,
                  left |-> drive.left - 1, word |-> 0, cache |-> drive.cache, err |-> drive.err]
    BY DEF DriveStores, AtaInv, Shape, IsDrive
  <1>3. /\ drive'.busy = FALSE /\ drive'.drq = (drive.left > 1) /\ drive'.op = drive.op
        /\ drive'.lba = drive.lba + 1 /\ drive'.left = drive.left - 1 /\ drive'.word = 0
        /\ drive'.cache = drive.cache /\ drive'.err = drive.err
    BY <1>2
  <1>14. drive'.drq <=> drive.left > 1
    BY <1>3, Zenon
  <1>4. /\ drive.lba \in LBAs /\ drive.left > 0
        /\ media' = [s \in LBAs |-> IF s = drive.lba THEN asked[drive.lba] ELSE media[s]]
    BY StoredIsAsked
  <1>5. drive.left \in 1..MaxSectors /\ drive.lba \in Int /\ MaxSectors \in Nat
        /\ SECTOR_WORDS \in Nat \ {0}
    BY <1>4, Constants DEF AtaInv, Shape, IsDrive
  <1>6. drive'.left \in 0..MaxSectors /\ drive'.word \in 0..SECTOR_WORDS /\ drive'.lba \in Int
    BY <1>3, <1>5
  <1>7. TypeOK'
    BY <1>6, DriveTypes DEF AtaInv
  <1>8. IsDrive'
    BY <1>2, <1>3, <1>6 DEF IsDrive, IsSector, AtaInv, Shape
  <1>9. IsDisk(media)'
    BY <1>4 DEF AtaInv, Shape, IsDisk, IsSector
  <1>10. ~drive.err /\ ~drive'.err /\ ~drive'.busy
    BY <1>1, <1>3 DEF AtaInv, Failed, Shape, IsDrive
  <1>11. Failed' /\ Storing'
    BY <1>10 DEF Failed, Storing
  <1>12. AtRest'
    <2> SUFFICES ASSUME pc \in {"boot", "idle", "waitIdle"} PROVE AtRest'
      BY <1>1 DEF AtRest
    <2>1. drive.left = 1 /\ (pc = "waitIdle" => i = 0)
      BY <1>1 DEF AtaInv, AtRest
    <2>2. ~drive'.drq /\ drive'.left = 0
      BY <1>3, <1>14, <2>1
    <2> QED
      BY <1>1, <1>10, <2>1, <2>2 DEF AtRest
  <1>13. InTransfer'
    <2> SUFFICES ASSUME pc \in {"sent", "words", "idle"}
                 PROVE  Progress' /\ Sent' /\ call'.op = "write"
      BY <1>1 DEF InTransfer
    <2>1. Progress /\ Sent /\ call.op = "write"
      BY <1>1, <1>10 DEF AtaInv, InTransfer, Progress
    <2>2. /\ Done \in 0..call.sectors /\ drive.left = call.sectors - Done
          /\ i = Done * SECTOR_WORDS + SECTOR_WORDS /\ call.sectors \in Nat /\ call.lba \in Nat
      BY <1>1, <2>1, Sizes DEF Progress, Offset, AtaInv, TypeOK
    <2>3. Done' = Done + 1
      BY <1>1, <1>3, <1>5, <2>2 DEF Done
    <2>4. Offset' = 0
      BY <1>1, <1>3 DEF Offset
    <2>5. (Done + 1) * SECTOR_WORDS + 0 = Done * SECTOR_WORDS + SECTOR_WORDS
      BY <1>5, <2>2
    <2>6. Done + 1 \in 0..call.sectors /\ drive.left - 1 = call.sectors - (Done + 1)
      BY <1>5, <2>2
    <2>7. Progress'
      <3>1. drive'.op = call'.op
        BY <1>1, <1>3, <2>1
      <3>2. Done' \in 0..call'.sectors /\ drive'.left = call'.sectors - Done'
        BY <1>1, <1>3, <2>3, <2>6
      <3>3. i' = Done' * SECTOR_WORDS + Offset'
        BY <1>1, <2>2, <2>3, <2>4, <2>5
      <3>4. drive'.drq => ~drive'.busy /\ drive'.word < SECTOR_WORDS /\ drive'.left > 0
        BY <1>3, <1>5, <1>10, <1>14
      <3>5. ~drive'.drq => drive'.left = 0
        BY <1>3, <1>5, <1>10, <1>14
      <3> QED
        BY <1>10, <2>4, <3>1, <3>2, <3>3, <3>4, <3>5 DEF Progress
    <2>8. Sent'
      <3>1. \A s : SectorOf(s)' = SectorOf(s)
        BY <1>1 DEF SectorOf
      <3>2. \A s \in call'.lba..call'.lba + call'.sectors - 1 : asked'[s] = SectorOf(s)'
        BY <1>1, <2>1, <3>1 DEF Sent
      <3>3. ASSUME NEW s \in call.lba..drive.lba PROVE media'[s] = asked[s]
        <4>1. s \in LBAs
          <5>1. s \in call.lba..call.lba + call.sectors - 1
            BY <1>5, <2>2, <3>3 DEF Done
          <5> QED
            BY <5>1, Addressed DEF AtaInv, Shape, TypeOK
        <4>2. CASE s = drive.lba
          BY <1>4, <4>1, <4>2
        <4>3. CASE s # drive.lba
          <5>1. s \in call.lba..drive.lba - 1
            BY <1>5, <2>2, <4>3
          <5> QED
            BY <1>4, <2>1, <4>1, <4>3, <5>1 DEF Sent
        <4> QED
          BY <4>2, <4>3
      <3>4. \A s \in call'.lba..drive'.lba - 1 : media'[s] = asked'[s]
        <4>1. call'.lba..drive'.lba - 1 = call.lba..drive.lba
          BY <1>1, <1>3, <1>5
        <4> QED
          BY <1>1, <3>3, <4>1
      <3>5. 0..drive'.word - 1 = {}
        BY <1>3
      <3> QED
        BY <3>2, <3>4, <3>5 DEF Sent
    <2> QED
      BY <1>1, <2>1, <2>7, <2>8
  <1> QED
    BY <1>7, <1>8, <1>9, <1>11, <1>12, <1>13, DriveShape DEF AtaInv

(***************************************************************************)
(* A word                                                                  *)
(***************************************************************************)

(* The driver moves a word only when the drive has it or takes it. *)
LEMMA WordReady ==
  ASSUME AtaInv, MoveWord, ~drive.err
  PROVE  /\ Progress /\ drive.drq /\ ~drive.busy
         /\ Done \in 0..call.sectors - 1 /\ drive.word \in 0..SECTOR_WORDS - 1
         /\ i = Done * SECTOR_WORDS + drive.word /\ drive.lba = call.lba + Done
  <1>1. pc = "words" /\ More /\ SectorReady
    BY DEF MoveWord
  <1>2. Progress
    BY <1>1 DEF AtaInv, InTransfer
  <1>3. /\ Done \in Nat /\ call.sectors \in Nat /\ Done <= call.sectors /\ call.lba \in Nat
        /\ SECTOR_WORDS \in Nat \ {0} /\ drive.lba \in Int
    BY <1>2, Sizes, Constants DEF AtaInv, TypeOK, Progress, Shape, IsDrive
  <1>4. i < call.sectors * SECTOR_WORDS
    BY <1>1 DEF More, Length
  <1>5. i = Done * SECTOR_WORDS + Offset
    BY <1>2 DEF Progress
  <1>6. drive.busy \in BOOLEAN /\ drive.drq \in BOOLEAN /\ drive.op \in {"read", "write"}
    BY DEF AtaInv, Shape, IsDrive
  <1>7. ASSUME drive.busy PROVE FALSE
    <2>1. ~drive.drq
      BY <1>2, <1>7 DEF Progress
    <2>2. i % SECTOR_WORDS = 0
      <3>1. CASE drive.op = "read"
        <4>1. Offset = 0
          BY <2>1, <3>1 DEF Offset
        <4>2. i = Done * SECTOR_WORDS
          BY <1>3, <1>5, <4>1
        <4> QED
          BY <1>3, <4>2, Multiple
      <3>2. CASE drive.op = "write"
        <4>1. Offset \in {0, SECTOR_WORDS}
          BY <1>7, <3>2 DEF Offset, AtaInv, Storing
        <4>2. CASE Offset = 0
          <5>1. i = Done * SECTOR_WORDS
            BY <1>3, <1>5, <4>2
          <5> QED
            BY <1>3, <5>1, Multiple
        <4>3. CASE Offset = SECTOR_WORDS
          <5>1. (Done + 1) * SECTOR_WORDS = Done * SECTOR_WORDS + SECTOR_WORDS
            BY <1>3
          <5>2. i = (Done + 1) * SECTOR_WORDS /\ Done + 1 \in Nat
            BY <1>3, <1>5, <4>3, <5>1
          <5> QED
            BY <1>3, <5>2, Multiple
        <4> QED
          BY <4>1, <4>2, <4>3
      <3> QED
        BY <1>6, <3>1, <3>2
    <2> QED
      BY <1>1, <1>7, <2>2 DEF SectorReady
  <1>8. ASSUME ~drive.drq PROVE FALSE
    <2>1. drive.left = 0 /\ Offset = 0 /\ drive.left = call.sectors - Done
      BY <1>2, <1>7, <1>8 DEF Progress
    <2>2. Done = call.sectors
      BY <1>3, <2>1
    <2>3. i = call.sectors * SECTOR_WORDS /\ i \in Int
      BY <1>3, <1>5, <2>1, <2>2
    <2> QED
      BY <1>4, <2>3
  <1>9. drive.word < SECTOR_WORDS /\ drive.left > 0 /\ drive.left = call.sectors - Done
    BY <1>2, <1>8 DEF Progress
  <1>10. drive.word \in Nat
    BY <1>3 DEF AtaInv, TypeOK
  <1>11. Offset = drive.word
    BY <1>8 DEF Offset
  <1>12. Done \in 0..call.sectors - 1 /\ drive.word \in 0..SECTOR_WORDS - 1
    BY <1>3, <1>9, <1>10
  <1>13. drive.lba = call.lba + Done
    BY <1>3 DEF Done
  <1> QED
    BY <1>2, <1>5, <1>7, <1>8, <1>11, <1>12, <1>13

(* The counter does not come to the end of its type. *)
LEMMA WordTypes ==
  ASSUME AtaInv, MoveWord, drive'.left \in 0..MaxSectors, drive'.word \in 0..SECTOR_WORDS
  PROVE  TypeOK' /\ i' = i + 1
  <1>1. /\ pc = "words" /\ More /\ i' = NextWord(i)
        /\ UNCHANGED <<irqVars, pc, call, media, asked>>
    BY DEF MoveWord
  <1>2. i \in 0..Length(call) /\ Length(call) \in Nat /\ Length(call) < UINT16 /\ UINT16 \in Nat
    BY Sizes, Constants DEF AtaInv, TypeOK
  <1>3. i < Length(call)
    BY <1>1 DEF More
  <1>4. (i + 1) % UINT16 = i + 1
    BY <1>2, <1>3
  <1>5. i' = i + 1 /\ i' \in 0..Length(call)
    BY <1>1, <1>2, <1>3, <1>4 DEF NextWord
  <1>6. TypeOK'
    BY <1>1, <1>5 DEF AtaInv, TypeOK, InterruptsTypeOK, irqVars, Length
  <1> QED
    BY <1>5, <1>6

LEMMA WordShape ==
  ASSUME AtaInv, MoveWord, IsDrive' PROVE Shape'
  <1>1. UNCHANGED <<pc, call, media, asked>>
    BY DEF MoveWord
  <1>2. DOMAIN buffer' = DOMAIN buffer
    BY DEF MoveWord
  <1> QED
    BY <1>1, <1>2 DEF AtaInv, Shape, InRange, Length, IsDisk, IsSector

(* The words of the sectors before the one at hand are not touched. *)
LEMMA PlacesApart ==
  ASSUME NEW d \in Nat, NEW e \in Nat, NEW v \in 0..SECTOR_WORDS - 1,
         NEW w \in 0..SECTOR_WORDS - 1, d # e \/ v # w
  PROVE  d * SECTOR_WORDS + v # e * SECTOR_WORDS + w
  <1>1. SECTOR_WORDS \in Nat \ {0} /\ d \in Int /\ e \in Int
    BY Constants
  <1> QED
    BY <1>1, OnePlace

LEMMA SameSector ==
  ASSUME NEW f, NEW g, IsSector(f), IsSector(g), \A w \in 0..SECTOR_WORDS - 1 : f[w] = g[w]
  PROVE  f = g
  BY DEF IsSector

LEMMA WordAfterFailure ==
  ASSUME AtaInv, MoveWord, drive.err PROVE AtaInv'
  <1>1. /\ pc = "words" /\ pc' = "words" /\ UNCHANGED <<call, media, asked>>
    BY DEF MoveWord
  <1>2. ~drive.drq
    BY DEF AtaInv, Failed
  <1>3. drive' = drive
    BY <1>2 DEF MoveWord, Moved
  <1>4. TypeOK'
    BY <1>3, WordTypes DEF AtaInv, TypeOK
  <1>5. Shape'
    BY <1>3, WordShape DEF AtaInv, Shape, IsDrive, IsSector
  <1>6. Failed' /\ Storing' /\ AtRest' /\ InTransfer'
    BY <1>1, <1>3 DEF AtaInv, Failed, Storing, AtRest, InTransfer
  <1> QED
    BY <1>4, <1>5, <1>6 DEF AtaInv

LEMMA WordOfWrite ==
  ASSUME AtaInv, MoveWord, ~drive.err, call.op = "write" PROVE AtaInv'
  <1> DEFINE last == drive.word + 1 = SECTOR_WORDS
  <1> DEFINE words == [drive.cache EXCEPT ![drive.word] = buffer[i]]
  <1>1. /\ pc = "words" /\ pc' = "words" /\ buffer' = buffer
        /\ UNCHANGED <<call, media, asked>>
    BY DEF MoveWord
  <1>2. /\ Progress /\ drive.drq /\ ~drive.busy
        /\ Done \in 0..call.sectors - 1 /\ drive.word \in 0..SECTOR_WORDS - 1
        /\ i = Done * SECTOR_WORDS + drive.word /\ drive.lba = call.lba + Done
    BY WordReady
  <1>3. drive.op = "write" /\ Sent /\ drive.left > 0
    BY <1>1, <1>2 DEF Progress, AtaInv, InTransfer
  <1>4. drive' = [busy |-> last, drq |-> ~last, op |-> drive.op, lba |-> drive.lba,
                  left |-> drive.left, word |-> drive.word + 1, cache |-> words,
                  err |-> drive.err]
    <2>1. drive' = Moved(buffer[i])
      BY DEF MoveWord
    <2>2. CASE last
      BY <1>2, <1>3, <2>1, <2>2 DEF Moved, AtaInv, Shape, IsDrive
    <2>3. CASE ~last
      BY <1>2, <1>3, <2>1, <2>3 DEF Moved, AtaInv, Shape, IsDrive
    <2> QED
      BY <2>2, <2>3
  <1>5. /\ drive'.busy = last /\ drive'.drq = ~last /\ drive'.op = drive.op
        /\ drive'.lba = drive.lba /\ drive'.left = drive.left /\ drive'.word = drive.word + 1
        /\ drive'.cache = words /\ drive'.err = drive.err
    BY <1>4
  <1>6. (drive'.busy <=> last) /\ (drive'.drq <=> ~last) /\ drive'.busy \in BOOLEAN
        /\ drive'.drq \in BOOLEAN
    BY <1>5, Zenon
  <1> HIDE DEF words
  <1>7. /\ SECTOR_WORDS \in Nat \ {0} /\ call.lba \in Nat /\ call.sectors \in Nat
        /\ call \in Transfers /\ InRange(call)
    BY <1>1, Sizes, Constants DEF AtaInv, TypeOK, Shape
  <1>8. drive'.word \in 0..SECTOR_WORDS
    BY <1>2, <1>5, <1>7
  <1>9. drive'.left \in 0..MaxSectors
    BY <1>5 DEF AtaInv, TypeOK
  <1>10. TypeOK' /\ i' = i + 1
    BY <1>8, <1>9, WordTypes
  <1>11. IsSector(words) /\ \A w \in 0..SECTOR_WORDS - 1 :
           words[w] = IF w = drive.word THEN buffer[i] ELSE drive.cache[w]
    BY <1>2 DEF words, IsSector, AtaInv, Shape, IsDrive
  <1>12. Shape'
    <2>1. IsDrive'
      BY <1>4, <1>5, <1>6, <1>8, <1>9, <1>11 DEF IsDrive, IsSector, AtaInv, Shape
    <2> QED
      BY <2>1, WordShape
  <1>13. drive.lba \in call.lba..call.lba + call.sectors - 1 /\ drive.lba \in LBAs
    <2>1. drive.lba \in call.lba..call.lba + call.sectors - 1
      BY <1>2, <1>7
    <2> QED
      BY <1>7, <2>1, Addressed
  (* The word that moved is the one asked for. *)
  <1>14. asked[drive.lba][drive.word] = buffer[i]
    <2>1. asked[drive.lba] = SectorOf(drive.lba)
      BY <1>3, <1>13 DEF Sent
    <2>2. drive.lba - call.lba = Done
      BY DEF Done
    <2> QED
      BY <1>2, <2>1, <2>2 DEF SectorOf
  <1>15. \A w \in 0..drive.word : words[w] = asked[drive.lba][w]
    <2> SUFFICES ASSUME NEW w \in 0..drive.word PROVE words[w] = asked[drive.lba][w]
      OBVIOUS
    <2>1. w \in 0..SECTOR_WORDS - 1
      BY <1>2, <1>7
    <2>2. CASE w = drive.word
      BY <1>11, <1>14, <2>1, <2>2
    <2>3. CASE w # drive.word
      <3>1. w \in 0..drive.word - 1
        BY <1>2, <2>1, <2>3
      <3> QED
        BY <1>2, <1>3, <1>11, <2>1, <2>3, <3>1 DEF Sent
    <2> QED
      BY <2>2, <2>3
  <1>16. 0..drive'.word - 1 = 0..drive.word
    BY <1>2, <1>5, <1>7
  <1>17. Failed' /\ AtRest'
    BY <1>1, <1>5 DEF Failed, AtRest
  <1>18. Storing'
    <2> SUFFICES ASSUME last PROVE words = asked[drive.lba] /\ drive'.word = SECTOR_WORDS
      BY <1>1, <1>3, <1>5, <1>6, <1>13 DEF Storing
    <2>1. 0..drive.word = 0..SECTOR_WORDS - 1
      BY <1>2, <1>7
    <2>2. IsSector(asked[drive.lba])
      BY <1>13 DEF AtaInv, Shape, IsDisk
    <2>3. \A w \in 0..SECTOR_WORDS - 1 : words[w] = asked[drive.lba][w]
      BY <1>15, <2>1
    <2>4. words = asked[drive.lba]
      BY <1>11, <2>2, <2>3, SameSector
    <2> QED
      BY <1>5, <2>4
  <1>19. Progress'
    <2>1. Done' = Done
      BY <1>1, <1>5 DEF Done
    <2>2. Offset' = drive.word + 1
      BY <1>3, <1>5 DEF Offset
    <2>3. Done * SECTOR_WORDS \in Int
      BY <1>2, <1>7
    <2>4. i' = Done' * SECTOR_WORDS + Offset'
      BY <1>2, <1>7, <1>10, <2>1, <2>2, <2>3
    <2>5. ~last => drive'.word < SECTOR_WORDS
      BY <1>2, <1>5, <1>7
    <2> QED
      BY <1>1, <1>2, <1>3, <1>5, <1>6, <2>1, <2>4, <2>5 DEF Progress
  <1>20. Sent'
    <2>1. \A s : SectorOf(s)' = SectorOf(s)
      BY <1>1 DEF SectorOf
    <2> QED
      BY <1>1, <1>3, <1>5, <1>15, <1>16, <2>1 DEF Sent
  <1> QED
    BY <1>1, <1>10, <1>12, <1>17, <1>18, <1>19, <1>20 DEF AtaInv, InTransfer

LEMMA WordOfRead ==
  ASSUME AtaInv, MoveWord, ~drive.err, call.op = "read" PROVE AtaInv'
  <1> DEFINE last == drive.word + 1 = SECTOR_WORDS
  <1>1. /\ pc = "words" /\ pc' = "words" /\ UNCHANGED <<call, media, asked>>
    BY DEF MoveWord
  <1>2. /\ Progress /\ drive.drq /\ ~drive.busy
        /\ Done \in 0..call.sectors - 1 /\ drive.word \in 0..SECTOR_WORDS - 1
        /\ i = Done * SECTOR_WORDS + drive.word /\ drive.lba = call.lba + Done
    BY WordReady
  <1>3. drive.op = "read" /\ Fetched /\ drive.left > 0 /\ drive.left = call.sectors - Done
    BY <1>1, <1>2 DEF Progress, AtaInv, InTransfer
  <1>4. buffer' = [buffer EXCEPT ![i] = drive.cache[drive.word]]
    BY <1>2 DEF MoveWord
  <1>5. drive' = [busy |-> last /\ drive.left > 1, drq |-> ~last, op |-> drive.op,
                  lba |-> IF last THEN drive.lba + 1 ELSE drive.lba,
                  left |-> IF last THEN drive.left - 1 ELSE drive.left,
                  word |-> drive.word + 1, cache |-> drive.cache, err |-> drive.err]
    <2>1. drive' = Moved(buffer[i])
      BY DEF MoveWord
    <2>2. CASE last
      <3>1. drive' = [busy |-> drive.left > 1, drq |-> ~last, op |-> drive.op,
                      lba |-> drive.lba + 1, left |-> drive.left - 1,
                      word |-> drive.word + 1, cache |-> drive.cache, err |-> drive.err]
        BY <1>2, <1>3, <2>1, <2>2 DEF Moved, AtaInv, Shape, IsDrive
      <3>2. (drive.left > 1) = (last /\ drive.left > 1)
        BY <2>2
      <3> QED
        BY <2>2, <3>1, <3>2
    <2>3. CASE ~last
      BY <1>2, <1>3, <2>1, <2>3 DEF Moved, AtaInv, Shape, IsDrive
    <2> QED
      BY <2>2, <2>3
  <1>6. /\ drive'.busy = (last /\ drive.left > 1) /\ drive'.drq = ~last /\ drive'.op = drive.op
        /\ drive'.lba = (IF last THEN drive.lba + 1 ELSE drive.lba)
        /\ drive'.left = (IF last THEN drive.left - 1 ELSE drive.left)
        /\ drive'.word = drive.word + 1 /\ drive'.cache = drive.cache /\ drive'.err = drive.err
    BY <1>5
  <1>7. (drive'.busy <=> last /\ drive.left > 1) /\ (drive'.drq <=> ~last)
        /\ drive'.busy \in BOOLEAN /\ drive'.drq \in BOOLEAN
    BY <1>6, Zenon
  <1>8. /\ SECTOR_WORDS \in Nat \ {0} /\ call.lba \in Nat /\ call.sectors \in Nat
        /\ call \in Transfers /\ InRange(call)
        /\ drive.left \in 1..MaxSectors /\ MaxSectors \in Nat /\ Done \in Nat /\ drive.lba \in Nat
    <2>1. call \in Transfers /\ InRange(call) /\ drive.left \in 0..MaxSectors
      BY <1>1 DEF AtaInv, TypeOK, Shape
    <2>2. SECTOR_WORDS \in Nat \ {0} /\ MaxSectors \in Nat
      BY Constants
    <2>3. call.lba \in Nat /\ call.sectors \in Nat
      BY <2>1, Sizes
    <2> QED
      BY <1>2, <1>3, <2>1, <2>2, <2>3
  <1>9. drive'.word \in 0..SECTOR_WORDS /\ drive'.left \in 0..MaxSectors /\ drive'.lba \in Int
    BY <1>2, <1>6, <1>8
  <1>10. TypeOK' /\ i' = i + 1
    BY <1>9, WordTypes
  <1>11. Shape'
    <2>1. IsDrive'
      BY <1>5, <1>6, <1>7, <1>9 DEF IsDrive, IsSector, AtaInv, Shape
    <2> QED
      BY <2>1, WordShape
  <1>12. Failed' /\ Storing' /\ AtRest'
    BY <1>1, <1>3, <1>6 DEF Failed, Storing, AtRest
  <1>13. Progress'
    <2>1. Done' = IF last THEN Done + 1 ELSE Done
      BY <1>1, <1>2, <1>6, <1>8 DEF Done
    <2>2. Offset' = IF last THEN 0 ELSE drive.word + 1
      BY <1>3, <1>6, <1>7 DEF Offset
    <2>3. Done * SECTOR_WORDS \in Int /\ (Done + 1) * SECTOR_WORDS = Done * SECTOR_WORDS + SECTOR_WORDS
      BY <1>8
    <2>4. i' = Done' * SECTOR_WORDS + Offset'
      <3>1. CASE last
        <4>1. Done' = Done + 1 /\ Offset' = 0
          BY <2>1, <2>2, <3>1
        <4>2. i' = Done * SECTOR_WORDS + SECTOR_WORDS
          <5> DEFINE first == Done * SECTOR_WORDS
          <5>1. first \in Int /\ i = first + drive.word /\ drive.word \in Int
            BY <1>2, <2>3
          <5> HIDE DEF first
          <5>2. i' = first + (drive.word + 1)
            BY <1>10, <5>1
          <5> QED
            BY <3>1, <5>2 DEF first
        <4>3. Done' * SECTOR_WORDS + Offset' = Done * SECTOR_WORDS + SECTOR_WORDS
          BY <1>8, <2>3, <4>1
        <4> QED
          BY <4>2, <4>3
      <3>2. CASE ~last
        BY <1>2, <1>8, <1>10, <2>1, <2>2, <2>3, <3>2
      <3> QED
        BY <3>1, <3>2
    <2>5. Done' \in 0..call.sectors /\ drive'.left = call.sectors - Done'
      BY <1>2, <1>3, <1>6, <1>8, <2>1
    <2>6. ~last => drive'.word < SECTOR_WORDS /\ drive'.left > 0
      <3>1. ~last => drive.word + 1 < SECTOR_WORDS
        BY <1>2, <1>8
      <3>2. ~last => drive'.left = drive.left
        BY <1>6
      <3> QED
        BY <1>3, <1>6, <3>1, <3>2
    <2>7. last => drive'.left > 0 \/ drive'.left = 0
      BY <1>6, <1>8
    <2>8. last => (drive'.left > 0 <=> drive.left > 1)
      BY <1>6, <1>8
    <2>9. drive'.op = call'.op
      BY <1>1, <1>3, <1>6
    <2>10. drive'.drq => ~drive'.busy /\ drive'.word < SECTOR_WORDS /\ drive'.left > 0
      BY <1>7, <2>6
    <2>11. drive'.busy => drive'.left > 0
      BY <1>7, <2>8
    <2>12. ~drive'.drq /\ ~drive'.busy => drive'.left = 0 /\ Offset' = 0
      BY <1>7, <2>2, <2>7, <2>8
    <2> QED
      BY <1>1, <2>4, <2>5, <2>9, <2>10, <2>11, <2>12 DEF Progress
  <1>14. i \in DOMAIN buffer
    <2>1. DOMAIN buffer = 0..Length(call) - 1 /\ i \in 0..Length(call) /\ Length(call) \in Nat
      BY <1>1, <1>8, Sizes DEF AtaInv, Shape, TypeOK
    <2>2. i < Length(call)
      BY DEF MoveWord, More
    <2> QED
      BY <2>1, <2>2
  <1>15. ASSUME NEW d \in 0..Done, NEW w \in 0..SECTOR_WORDS - 1, d # Done \/ w # drive.word
         PROVE  buffer'[d * SECTOR_WORDS + w] = buffer[d * SECTOR_WORDS + w]
    <2>1. d \in Nat /\ d * SECTOR_WORDS + w # i
      BY <1>2, <1>8, <1>15, PlacesApart
    <2> DEFINE place == d * SECTOR_WORDS + w
    <2>2. place # i
      BY <2>1
    <2>3. place \in DOMAIN buffer
      <3>1. Length(call) = call.sectors * SECTOR_WORDS /\ DOMAIN buffer = 0..Length(call) - 1
        BY <1>1 DEF AtaInv, Shape, Length
      <3>2. d < call.sectors
        BY <1>2, <1>8
      <3>3. /\ d * SECTOR_WORDS \in Nat /\ call.sectors * SECTOR_WORDS \in Nat
            /\ d * SECTOR_WORDS + SECTOR_WORDS <= call.sectors * SECTOR_WORDS
        BY <1>8, <2>1, <3>2, Before
      <3> DEFINE first == d * SECTOR_WORDS
      <3> DEFINE size == call.sectors * SECTOR_WORDS
      <3>4. first \in Nat /\ size \in Nat /\ first + SECTOR_WORDS <= size
        BY <3>3
      <3> HIDE DEF first, size
      <3>5. first + w \in 0..size - 1
        BY <1>8, <3>4
      <3> QED
        BY <3>1, <3>5 DEF first, size
    <2> HIDE DEF place
    <2>4. buffer'[place] = buffer[place]
      BY <1>4, <2>2, <2>3
    <2> QED
      BY <2>4 DEF place
  <1>16. buffer'[Done * SECTOR_WORDS + drive.word] = drive.cache[drive.word]
    BY <1>2, <1>4, <1>14
  <1>17. drive.cache = media[drive.lba]
         /\ \A w \in 0..drive.word - 1 : buffer[Done * SECTOR_WORDS + w] = drive.cache[w]
    BY <1>2, <1>3 DEF Fetched
  <1>18. \A w \in 0..drive.word : buffer'[Done * SECTOR_WORDS + w] = drive.cache[w]
    <2> SUFFICES ASSUME NEW w \in 0..drive.word
                 PROVE  buffer'[Done * SECTOR_WORDS + w] = drive.cache[w]
      OBVIOUS
    <2>1. w \in 0..SECTOR_WORDS - 1 /\ Done \in 0..Done
      BY <1>2, <1>8
    <2>2. CASE w = drive.word
      BY <1>16, <2>2
    <2>3. CASE w # drive.word
      <3>1. w \in 0..drive.word - 1
        BY <1>2, <2>1, <2>3
      <3> QED
        BY <1>15, <1>17, <2>1, <2>3, <3>1
    <2> QED
      BY <2>2, <2>3
  (* The sectors before this one are as they were. *)
  <1>19. ASSUME NEW s \in call.lba..drive.lba - 1 PROVE SectorOf(s)' = media'[s]
    <2>1. s - call.lba \in 0..Done /\ s - call.lba # Done
      BY <1>2, <1>8
    <2>2. \A w \in 0..SECTOR_WORDS - 1 : buffer'[(s - call.lba) * SECTOR_WORDS + w]
                                           = buffer[(s - call.lba) * SECTOR_WORDS + w]
      BY <1>15, <2>1
    <2>3. SectorOf(s)' = SectorOf(s)
      BY <1>1, <2>2 DEF SectorOf
    <2> QED
      BY <1>1, <1>3, <2>3 DEF Fetched
  <1>20. Fetched'
    <2>1. CASE ~last
      <3>1. 0..drive'.word - 1 = 0..drive.word /\ drive'.lba = drive.lba /\ Done' = Done
        BY <1>1, <1>2, <1>6, <1>8, <2>1 DEF Done
      <3> QED
        BY <1>1, <1>6, <1>17, <1>18, <1>19, <3>1 DEF Fetched
    <2>2. CASE last
      <3>1. ASSUME NEW s, s = drive.lba PROVE SectorOf(s)' = media'[s]
        <4>1. drive.lba \in LBAs
          <5>1. drive.lba \in call.lba..call.lba + call.sectors - 1
            BY <1>2, <1>8
          <5> QED
            BY <1>8, <5>1, Addressed
        <4>2. IsSector(media[drive.lba])
          BY <4>1 DEF AtaInv, Shape, IsDisk
        <4>3. 0..drive.word = 0..SECTOR_WORDS - 1 /\ drive.lba - call.lba = Done
          BY <1>2, <1>8, <2>2
        <4>4. SectorOf(s)' = [w \in 0..SECTOR_WORDS - 1 |-> media[drive.lba][w]]
          <5>1. \A w \in 0..SECTOR_WORDS - 1 :
                  buffer'[(s - call.lba) * SECTOR_WORDS + w] = media[drive.lba][w]
            BY <1>17, <1>18, <3>1, <4>3
          <5>2. SectorOf(s)' =
                  [w \in 0..SECTOR_WORDS - 1 |-> buffer'[(s - call.lba) * SECTOR_WORDS + w]]
            BY <1>1 DEF SectorOf
          <5> QED
            BY <5>1, <5>2
        <4> QED
          BY <1>1, <3>1, <4>2, <4>4 DEF IsSector
      <3>2. call.lba..drive'.lba - 1 = (call.lba..drive.lba - 1) \cup {drive.lba}
        BY <1>2, <1>6, <1>8, <2>2
      <3>3. ~drive'.drq
        BY <1>7, <2>2
      <3>4. \A s \in call.lba..drive'.lba - 1 : SectorOf(s)' = media'[s]
        <4> SUFFICES ASSUME NEW s \in call.lba..drive'.lba - 1 PROVE SectorOf(s)' = media'[s]
          OBVIOUS
        <4>1. CASE s = drive.lba
          BY <3>1, <4>1
        <4>2. CASE s \in call.lba..drive.lba - 1
          BY <1>19, <4>2
        <4> QED
          BY <3>2, <4>1, <4>2
      <3> QED
        BY <1>1, <3>3, <3>4 DEF Fetched
    <2> QED
      BY <2>1, <2>2
  <1> QED
    BY <1>1, <1>10, <1>11, <1>12, <1>13, <1>20 DEF AtaInv, InTransfer

(***************************************************************************)
(* The theorems                                                            *)
(***************************************************************************)
LEMMA DriveKeepsInv == AtaInv /\ Drive => AtaInv'
  BY FailsKeepsInv, ReadsKeepsInv, OpensKeepsInv, StoresKeepsInv DEF Drive

LEMMA ThreadKeepsInv == AtaInv /\ Thread => AtaInv'
  <1> SUFFICES ASSUME AtaInv, Thread PROVE AtaInv'
    OBVIOUS
  <1>1. CASE MoveWord
    <2>1. call.op \in {"read", "write"}
      BY Sizes DEF AtaInv, TypeOK
    <2> QED
      BY <1>1, <2>1, WordAfterFailure, WordOfWrite, WordOfRead
  <1> QED
    BY <1>1, CallsKeepInv, SendKeepsInv, AnsweredKeepsInv, FinishKeepsInv DEF Thread

LEMMA InvStep == AtaInv /\ [Next]_vars => AtaInv'
  <1> SUFFICES ASSUME AtaInv, [Next]_vars PROVE AtaInv'
    OBVIOUS
  <1>1. CASE Thread
    BY <1>1, ThreadKeepsInv
  <1>2. CASE \E t \in Transfers : Call(t)
    BY <1>2, CallsKeepInv
  <1>3. CASE Drive
    BY <1>3, DriveKeepsInv
  <1>4. CASE (Handler \/ Device) /\ UNCHANGED ataVars
    <2>1. InterruptsTypeOK
      BY DEF AtaInv, TypeOK
    <2> QED
      BY <1>4, <2>1, InterruptsType, InterruptsKeepInv
  <1>5. CASE UNCHANGED vars
    <2>1. InterruptsTypeOK' /\ UNCHANGED ataVars
      BY <1>5 DEF vars, irqVars, AtaInv, TypeOK, InterruptsTypeOK
    <2> QED
      BY <2>1, InterruptsKeepInv
  <1> QED
    BY <1>1, <1>2, <1>3, <1>4, <1>5 DEF Next

(* The words moved so far are where they belong, at every step of driver,   *)
(* drive and interrupts.                                                    *)
THEOREM Invariance == Spec => []AtaInv
  BY InvInit, InvStep, PTL DEF Spec

(* ata_read and ata_write count their words in 16 bits and stay within the *)
(* transfer; requests and services are of lines that exist.                *)
THEOREM TypeCorrect == Spec => []TypeOK
  <1>1. AtaInv => TypeOK
    BY DEF AtaInv
  <1> QED
    BY <1>1, Invariance, PTL

(* When ata_read or ata_write has returned and the drive has done its      *)
(* part, buffer and sectors are the same, unless this transfer has failed. *)
THEOREM Exact == Spec => []TransferExact
  <1>1. AtaInv => TransferExact
    <2> SUFFICES ASSUME AtaInv, pc = "idle", ~drive.busy, ~drive.err,
                        NEW s \in call.lba..(call.lba + call.sectors - 1)
                 PROVE  SectorOf(s) = media[s]
      BY DEF TransferExact
    <2>1. Progress /\ (call.op = "read" => Fetched) /\ (call.op = "write" => Sent)
      BY DEF AtaInv, InTransfer
    <2>2. drive.left = 0
      BY DEF AtaInv, AtRest
    <2>3. /\ call.op \in {"read", "write"} /\ call.lba \in Nat /\ call.sectors \in Nat
          /\ drive.lba \in Int
      BY Sizes DEF AtaInv, TypeOK, Shape, IsDrive
    <2>4. drive.lba = call.lba + call.sectors
      BY <2>1, <2>2, <2>3 DEF Progress, Done
    <2>5. s \in call.lba..drive.lba - 1
      BY <2>3, <2>4
    <2>6. CASE call.op = "read"
      BY <2>1, <2>5, <2>6 DEF Fetched
    <2>7. CASE call.op = "write"
      BY <2>1, <2>5, <2>7 DEF Sent
    <2> QED
      BY <2>3, <2>6, <2>7
  <1> QED
    BY <1>1, Invariance, PTL

(* A sector changes only when the drive stores it, and only to what the    *)
(* last ata_write asked it to hold.                                        *)
THEOREM AsAsked == Spec => StoresAsAsked
  <1> DEFINE Stored == \A s \in LBAs : media'[s] # media[s] => media'[s] = asked[s]
  <1>1. AtaInv /\ [Next]_vars => [Stored]_vars
    <2> SUFFICES ASSUME AtaInv, Next PROVE Stored
      OBVIOUS
    <2>1. CASE DriveStores
      BY <2>1, StoredIsAsked
    <2>2. CASE media' = media
      BY <2>2
    <2> QED
      BY <2>1, <2>2 DEF Next, Thread, BootRead, Call, Enter, SendCommand, Answered, MoveWord, Finish,
                        Drive, DriveReads, DriveOpens, DriveFails, ataVars
  <1>2. StoresAsAsked <=> [][Stored]_vars
    BY DEF StoresAsAsked
  <1> HIDE DEF Stored
  <1> QED
    BY <1>1, <1>2, Invariance, PTL DEF Spec
=============================================================================
