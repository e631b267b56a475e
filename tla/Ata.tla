-------------------------------- MODULE Ata --------------------------------
(***************************************************************************)
(* The disk driver (Kernel/Drivers/ata.c) with its drive, under the        *)
(* interrupts of module Interrupts.  ata_read and ata_write turn the       *)
(* interrupts off, move their words through a port while they poll the     *)
(* drive's status, and turn the interrupts on, also when they were off.    *)
(* The first call, of init_fs, is how they come to be on at all.           *)
(*                                                                         *)
(* The drive is hardware.  It sets BSY with a command and after the last   *)
(* word of a sector.  While it is not BSY, the status bit 0x40 that the    *)
(* driver calls DRQ is set, also when the command has failed: ERR is       *)
(* another bit, which the driver does not read.                            *)
(***************************************************************************)
EXTENDS Interrupts, Sequences

CONSTANTS
  LBAs,           \* addresses of sectors
  SECTOR_WORDS,   \* words of a sector: SECTOR_SIZE / 2
  MaxSectors,     \* the longest transfer, SECTORS_IN_FAT
  UINT8, UINT16,  \* the number of values of these types
  Junk            \* a word nobody wrote

ASSUME AtaAssumption ==
  /\ 0 \in LBAs /\ LBAs \subseteq 0..UINT8 * UINT8 * UINT8 - 1
  /\ SECTOR_WORDS \in Nat \ {0} /\ MaxSectors \in Nat \ {0}
  /\ UINT8 \in Nat \ {0, 1} /\ MaxSectors <= UINT8
  /\ UINT16 \in Nat /\ MaxSectors * SECTOR_WORDS < UINT16

VARIABLES
  pc,      \* where the thread is in ata_read and ata_write: "boot", "idle",
           \* "waitIdle", "sent", "words"
  call,    \* the parameters of the call: [op, lba, sectors]
  i,       \* the counter of the transfer
  buffer,  \* the parameter buffer: index -> word
  drive,   \* the drive and its registers
  media,   \* lba -> the words of the sector
  asked    \* history: lba -> what the last write command asks it to hold

ataVars == <<pc, call, i, buffer, drive, media, asked>>
vars == <<irqVars, ataVars>>

Transfers == [op : {"read", "write"}, lba : LBAs, sectors : 1..MaxSectors]

InRange(t) == \A k \in 0..t.sectors - 1 : t.lba + k \in LBAs

(* Word w of sector k of what is written, or of what the sector k held. *)
Words(tag, k) == [w \in 0..SECTOR_WORDS - 1 |-> <<tag, k, w>>]
NoWords == [w \in 0..SECTOR_WORDS - 1 |-> Junk]

Length(t) == t.sectors * SECTOR_WORDS

Init ==
  /\ InterruptsInit
  /\ pc = "boot"
  /\ call = [op |-> "read", lba |-> 0, sectors |-> 1]
  /\ i = 0
  /\ buffer = <<>>
  /\ drive = [busy |-> FALSE, drq |-> FALSE, op |-> "read", lba |-> 0, left |-> 0,
              word |-> 0, cache |-> NoWords, err |-> FALSE]
  /\ media = [s \in LBAs |-> Words("disk", s)]
  /\ asked = media

(***************************************************************************)
(* The drive                                                               *)
(***************************************************************************)
Request == irr' = irr \cup {DISK}

DriveReads ==
  /\ drive.busy /\ drive.op = "read"
  /\ drive' = [drive EXCEPT !.busy = FALSE, !.drq = TRUE, !.word = 0,
                            !.cache = IF drive.lba \in LBAs THEN media[drive.lba] ELSE NoWords]
  /\ Request
  /\ UNCHANGED media

(* Ready for the first sector of a write. *)
DriveOpens ==
  /\ drive.busy /\ drive.op = "write" /\ drive.word = 0
  /\ drive' = [drive EXCEPT !.busy = FALSE, !.drq = TRUE]
  /\ UNCHANGED <<irr, media>>

DriveStores ==
  /\ drive.busy /\ drive.op = "write" /\ drive.word = SECTOR_WORDS
  /\ media' = [s \in LBAs |-> IF s = drive.lba THEN drive.cache ELSE media[s]]
  /\ drive' = [drive EXCEPT !.busy = FALSE, !.drq = drive.left > 1, !.word = 0,
                            !.lba = @ + 1, !.left = @ - 1]
  /\ Request

(* A sector cannot be read or stored: the drive gives the command up.      *)
(* What that leaves in its registers nobody reads.                         *)
DriveFails ==
  /\ drive.busy
  /\ drive' = [busy |-> FALSE, drq |-> FALSE, op |-> "read", lba |-> 0, left |-> 0, word |-> 0,
               cache |-> NoWords, err |-> TRUE]
  /\ Request
  /\ UNCHANGED media

Drive ==
  /\ DriveReads \/ DriveOpens \/ DriveStores \/ DriveFails
  /\ UNCHANGED <<flag, isr, cpu, line, scancodes, raised, pc, call, i, buffer, asked>>

(* The data register: a word moves, and the drive is busy behind the last. *)
(* Without DRQ a word read is junk and a word written is lost.             *)
Moved(word) ==
  LET last == drive.word + 1 = SECTOR_WORDS
      next == [drive EXCEPT !.word = @ + 1, !.drq = ~last,
                            !.cache = IF drive.op = "write" THEN [@ EXCEPT ![drive.word] = word] ELSE @]
  IN  IF ~drive.drq THEN drive
      ELSE IF ~last THEN next
      ELSE IF drive.op = "write" THEN [next EXCEPT !.busy = TRUE]
      ELSE [next EXCEPT !.busy = drive.left > 1, !.lba = @ + 1, !.left = @ - 1]

(***************************************************************************)
(* ata_read and ata_write                                                  *)
(***************************************************************************)
Enter(t, content) ==
  /\ ThreadRuns
  /\ flag' = FALSE
  /\ pc' = "waitIdle"
  /\ call' = t
  /\ i' = 0
  /\ buffer' = content
  /\ UNCHANGED <<irr, isr, cpu, line, scancodes, raised, drive, media, asked>>

(* The call of init_fs, with interrupts off since the boot loader. *)
BootRead ==
  /\ pc = "boot"
  /\ \E t \in Transfers :
       /\ t.op = "read" /\ InRange(t) /\ t.sectors = MaxSectors
       /\ Enter(t, [w \in 0..Length(t) - 1 |-> Junk])

Call(t) ==
  /\ pc = "idle"
  /\ InRange(t)
  /\ Enter(t, [w \in 0..Length(t) - 1 |->
                 IF t.op = "read" THEN Junk
                 ELSE Words("data", w \div SECTOR_WORDS)[w % SECTOR_WORDS]])

(* The mistake: PORT_LBA_MID gets the low byte again. *)
RegistersLow(lba) == <<lba % UINT8, lba % UINT8, (lba \div (UINT8 * UINT8)) % UINT8>>

(* The bytes the driver sends to the three LBA registers. *)
Registers(lba) == <<lba % UINT8, (lba \div UINT8) % UINT8, (lba \div (UINT8 * UINT8)) % UINT8>>

(* What the drive makes of its registers; a count of 0 is UINT8. *)
Decoded(r) == r[1] + UINT8 * r[2] + UINT8 * UINT8 * r[3]
Count(c) == IF c = 0 THEN UINT8 ELSE c

(* The words of the buffer that belong to sector s. *)
SectorOf(s) == [w \in 0..SECTOR_WORDS - 1 |-> buffer[(s - call.lba) * SECTOR_WORDS + w]]

(* Once the drive is not BSY the registers are set and the command given.  *)
SendCommand ==
  /\ ThreadRuns
  /\ pc = "waitIdle" /\ ~drive.busy
  /\ drive' = [busy |-> TRUE, drq |-> FALSE, op |-> call.op, lba |-> Decoded(Registers(call.lba)),
               left |-> Count(call.sectors % UINT8), word |-> 0, cache |-> NoWords,
               err |-> FALSE]
  /\ pc' = IF call.op = "read" THEN "sent" ELSE "words"
  /\ asked' = [s \in LBAs |->
                 IF call.op = "write" /\ s \in call.lba..(call.lba + call.sectors - 1)
                 THEN SectorOf(s) ELSE asked[s]]
  /\ UNCHANGED <<irqVars, call, i, buffer, media>>

(* The loops behind the command of ata_read. *)
Answered ==
  /\ ThreadRuns
  /\ pc = "sent" /\ ~drive.busy
  /\ pc' = "words"
  /\ UNCHANGED <<irqVars, call, i, buffer, drive, media, asked>>

(* The mistake: one word too many. *)
MoreInclusive == i <= Length(call)

More == i < Length(call)

(* The mistake: a counter of 8 bits. *)
NextWordByte(n) == (n + 1) % UINT8

NextWord(n) == (n + 1) % UINT16

(* The mistake: the drive is waited for once, at the first sector. *)
SectorReadyOnce == i = 0 => ~drive.busy

(* Before each sector the driver waits until BSY is 0 and bit 0x40 is 1. *)
SectorReady == i % SECTOR_WORDS = 0 => ~drive.busy

MoveWord ==
  /\ ThreadRuns
  /\ pc = "words"
  /\ More
  /\ SectorReady
  /\ buffer' = IF call.op = "write" THEN buffer
               ELSE [buffer EXCEPT ![i] = IF drive.drq THEN drive.cache[drive.word] ELSE Junk]
  /\ drive' = Moved(buffer[i])
  /\ i' = NextWord(i)
  /\ UNCHANGED <<irqVars, pc, call, media, asked>>

(* sti, and the return. *)
Finish ==
  /\ ThreadRuns
  /\ pc = "words"
  /\ ~More
  /\ flag' = TRUE
  /\ pc' = "idle"
  /\ UNCHANGED <<irr, isr, cpu, line, scancodes, raised, call, i, buffer, drive, media, asked>>

Thread == BootRead \/ SendCommand \/ Answered \/ MoveWord \/ Finish

Next ==
  \/ Thread
  \/ \E t \in Transfers : Call(t)
  \/ Drive
  \/ (Handler \/ Device) /\ UNCHANGED ataVars

(* The CPU and the drive go on; the kernel need not call the driver again, *)
(* and nobody need press a key.                                            *)
Spec ==
  /\ Init /\ [][Next]_vars
  /\ WF_vars(Thread) /\ WF_vars(Handler /\ UNCHANGED ataVars) /\ WF_vars(Drive)

(***************************************************************************)
(* Properties                                                              *)
(***************************************************************************)

(* The type invariant. *)
TypeOK ==
  /\ InterruptsTypeOK
  /\ pc \in {"boot", "idle", "waitIdle", "sent", "words"}
  /\ call \in Transfers
  /\ i \in 0..Length(call)
  /\ drive.left \in 0..MaxSectors /\ drive.word \in 0..SECTOR_WORDS
  /\ DOMAIN media = LBAs

(* After a transfer has returned, and once the drive is not BSY any more,  *)
(* the disk holds what was written and the buffer what was read, unless    *)
(* the drive has failed in this very transfer: no word is moved before the *)
(* drive is ready, twice, or not at all, whatever failed before.           *)
TransferExact ==
  pc = "idle" /\ ~drive.busy /\ ~drive.err =>
    \A s \in call.lba..(call.lba + call.sectors - 1) : SectorOf(s) = media[s]

(* At every moment, so also when the power goes, a sector holds what it    *)
(* held or what the last write asked it to hold, and a sector that was not *)
(* addressed never changes, also when the drive fails halfway.             *)
StoresAsAsked ==
  [][\A s \in LBAs : media'[s] # media[s] => media'[s] = asked[s]]_vars

(* Every request is handled, also those of a line without a handler, those *)
(* that come before the kernel first turns the interrupts on, and those    *)
(* that come while another is in service or a transfer has them off.       *)
RequestsServed == \A l \in Lines : l \in irr ~> l \notin irr

(* Every transfer returns, with interrupts on: the longest one, whose      *)
(* counter comes close to the end of its type, and one the drive gives up, *)
(* as the driver waits for no bit that a failed drive leaves at 0.         *)
TransfersReturn == pc # "idle" ~> pc = "idle" /\ flag
=============================================================================
