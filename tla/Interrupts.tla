---------------------------- MODULE Interrupts ----------------------------
(***************************************************************************)
(* Interrupt requests: the dispatch of Kernel/Tables/irqs.c and irq.asm,   *)
(* between the two interrupt controllers (8259A) of the machine and the    *)
(* keyboard handler.  irq_handler runs with interrupts off, but devices    *)
(* raise requests between any two of its port accesses.                    *)
(*                                                                         *)
(* The controllers and the keyboard controller are hardware; they are      *)
(* modelled as far as the kernel programs them: edge triggered, fixed      *)
(* priority, no automatic end of interrupt, cascaded at line 2.            *)
(***************************************************************************)
EXTENDS Integers

CONSTANTS
  Lines,      \* the IRQ numbers devices use
  MaxRaised   \* bound: requests of the timer and the keyboard

KEYBOARD == 1
DISK == 14
CASCADE == 2
MASTER_OFFSET == 32
SLAVE_OFFSET == 40

ASSUME InterruptsAssumption ==
  /\ Lines \subseteq 0..15 \ {CASCADE}
  /\ {KEYBOARD, DISK} \subseteq Lines
  /\ MaxRaised \in Nat

VARIABLES
  flag,        \* the interrupt flag of the CPU
  irr, isr,    \* lines that are requested, lines that are in service
  cpu,         \* "thread", or where irq_handler is
  line,        \* the line irq_handler was called for
  scancodes,   \* bytes in the keyboard controller and behind it
  raised

irqVars == <<flag, irr, isr, cpu, line, scancodes, raised>>

(* The index irq.asm pushes tells the controllers apart. *)
IsSlave(l) == l + MASTER_OFFSET >= SLAVE_OFFSET

(* The place of a line in the order of priority. *)
Rank(l) == IF IsSlave(l) THEN 8 * CASCADE + l - 8 ELSE 8 * l

(* Lines with a handler in irq_routines. *)
Installed == {KEYBOARD}

InterruptsInit ==
  /\ flag = FALSE
  /\ irr = {} /\ isr = {}
  /\ cpu = "thread"
  /\ line = 0
  /\ scancodes = 0
  /\ raised = 0

(***************************************************************************)
(* Hardware                                                                *)
(***************************************************************************)

(* A line in service holds back itself and the lines behind it; one of the *)
(* slave holds back the slave's only, whose place in the master is line 2. *)
Deliverable ==
  {l \in irr : \A s \in isr : IsSlave(l) \/ ~IsSlave(s) => Rank(s) > Rank(l)}

Timer ==
  /\ 0 \in Lines
  /\ raised < MaxRaised
  /\ raised' = raised + 1
  /\ irr' = irr \cup {0}
  /\ UNCHANGED <<flag, isr, cpu, line, scancodes>>

(* A key is pressed or released.  The controller raises a request when the *)
(* byte can be read, which is when the ones before it have been.           *)
Scancode ==
  /\ raised < MaxRaised
  /\ raised' = raised + 1
  /\ scancodes' = scancodes + 1
  /\ irr' = IF scancodes = 0 THEN irr \cup {KEYBOARD} ELSE irr
  /\ UNCHANGED <<flag, isr, cpu, line>>

(***************************************************************************)
(* irq_common_handler and irq_handler                                      *)
(***************************************************************************)
Accept ==
  /\ cpu = "thread" /\ flag
  /\ \E l \in Deliverable :
       /\ \A m \in Deliverable : Rank(l) <= Rank(m)
       /\ irr' = irr \ {l}
       /\ isr' = isr \cup {l} \cup (IF IsSlave(l) THEN {CASCADE} ELSE {})
       /\ line' = l
  /\ flag' = FALSE
  /\ cpu' = "routine"
  /\ UNCHANGED <<scancodes, raised>>

(* keyboard_handler waits for a byte and reads it. *)
ReadScancode ==
  /\ scancodes > 0
  /\ scancodes' = scancodes - 1
  /\ irr' = IF scancodes > 1 THEN irr \cup {KEYBOARD} ELSE irr

Routine ==
  /\ cpu = "routine"
  /\ IF line \in Installed THEN ReadScancode ELSE UNCHANGED <<scancodes, irr>>
  /\ cpu' = "routineDone"
  /\ UNCHANGED <<flag, isr, line, raised>>

(* What an end of interrupt takes out of service: the first line of that   *)
(* controller.                                                             *)
First(S) == {l \in S : \A m \in S : l <= m}

(* The mistake: the slave is not told. *)
EndSlaveNot == isr

EndSlave == IF IsSlave(line) THEN isr \ First({l \in isr : IsSlave(l)}) ELSE isr

ToSlave ==
  /\ cpu = "routineDone"
  /\ isr' = EndSlave
  /\ cpu' = "slaveDone"
  /\ UNCHANGED <<flag, irr, line, scancodes, raised>>

(* The end of interrupt to the master, and iret. *)
ToMaster ==
  /\ cpu = "slaveDone"
  /\ isr' = isr \ First({l \in isr : ~IsSlave(l)})
  /\ cpu' = "thread"
  /\ flag' = TRUE
  /\ UNCHANGED <<irr, line, scancodes, raised>>

Handler == Accept \/ Routine \/ ToSlave \/ ToMaster
Device == Timer \/ Scancode

(* The thread runs when no request is taken first. *)
ThreadRuns == cpu = "thread" /\ ~(flag /\ Deliverable # {})

InterruptsTypeOK ==
  /\ flag \in BOOLEAN
  /\ irr \subseteq Lines
  /\ isr \subseteq Lines \cup {CASCADE}
  /\ cpu \in {"thread", "routine", "routineDone", "slaveDone"}
  /\ line \in Lines \cup {0}
  /\ scancodes \in Nat
  /\ raised \in 0..MaxRaised
=============================================================================
