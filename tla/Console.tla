------------------------------ MODULE Console ------------------------------
(***************************************************************************)
(* The line a user edits: getline of Kernel/System/stdio.c on the screen   *)
(* of Kernel/Drivers/terminal.c.  getline and the terminal keep what was   *)
(* typed twice, as a string and as cells of the screen with a cursor, and  *)
(* neither looks at the other.                                             *)
(*                                                                         *)
(* terminal_column is a size_t, and terminal_putentryat takes it as a      *)
(* uint8_t.  Colours are left out, and so is the port of the hardware      *)
(* cursor, which shows row and column.                                     *)
(***************************************************************************)
EXTENDS Integers, Sequences

CONSTANTS
  VGA_WIDTH, VGA_HEIGHT,
  UINT8,       \* the number of values of a uint8_t
  SIZE_T,      \* the number of values of a size_t
  Chars,       \* what is typed, but for backspace and Enter
  Blank,       \* a cell that shows nothing: a space or a NUL
  MaxPrinted,  \* bound: characters printed between two lines
  MaxLine      \* bound: characters of a line

ASSUME ConsoleAssumption ==
  /\ VGA_WIDTH \in Nat \ {0} /\ VGA_HEIGHT \in Nat \ {0}
  /\ VGA_WIDTH <= UINT8 /\ VGA_HEIGHT <= UINT8 /\ VGA_WIDTH < SIZE_T
  /\ {UINT8, SIZE_T, MaxPrinted, MaxLine} \subseteq Nat
  /\ Blank \notin Chars

VARIABLES
  terminal_row, terminal_column,
  screen,   \* cell -> character; cells behind VGA_HEIGHT rows do not show
  line,     \* the characters getline holds
  printed,  \* the number of characters printed since the last line
  pc        \* "kmain" or "getline"

vars == <<terminal_row, terminal_column, screen, line, printed, pc>>

Index(x, y) == (y % UINT8) * VGA_WIDTH + (x % UINT8)
Cells == 0..(VGA_HEIGHT - 1) * VGA_WIDTH + UINT8 - 1

(***************************************************************************)
(* The terminal as a value: putting a character gives the next one.        *)
(***************************************************************************)
Terminal == [row |-> terminal_row, column |-> terminal_column, cells |-> screen]

Becomes(t) ==
  /\ terminal_row' = t.row
  /\ terminal_column' = t.column
  /\ screen' = t.cells

(* The mistake: the last row is not cleared. *)
ScrollUncleared(cells) ==
  [i \in Cells |-> IF i < (VGA_HEIGHT - 1) * VGA_WIDTH THEN cells[i + VGA_WIDTH] ELSE cells[i]]

(* terminal_scroll *)
Scroll(cells) ==
  [i \in Cells |->
     IF i < (VGA_HEIGHT - 1) * VGA_WIDTH THEN cells[i + VGA_WIDTH]
     ELSE IF i < VGA_HEIGHT * VGA_WIDTH THEN Blank ELSE cells[i]]

(* The mistake: the cursor goes below the last row. *)
NewRowBelow(t) ==
  IF t.row = VGA_HEIGHT THEN [t EXCEPT !.column = 0, !.cells = Scroll(@)]
  ELSE [t EXCEPT !.column = 0, !.row = @ + 1]

(* A newline, and the end of a full row. *)
NewRow(t) ==
  IF t.row + 1 = VGA_HEIGHT THEN [t EXCEPT !.column = 0, !.cells = Scroll(@)]
  ELSE [t EXCEPT !.column = 0, !.row = @ + 1]

PutChar(t, c) ==
  LET put == [row |-> t.row, column |-> (t.column + 1) % SIZE_T,
              cells |-> [t.cells EXCEPT ![Index(t.column, t.row)] = c]]
  IN  IF put.column = VGA_WIDTH THEN NewRow(put) ELSE put

PutBackspace(t) ==
  LET column == (t.column - 1) % SIZE_T
  IN  [row |-> t.row, column |-> column,
       cells |-> [t.cells EXCEPT ![Index(column, t.row)] = Blank]]

(***************************************************************************)
(* kmain and getline                                                       *)
(***************************************************************************)
Init ==
  /\ terminal_row = 0 /\ terminal_column = 0
  /\ screen = [i \in Cells |-> Blank]
  /\ line = <<>>
  /\ printed = 0
  /\ pc = "kmain"

(* What a command answers, and the prompt: characters and newlines, so     *)
(* that a line starts in any column.                                       *)
Output ==
  /\ pc = "kmain"
  /\ printed < MaxPrinted
  /\ Becomes(PutChar(Terminal, ">")) \/ Becomes(NewRow(Terminal))
  /\ printed' = printed + 1
  /\ UNCHANGED <<line, pc>>

CallGetline ==
  /\ pc = "kmain"
  /\ pc' = "getline"
  /\ UNCHANGED <<terminal_row, terminal_column, screen, line, printed>>

Type(c) ==
  /\ pc = "getline"
  /\ Len(line) < MaxLine
  /\ line' = Append(line, c)
  /\ Becomes(PutChar(Terminal, c))
  /\ UNCHANGED <<printed, pc>>

(* The mistake: getline keeps the character that is deleted on the screen. *)
BackspaceKeepsLine ==
  /\ pc = "getline"
  /\ line # <<>>
  /\ Becomes(PutBackspace(Terminal))
  /\ UNCHANGED <<line, printed, pc>>

(* In column 0 this takes terminal_column below 0: the character in the    *)
(* row above stays on the screen, and the blank goes to the cell that the  *)
(* uint8_t of the column amounts to.                                       *)
Backspace ==
  /\ pc = "getline"
  /\ line # <<>>
  /\ line' = SubSeq(line, 1, Len(line) - 1)
  /\ Becomes(PutBackspace(Terminal))
  /\ UNCHANGED <<printed, pc>>

(* A backspace with nothing to delete. *)
BackspaceIgnored ==
  /\ pc = "getline"
  /\ line = <<>>
  /\ UNCHANGED vars

Enter ==
  /\ pc = "getline"
  /\ Becomes(NewRow(Terminal))
  /\ line' = <<>>
  /\ printed' = 0
  /\ pc' = "kmain"

(* The command cls: terminal_initialize. *)
Cls ==
  /\ pc = "kmain" /\ printed = 0
  /\ Becomes([row |-> 0, column |-> 0,
              cells |-> [i \in Cells |-> IF i < VGA_HEIGHT * VGA_WIDTH THEN Blank ELSE screen[i]]])
  /\ UNCHANGED <<line, printed, pc>>

Next ==
  \/ Output \/ CallGetline \/ Cls
  \/ \E c \in Chars : Type(c)
  \/ Backspace \/ BackspaceIgnored \/ Enter

Spec == Init /\ [][Next]_vars

(***************************************************************************)
(* A user who stays in the row: of a line that has wrapped, deletes the    *)
(* characters of its last row only.  Nothing in getline or in the terminal *)
(* keeps a user to that.                                                   *)
(***************************************************************************)
Deletion == pc = "getline" /\ pc' = "getline" /\ Len(line') < Len(line)

StaysInRow == Deletion => terminal_column > 0

RowSpec == Init /\ [][Next /\ StaysInRow]_vars

(***************************************************************************)
(* Properties                                                              *)
(***************************************************************************)

(* The type invariant of a user who stays in the row: the cursor on the    *)
(* screen, the line within bounds.                                         *)
TypeOK ==
  /\ terminal_row \in 0..VGA_HEIGHT - 1
  /\ terminal_column \in 0..VGA_WIDTH - 1
  /\ screen \in [Cells -> Chars \cup {Blank, ">"}]
  /\ line \in Seq(Chars) /\ Len(line) <= MaxLine
  /\ printed \in 0..MaxPrinted
  /\ pc \in {"kmain", "getline"}

(* Where cursor_update shows the cursor. *)
Cursor == terminal_row * VGA_WIDTH + terminal_column

(* For a user who stays in the row, what getline will return is what the   *)
(* user sees in front of the cursor: through wrapped rows, scrolling and   *)
(* deletions every character of the line that has not left the screen is   *)
(* in its cell.  A deletion over the left edge breaks it: the character it *)
(* takes from the line stays on the screen.                                *)
LineShown ==
  \A i \in 1..Len(line) :
    LET cell == Cursor - (Len(line) - i + 1)
    IN  cell >= 0 => cell \in Cells /\ screen[cell] = line[i]

(* For a user who stays in the row, nothing is shown behind the cursor:    *)
(* what was deleted or scrolled out does not come back.                    *)
BlankBehindCursor == \A i \in Cells : i >= Cursor => screen[i] = Blank
=============================================================================
