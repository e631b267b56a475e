--------------------------- MODULE ConsoleProofs ---------------------------
(***************************************************************************)
(* What getline holds is what the screen shows, for every size of the      *)
(* screen, of the integers and of the line, and for a user who stays in    *)
(* the row: a deletion over the left edge breaks it.                       *)
(*                                                                         *)
(* A terminal that puts a character or begins a row has its cursor that    *)
(* much further on and shows what it showed; or it has scrolled, and       *)
(* cursor and characters are up by one row.  The number of cells it has    *)
(* moved up is all that the proof needs to know of it.                     *)
(***************************************************************************)
EXTENDS Console, SequenceTheorems, TLAPS

Shown == Chars \cup {Blank, ">"}

Terminals == [row : 0..VGA_HEIGHT - 1, column : 0..VGA_WIDTH - 1, cells : [Cells -> Shown]]

(* The cell of the cursor. *)
Place(t) == t.row * VGA_WIDTH + t.column

(* Up to its cursor t shows the cells that were further down, and from it  *)
(* on nothing, or what was there.                                          *)
MovedUp(t, cells, up) ==
  \A i \in Cells :
    /\ i < Place(t) => i + up \in Cells /\ t.cells[i] = cells[i + up]
    /\ i >= Place(t) => t.cells[i] = Blank \/ (i >= Place(t) + up /\ t.cells[i] = cells[i])

ConsoleInv ==
  /\ TypeOK /\ LineShown /\ BlankBehindCursor
  /\ pc = "kmain" => line = <<>>

(***************************************************************************)
(* Cells                                                                   *)
(***************************************************************************)
LEMMA Monotone ==
  ASSUME NEW m \in Nat, NEW n \in Nat, NEW w \in Nat, m <= n
  PROVE  m * w <= n * w
  OBVIOUS

LEMMA Sizes ==
  /\ VGA_WIDTH \in Nat \ {0} /\ VGA_HEIGHT \in Nat \ {0} /\ UINT8 \in Nat /\ SIZE_T \in Nat
  /\ VGA_WIDTH <= UINT8 /\ VGA_HEIGHT <= UINT8 /\ VGA_WIDTH < SIZE_T
  BY ConsoleAssumption

LEMMA Rows ==
  ASSUME NEW y \in 0..VGA_HEIGHT - 1
  PROVE  /\ y * VGA_WIDTH \in Nat /\ (VGA_HEIGHT - 1) * VGA_WIDTH \in Nat
         /\ (y + 1) * VGA_WIDTH = y * VGA_WIDTH + VGA_WIDTH
         /\ y * VGA_WIDTH <= (VGA_HEIGHT - 1) * VGA_WIDTH
         /\ VGA_HEIGHT * VGA_WIDTH = (VGA_HEIGHT - 1) * VGA_WIDTH + VGA_WIDTH
  <1>1. y \in Nat /\ VGA_WIDTH \in Nat /\ VGA_HEIGHT \in Nat /\ VGA_HEIGHT - 1 \in Nat
    BY Sizes
  <1>2. y * VGA_WIDTH <= (VGA_HEIGHT - 1) * VGA_WIDTH
    BY <1>1, Monotone
  <1>3. \A n \in Nat : n * VGA_WIDTH \in Nat /\ (n + 1) * VGA_WIDTH = n * VGA_WIDTH + VGA_WIDTH
    BY <1>1
  <1>4. VGA_HEIGHT = (VGA_HEIGHT - 1) + 1
    BY <1>1
  <1> QED
    BY <1>1, <1>2, <1>3, <1>4

LEMMA Remainder ==
  ASSUME NEW a \in Nat, NEW n \in Nat, a < n
  PROVE  a % n = a
  OBVIOUS

LEMMA IndexOf ==
  ASSUME NEW x \in 0..VGA_WIDTH - 1, NEW y \in 0..VGA_HEIGHT - 1
  PROVE  Index(x, y) = y * VGA_WIDTH + x /\ Index(x, y) \in Cells
  <1>1. x % UINT8 = x /\ y % UINT8 = y
    BY Sizes, Remainder
  <1>2. Index(x, y) = y * VGA_WIDTH + x
    BY <1>1 DEF Index
  <1> HIDE DEF Index
  <1> QED
    BY <1>2, Rows, Sizes DEF Cells

(* Every cell in front of a cursor is one of the screen. *)
LEMMA InFront ==
  ASSUME NEW t \in Terminals
  PROVE  /\ Place(t) \in Cells /\ Place(t) <= VGA_HEIGHT * VGA_WIDTH - 1
         /\ \A i \in Nat : i <= Place(t) => i \in Cells
  <1>1. t.row \in 0..VGA_HEIGHT - 1 /\ t.column \in 0..VGA_WIDTH - 1
    BY DEF Terminals
  <1> QED
    BY <1>1, Rows, Sizes DEF Place, Cells

(***************************************************************************)
(* The terminal                                                            *)
(***************************************************************************)
LEMMA NewRowEffect ==
  ASSUME NEW t, NEW y \in 0..VGA_HEIGHT - 1, NEW x, NEW cells \in [Cells -> Shown],
         t = [row |-> y, column |-> x, cells |-> cells]
  PROVE  \E up \in Nat : /\ NewRow(t) \in Terminals
                         /\ Place(NewRow(t)) = (y + 1) * VGA_WIDTH - up
                         /\ MovedUp(NewRow(t), cells, up)
  <1>1. CASE y + 1 = VGA_HEIGHT
    <2>1. NewRow(t) = [row |-> y, column |-> 0, cells |-> Scroll(cells)]
      BY <1>1 DEF NewRow
    <2>2. y * VGA_WIDTH \in Nat /\ VGA_HEIGHT * VGA_WIDTH = y * VGA_WIDTH + VGA_WIDTH
          /\ (VGA_HEIGHT - 1) * VGA_WIDTH = y * VGA_WIDTH
      BY <1>1, Rows, Sizes
    <2> DEFINE last == (VGA_HEIGHT - 1) * VGA_WIDTH
    <2>0. /\ last \in Nat /\ y * VGA_WIDTH = last /\ VGA_HEIGHT * VGA_WIDTH = last + VGA_WIDTH
          /\ Cells = 0..last + UINT8 - 1
      BY <2>2 DEF Cells
    <2> HIDE DEF last
    <2>3. \A i \in Cells : i < y * VGA_WIDTH => i + VGA_WIDTH \in Cells
      BY <2>0, Sizes
    <2>4. /\ Scroll(cells) \in [Cells -> Shown]
          /\ \A i \in Cells :
               /\ i < y * VGA_WIDTH => Scroll(cells)[i] = cells[i + VGA_WIDTH]
               /\ i >= y * VGA_WIDTH =>
                    \/ Scroll(cells)[i] = Blank
                    \/ i >= y * VGA_WIDTH + VGA_WIDTH /\ Scroll(cells)[i] = cells[i]
      <3>1. Scroll(cells) = [i \in Cells |-> IF i < last THEN cells[i + VGA_WIDTH]
                                             ELSE IF i < last + VGA_WIDTH THEN Blank ELSE cells[i]]
        BY <2>0 DEF Scroll, last
      <3>2. \A i \in Cells : cells[i] \in Shown /\ (i < last => cells[i + VGA_WIDTH] \in Shown)
        BY <2>0, <2>3
      <3>3. Blank \in Shown
        BY DEF Shown
      <3>4. Scroll(cells) \in [Cells -> Shown]
        BY <3>1, <3>2, <3>3
      <3>5. ASSUME NEW i \in Cells
            PROVE  /\ i < last => Scroll(cells)[i] = cells[i + VGA_WIDTH]
                   /\ i >= last => \/ Scroll(cells)[i] = Blank
                                   \/ i >= last + VGA_WIDTH /\ Scroll(cells)[i] = cells[i]
        BY <2>0, <3>1, Sizes
      <3> QED
        BY <2>0, <3>4, <3>5
    <2>5. NewRow(t) \in Terminals
      BY <2>1, <2>4, Sizes DEF Terminals
    <2>6. Place(NewRow(t)) = y * VGA_WIDTH
      BY <2>1, <2>2 DEF Place
    <2>7. MovedUp(NewRow(t), cells, VGA_WIDTH)
      BY <2>1, <2>3, <2>4, <2>6 DEF MovedUp
    <2>8. y * VGA_WIDTH = (y + 1) * VGA_WIDTH - VGA_WIDTH
      BY <2>2, Rows, Sizes
    <2> QED
      BY <2>5, <2>6, <2>7, <2>8, Sizes
  <1>2. CASE y + 1 # VGA_HEIGHT
    <2>1. NewRow(t) = [row |-> y + 1, column |-> 0, cells |-> cells]
      BY <1>2 DEF NewRow
    <2>2. y + 1 \in 0..VGA_HEIGHT - 1
      BY <1>2, Sizes
    <2>3. NewRow(t) \in Terminals
      BY <2>1, <2>2, Sizes DEF Terminals
    <2>4. Place(NewRow(t)) = (y + 1) * VGA_WIDTH /\ (y + 1) * VGA_WIDTH \in Nat
      BY <2>1, <2>2, Rows DEF Place
    <2>5. \A i \in Cells : i + 0 = i
      BY DEF Cells
    <2>6. MovedUp(NewRow(t), cells, 0)
      BY <2>1, <2>4, <2>5 DEF MovedUp
    <2> QED
      BY <2>3, <2>4, <2>6
  <1> QED
    BY <1>1, <1>2

LEMMA TerminalOk ==
  ASSUME TypeOK
  PROVE  /\ Terminal \in Terminals /\ Place(Terminal) = Cursor
         /\ Cursor \in Nat /\ Cursor \in Cells
         /\ Index(terminal_column, terminal_row) = Cursor
  <1>1. Terminal \in Terminals /\ Place(Terminal) = Cursor
    BY DEF TypeOK, Terminal, Terminals, Place, Cursor, Shown
  <1>2. Index(terminal_column, terminal_row) = Cursor /\ Cursor \in Cells
    BY IndexOf DEF TypeOK, Cursor
  <1>3. Cursor \in Nat
    BY Rows, Sizes DEF TypeOK, Cursor
  <1> QED
    BY <1>1, <1>2, <1>3

LEMMA PutCharEffect ==
  ASSUME TypeOK, NEW c \in Shown
  PROVE  \E up \in Nat : /\ PutChar(Terminal, c) \in Terminals
                         /\ Place(PutChar(Terminal, c)) = Cursor + 1 - up
                         /\ MovedUp(PutChar(Terminal, c), [screen EXCEPT ![Cursor] = c], up)
  <1> DEFINE cells == [screen EXCEPT ![Cursor] = c]
             put == [row |-> terminal_row, column |-> terminal_column + 1, cells |-> cells]
  <1>1. terminal_column \in 0..VGA_WIDTH - 1 /\ terminal_row \in 0..VGA_HEIGHT - 1
        /\ (terminal_column + 1) % SIZE_T = terminal_column + 1
    BY Sizes, Remainder DEF TypeOK
  <1>2. PutChar(Terminal, c) = IF put.column = VGA_WIDTH THEN NewRow(put) ELSE put
    BY <1>1, TerminalOk DEF PutChar, Terminal
  <1>3. cells \in [Cells -> Shown]
    BY DEF TypeOK, Shown
  <1> HIDE DEF cells
  <1>4. CASE terminal_column + 1 = VGA_WIDTH
    <2>1. PICK up \in Nat : /\ NewRow(put) \in Terminals
                           /\ Place(NewRow(put)) = (terminal_row + 1) * VGA_WIDTH - up
                           /\ MovedUp(NewRow(put), cells, up)
      BY <1>1, <1>3, NewRowEffect
    <2>2. (terminal_row + 1) * VGA_WIDTH = Cursor + 1
      BY <1>1, <1>4, Rows, Sizes DEF Cursor
    <2>3. PutChar(Terminal, c) = NewRow(put)
      BY <1>2, <1>4
    <2> HIDE DEF put
    <2>4. Place(PutChar(Terminal, c)) = Cursor + 1 - up
      BY <2>1, <2>2, <2>3, TerminalOk
    <2> QED
      BY <2>1, <2>3, <2>4 DEF cells
  <1>5. CASE terminal_column + 1 # VGA_WIDTH
    <2>1. PutChar(Terminal, c) = put
      BY <1>2, <1>5
    <2>2. put \in Terminals
      BY <1>1, <1>3, <1>5, Sizes DEF Terminals
    <2>3. Place(put) = Cursor + 1
      BY <1>1, Rows, Sizes DEF Place, Cursor
    <2>4. \A i \in Cells : i + 0 = i
      BY DEF Cells
    <2>5. MovedUp(put, cells, 0)
      BY <2>3, <2>4, TerminalOk DEF MovedUp
    <2> QED
      BY <2>1, <2>2, <2>3, <2>5, TerminalOk DEF cells
  <1> QED
    BY <1>4, <1>5

(***************************************************************************)
(* Steps                                                                   *)
(***************************************************************************)

(* What becomes of the line and of the cells behind the cursor when the    *)
(* terminal has put c, or with c = Blank begun a row, in the cells it had. *)
LEMMA TypeKept ==
  ASSUME NEW t \in Terminals, Becomes(t)
  PROVE  /\ terminal_row' \in 0..VGA_HEIGHT - 1 /\ terminal_column' \in 0..VGA_WIDTH - 1
         /\ screen' \in [Cells -> Chars \cup {Blank, ">"}]
         /\ Cursor' = Place(t) /\ screen' = t.cells
  BY DEF Terminals, Becomes, Cursor, Place, Shown

LEMMA LinePut ==
  ASSUME ConsoleInv, NEW c \in Chars, NEW t \in Terminals, NEW up \in Nat,
         Place(t) = Cursor + 1 - up,
         MovedUp(t, [screen EXCEPT ![Cursor] = c], up),
         Becomes(t), line' = Append(line, c)
  PROVE  LineShown'
  <1>1. line \in Seq(Chars) /\ Len(line) \in Nat /\ Len(line') = Len(line) + 1
        /\ \A j \in 1..Len(line') : line'[j] = IF j <= Len(line) THEN line[j] ELSE c
    BY DEF ConsoleInv, TypeOK
  <1>2. Cursor' = Place(t) /\ screen' = t.cells
    BY TypeKept
  <1>3. Cursor \in Nat /\ Cursor \in Cells /\ screen \in [Cells -> Shown]
    BY TerminalOk DEF ConsoleInv, TypeOK, Shown
  <1> SUFFICES ASSUME NEW j \in 1..Len(line'), Cursor' - (Len(line') - j + 1) >= 0
               PROVE  /\ Cursor' - (Len(line') - j + 1) \in Cells
                      /\ screen'[Cursor' - (Len(line') - j + 1)] = line'[j]
    BY DEF LineShown
  <1> DEFINE cell == Cursor' - (Len(line') - j + 1)
             old == Cursor - (Len(line) - j + 1)
  <1>4. j \in Nat /\ cell \in Nat /\ cell < Place(t) /\ cell + up = old
    BY <1>1, <1>2, <1>3
  <1> HIDE DEF cell
  <1>5. cell \in Cells
    <2>1. \A i \in Nat : i <= Place(t) => i \in Cells
      BY InFront
    <2>2. cell <= Place(t)
      BY <1>1, <1>2, <1>3, <1>4
    <2> QED
      BY <1>4, <2>1, <2>2
  <1>6. old \in Cells /\ t.cells[cell] = [screen EXCEPT ![Cursor] = c][old]
    BY <1>4, <1>5 DEF MovedUp
  <1>9. screen'[cell] = [screen EXCEPT ![Cursor] = c][old]
    BY <1>2, <1>6
  <1>7. CASE j <= Len(line)
    <2>1. j \in 1..Len(line) /\ old >= 0 /\ old # Cursor
      BY <1>1, <1>3, <1>4, <1>7
    <2>2. screen[old] = line[j]
      BY <2>1 DEF ConsoleInv, LineShown
    <2> QED
      BY <1>1, <1>3, <1>5, <1>6, <1>7, <1>9, <2>1, <2>2 DEF cell
  <1>8. CASE ~(j <= Len(line))
    <2>1. j = Len(line) + 1
      BY <1>1, <1>4, <1>8
    <2>2. old = Cursor
      BY <1>1, <1>3, <2>1
    <2> QED
      BY <1>1, <1>3, <1>5, <1>6, <1>8, <1>9, <2>2 DEF cell
  <1> QED
    BY <1>7, <1>8

(* Behind the cursor nothing shows, wherever the cursor moves on to. *)
LEMMA BlankPut ==
  ASSUME ConsoleInv, NEW t \in Terminals, NEW up \in Nat, NEW cells,
         Place(t) + up > Cursor,
         \A i \in Cells : i > Cursor => cells[i] = Blank,
         MovedUp(t, cells, up), Becomes(t)
  PROVE  BlankBehindCursor'
  <1>1. Cursor' = Place(t) /\ screen' = t.cells
    BY TypeKept
  <1>2. Cursor \in Nat /\ Place(t) \in Nat
    BY TerminalOk, InFront DEF ConsoleInv, Cells
  <1> SUFFICES ASSUME NEW i \in Cells, i >= Place(t) PROVE t.cells[i] = Blank
    BY <1>1 DEF BlankBehindCursor
  <1>3. t.cells[i] = Blank \/ (i >= Place(t) + up /\ t.cells[i] = cells[i])
    BY DEF MovedUp
  <1>4. i >= Place(t) + up => i > Cursor
    BY <1>2 DEF Cells
  <1> QED
    BY <1>3, <1>4

(* With an empty line there is nothing to show. *)
LEMMA LineEmpty == line' = <<>> => LineShown'
  BY DEF LineShown

LEMMA PutCells ==
  ASSUME ConsoleInv, NEW c
  PROVE  \A i \in Cells : i > Cursor => [screen EXCEPT ![Cursor] = c][i] = Blank
  <1>1. Cursor \in Nat /\ screen \in [Cells -> Shown] /\ Cells \subseteq Int
    BY TerminalOk DEF ConsoleInv, TypeOK, Shown, Cells
  <1> QED
    BY <1>1 DEF ConsoleInv, BlankBehindCursor

LEMMA InvNewRow ==
  ASSUME ConsoleInv, Becomes(NewRow(Terminal)), line' = <<>>,
         printed' \in 0..MaxPrinted, pc' \in {"kmain", "getline"}
  PROVE  ConsoleInv'
  <1>1. /\ terminal_row \in 0..VGA_HEIGHT - 1 /\ terminal_column \in 0..VGA_WIDTH - 1
        /\ screen \in [Cells -> Shown]
    BY DEF ConsoleInv, TypeOK, Shown
  <1>2. PICK up \in Nat : /\ NewRow(Terminal) \in Terminals
                         /\ Place(NewRow(Terminal)) = (terminal_row + 1) * VGA_WIDTH - up
                         /\ MovedUp(NewRow(Terminal), screen, up)
    BY <1>1, NewRowEffect DEF Terminal
  <1>3. (terminal_row + 1) * VGA_WIDTH \in Nat /\ (terminal_row + 1) * VGA_WIDTH > Cursor
    BY <1>1, Rows, Sizes DEF Cursor
  <1>4. Cursor \in Nat /\ \A i \in Cells : i > Cursor => screen[i] = Blank
    BY TerminalOk DEF ConsoleInv, BlankBehindCursor, Cells
  <1>5. Place(NewRow(Terminal)) + up > Cursor
    BY <1>2, <1>3, <1>4
  <1>6. BlankBehindCursor'
    BY <1>2, <1>4, <1>5, BlankPut
  <1>7. TypeOK'
    BY <1>2, TypeKept, ConsoleAssumption DEF TypeOK
  <1> QED
    BY <1>6, <1>7, LineEmpty DEF ConsoleInv

LEMMA BlankAfterPut ==
  ASSUME ConsoleInv, NEW c \in Shown, NEW t \in Terminals, NEW up \in Nat,
         Place(t) = Cursor + 1 - up,
         MovedUp(t, [screen EXCEPT ![Cursor] = c], up), Becomes(t)
  PROVE  BlankBehindCursor'
  <1>1. Cursor \in Nat
    BY TerminalOk DEF ConsoleInv
  <1>2. Place(t) + up > Cursor
    BY <1>1
  <1> QED
    BY <1>2, PutCells, BlankPut

(* A character of the line is put. *)
LEMMA InvType ==
  ASSUME ConsoleInv, NEW c \in Chars, Type(c)
  PROVE  ConsoleInv'
  <1>1. /\ Becomes(PutChar(Terminal, c)) /\ line' = Append(line, c) /\ Len(line) < MaxLine
        /\ UNCHANGED <<printed, pc>> /\ pc = "getline" /\ c \in Shown
    BY DEF Type, Shown
  <1>2. PICK up \in Nat : /\ PutChar(Terminal, c) \in Terminals
                         /\ Place(PutChar(Terminal, c)) = Cursor + 1 - up
                         /\ MovedUp(PutChar(Terminal, c), [screen EXCEPT ![Cursor] = c], up)
    BY <1>1, PutCharEffect DEF ConsoleInv
  <1>3. BlankBehindCursor'
    BY <1>1, <1>2, BlankAfterPut
  <1>4. LineShown'
    BY <1>1, <1>2, LinePut
  <1>5. line' \in Seq(Chars) /\ Len(line') <= MaxLine
    <2>1. line \in Seq(Chars) /\ MaxLine \in Nat
      BY ConsoleAssumption DEF ConsoleInv, TypeOK
    <2> QED
      BY <1>1, <2>1
  <1>6. TypeOK'
    BY <1>1, <1>2, <1>5, TypeKept DEF TypeOK, ConsoleInv
  <1> QED
    BY <1>1, <1>3, <1>4, <1>6 DEF ConsoleInv

LEMMA InvOutput ==
  ASSUME ConsoleInv, Output
  PROVE  ConsoleInv'
  <1>1. line' = <<>> /\ pc' = "kmain" /\ printed' \in 0..MaxPrinted /\ ">" \in Shown
    BY ConsoleAssumption DEF Output, ConsoleInv, TypeOK, Shown
  <1>2. CASE Becomes(PutChar(Terminal, ">"))
    <2>1. PICK up \in Nat : /\ PutChar(Terminal, ">") \in Terminals
                           /\ Place(PutChar(Terminal, ">")) = Cursor + 1 - up
                           /\ MovedUp(PutChar(Terminal, ">"), [screen EXCEPT ![Cursor] = ">"], up)
      BY <1>1, PutCharEffect DEF ConsoleInv
    <2>2. BlankBehindCursor'
      BY <1>1, <1>2, <2>1, BlankAfterPut
    <2>3. TypeOK'
      BY <1>1, <1>2, <2>1, TypeKept, ConsoleAssumption DEF TypeOK
    <2> QED
      BY <1>1, <2>2, <2>3, LineEmpty DEF ConsoleInv
  <1>3. CASE Becomes(NewRow(Terminal))
    BY <1>1, <1>3, InvNewRow
  <1> QED
    BY <1>2, <1>3 DEF Output

LEMMA InvBackspace == ConsoleInv /\ terminal_column > 0 /\ Backspace => ConsoleInv'
  <1> SUFFICES ASSUME ConsoleInv, terminal_column > 0, Backspace PROVE ConsoleInv'
    OBVIOUS
  <1>1. /\ terminal_row \in 0..VGA_HEIGHT - 1 /\ terminal_column \in 1..VGA_WIDTH - 1
        /\ screen \in [Cells -> Shown] /\ line \in Seq(Chars) /\ line # <<>> /\ Len(line) <= MaxLine
        /\ Cursor \in Nat /\ MaxLine \in Nat
    BY TerminalOk, Sizes, ConsoleAssumption DEF ConsoleInv, TypeOK, Backspace, Shown
  <1>2. terminal_column - 1 \in 0..VGA_WIDTH - 1
        /\ (terminal_column - 1) % SIZE_T = terminal_column - 1
    <2>1. /\ terminal_column - 1 \in 0..VGA_WIDTH - 1 /\ terminal_column - 1 \in Nat
          /\ terminal_column - 1 < SIZE_T /\ SIZE_T \in Nat
      BY <1>1, Sizes
    <2> QED
      BY <2>1, Remainder
  <1>3. Index(terminal_column - 1, terminal_row) = Cursor - 1 /\ Cursor - 1 \in Cells
    <2>1. /\ Index(terminal_column - 1, terminal_row)
               = terminal_row * VGA_WIDTH + (terminal_column - 1)
          /\ Index(terminal_column - 1, terminal_row) \in Cells
      BY <1>1, <1>2, IndexOf
    <2>2. terminal_row * VGA_WIDTH \in Nat
      BY <1>1, Rows
    <2>3. Cursor - 1 = terminal_row * VGA_WIDTH + (terminal_column - 1)
      BY <1>1, <2>2 DEF Cursor
    <2> QED
      BY <2>1, <2>3
  <1>4. /\ terminal_row' = terminal_row /\ terminal_column' = terminal_column - 1
        /\ screen' = [screen EXCEPT ![Cursor - 1] = Blank]
        /\ line' = SubSeq(line, 1, Len(line) - 1)
        /\ UNCHANGED <<printed, pc>> /\ pc = "getline"
    BY <1>2, <1>3 DEF Backspace, Becomes, PutBackspace, Terminal
  <1>5. Cursor' = Cursor - 1
    BY <1>1, <1>4, Rows, Sizes DEF Cursor
  <1>6. Len(line) \in Nat \ {0} /\ line' \in Seq(Chars) /\ Len(line') = Len(line) - 1
        /\ \A j \in 1..Len(line') : line'[j] = line[j]
    <2>1. Len(line) \in Nat \ {0} /\ Len(line) - 1 \in Nat /\ 1..Len(line) - 1 \subseteq 1..Len(line)
      BY <1>1
    <2>2. /\ SubSeq(line, 1, Len(line) - 1) \in Seq(Chars)
          /\ Len(SubSeq(line, 1, Len(line) - 1)) = Len(line) - 1
          /\ \A j \in 1..Len(line) - 1 : SubSeq(line, 1, Len(line) - 1)[j] = line[j]
      <3>1. \A j \in 1..Len(line) - 1 : line[j] \in Chars /\ 1 + j - 1 = j
        BY <1>1, <2>1
      <3> DEFINE n == Len(line) - 1
      <3>2. n \in Nat /\ \A j \in 1..n : line[j] \in Chars
        BY <2>1, <3>1
      <3> HIDE DEF n
      <3>3. /\ SubSeq(line, 1, n) \in Seq(Chars)
            /\ Len(SubSeq(line, 1, n)) = IF 1 <= n THEN n - 1 + 1 ELSE 0
            /\ \A j \in 1..n - 1 + 1 : SubSeq(line, 1, n)[j] = line[1 + j - 1]
        BY <3>2, SubSeqProperties
      <3>4. /\ SubSeq(line, 1, n) \in Seq(Chars) /\ Len(SubSeq(line, 1, n)) = n
            /\ \A j \in 1..n : SubSeq(line, 1, n)[j] = line[j]
        BY <3>2, <3>3
      <3> QED
        BY <3>4 DEF n
    <2>3. line' = SubSeq(line, 1, Len(line) - 1)
      BY <1>4
    <2> QED
      BY <2>1, <2>2, <2>3
  <1>7. TypeOK'
    <2>1. screen' \in [Cells -> Shown]
      BY <1>1, <1>4 DEF Shown
    <2> QED
      BY <1>1, <1>2, <1>4, <1>6, <2>1 DEF TypeOK, ConsoleInv, Shown
  <1>8. BlankBehindCursor'
    <2>1. \A i \in Cells : i >= Cursor - 1 => i = Cursor - 1 \/ i >= Cursor
      BY <1>1 DEF Cells
    <2> QED
      BY <1>1, <1>3, <1>4, <1>5, <2>1 DEF BlankBehindCursor, ConsoleInv
  <1>9. LineShown'
    <2> SUFFICES ASSUME NEW j \in 1..Len(line'), Cursor' - (Len(line') - j + 1) >= 0
                 PROVE  /\ Cursor' - (Len(line') - j + 1) \in Cells
                        /\ screen'[Cursor' - (Len(line') - j + 1)] = line'[j]
      BY DEF LineShown
    <2> DEFINE cell == Cursor - (Len(line) - j + 1)
    <2>1. Cursor' - (Len(line') - j + 1) = cell /\ j \in 1..Len(line) /\ cell # Cursor - 1
      BY <1>1, <1>5, <1>6
    <2>2. cell \in Cells /\ screen[cell] = line[j]
      BY <2>1 DEF ConsoleInv, LineShown
    <2> HIDE DEF cell
    <2> QED
      BY <1>1, <1>4, <1>6, <2>1, <2>2
  <1> QED
    BY <1>4, <1>7, <1>8, <1>9 DEF ConsoleInv

LEMMA InvCls == ConsoleInv /\ Cls => ConsoleInv'
  <1> SUFFICES ASSUME ConsoleInv, Cls PROVE ConsoleInv'
    OBVIOUS
  <1>1. /\ terminal_row' = 0 /\ terminal_column' = 0
        /\ screen' = [i \in Cells |-> IF i < VGA_HEIGHT * VGA_WIDTH THEN Blank ELSE screen[i]]
        /\ UNCHANGED <<line, printed, pc>> /\ line = <<>>
    BY DEF Cls, Becomes, ConsoleInv
  <1>2. screen \in [Cells -> Shown] /\ Cursor <= VGA_HEIGHT * VGA_WIDTH - 1
        /\ Cursor \in Nat /\ VGA_HEIGHT * VGA_WIDTH \in Nat
    BY TerminalOk, InFront, Sizes DEF ConsoleInv, TypeOK, Shown
  <1>3. screen' \in [Cells -> Shown]
    BY <1>1, <1>2 DEF Shown
  <1>4. TypeOK'
    BY <1>1, <1>3, Sizes DEF TypeOK, ConsoleInv, Shown
  <1>5. BlankBehindCursor'
    <2>1. \A i \in Cells : i >= VGA_HEIGHT * VGA_WIDTH => i >= Cursor
      BY <1>2 DEF Cells
    <2>2. \A i \in Cells : screen'[i] = Blank
      BY <1>1, <1>2, <2>1 DEF ConsoleInv, BlankBehindCursor, Cells
    <2> QED
      BY <2>2 DEF BlankBehindCursor
  <1> QED
    BY <1>1, <1>4, <1>5, LineEmpty DEF ConsoleInv

LEMMA InvInit == Init => ConsoleInv
  <1> SUFFICES ASSUME Init PROVE ConsoleInv
    OBVIOUS
  <1>1. TypeOK
    BY Sizes, ConsoleAssumption DEF Init, TypeOK
  <1> QED
    BY <1>1 DEF Init, ConsoleInv, LineShown, BlankBehindCursor

(* A backspace within the row. *)
LEMMA BackspaceInRow ==
  ASSUME TypeOK, Backspace, StaysInRow
  PROVE  terminal_column > 0
  <1>1. line \in Seq(Chars) /\ line # <<>> /\ line' = SubSeq(line, 1, Len(line) - 1)
    BY DEF TypeOK, Backspace
  <1>2. Len(line) \in Nat /\ Len(line) # 0
    BY <1>1
  <1>3. Len(SubSeq(line, 1, Len(line) - 1)) = Len(line) - 1
    <2>1. PICK n : n = Len(line) - 1
      OBVIOUS
    <2>2. n \in Nat /\ \A j \in 1..n : line[j] \in Chars
      BY <1>1, <1>2, <2>1
    <2>3. Len(SubSeq(line, 1, n)) = IF 1 <= n THEN n - 1 + 1 ELSE 0
      BY <2>2, SubSeqProperties
    <2> QED
      BY <2>1, <2>2, <2>3
  <1>4. Len(line') < Len(line)
    BY <1>1, <1>2, <1>3
  <1> QED
    BY <1>4 DEF Backspace, StaysInRow, Deletion

LEMMA InvNext == ConsoleInv /\ [Next /\ StaysInRow]_vars => ConsoleInv'
  <1> SUFFICES ASSUME ConsoleInv, [Next /\ StaysInRow]_vars PROVE ConsoleInv'
    OBVIOUS
  <1>1. CASE Output
    BY <1>1, InvOutput
  <1>2. CASE Cls
    BY <1>2, InvCls
  <1>3. ASSUME NEW c \in Chars, Type(c) PROVE ConsoleInv'
    BY <1>3, InvType
  <1>4. CASE Backspace /\ StaysInRow
    BY <1>4, BackspaceInRow, InvBackspace DEF ConsoleInv
  <1>5. CASE Enter
    <2>1. Becomes(NewRow(Terminal)) /\ line' = <<>> /\ pc' = "kmain" /\ printed' \in 0..MaxPrinted
      BY <1>5, ConsoleAssumption DEF Enter
    <2> QED
      BY <2>1, InvNewRow
  <1>6. CASE CallGetline \/ UNCHANGED vars
    <2>1. /\ UNCHANGED <<terminal_row, terminal_column, screen, line, printed>>
          /\ pc' = pc \/ pc' = "getline"
      BY <1>6 DEF CallGetline, vars
    <2> QED
      BY <2>1 DEF ConsoleInv, TypeOK, LineShown, BlankBehindCursor, Cursor
  <1> QED
    BY <1>1, <1>2, <1>3, <1>4, <1>5, <1>6 DEF Next, BackspaceIgnored

(***************************************************************************)
(* Theorems                                                                *)
(***************************************************************************)
THEOREM Invariance == RowSpec => []ConsoleInv
  BY InvInit, InvNext, PTL DEF RowSpec

(* For a user who never deletes over the left edge of the screen, the      *)
(* cursor stays on the screen and no character is written outside it.      *)
THEOREM TypeCorrect == RowSpec => []TypeOK
  <1>1. ConsoleInv => TypeOK
    BY DEF ConsoleInv
  <1> QED
    BY <1>1, Invariance, PTL

(* For such a user, what getline will return is what is in front of the    *)
(* cursor, however the line was typed, wrapped, scrolled and, within its   *)
(* last row, deleted.                                                      *)
THEOREM WhatYouSee == RowSpec => []LineShown
  <1>1. ConsoleInv => LineShown
    BY DEF ConsoleInv
  <1> QED
    BY <1>1, Invariance, PTL

(* For such a user, nothing that was deleted or scrolled out shows behind  *)
(* the cursor.                                                             *)
THEOREM NothingBehind == RowSpec => []BlankBehindCursor
  <1>1. ConsoleInv => BlankBehindCursor
    BY DEF ConsoleInv
  <1> QED
    BY <1>1, Invariance, PTL
=============================================================================
