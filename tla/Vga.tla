-------------------------------- MODULE Vga --------------------------------
(***************************************************************************)
(* kernel/drivers/vga.h, kernel/vga_interface.h, kernel/vga_graphics.h and the  *)
(* line that kernel/kernel_header.h draws: the memory of the screen, and the     *)
(* interface that prints text into it.  Styles are left out.                 *)
(***************************************************************************)
EXTENDS Integers, Sequences

CONSTANTS
  Rows, Cols,  \* VGA_ROWS, VGA_COLS
  Byte,        \* the coordinates are 0 .. Byte - 1
  Char, Blank, \* what a cell shows
  Newline, Return,  \* '\n', '\r'
  Zero,        \* the digit 0
  Text,        \* what is printed in one call
  HeaderText,  \* the line at the top
  Corner,      \* the corners of rectangles, <<column, row>>
  Drawn,       \* what rectangles are drawn with
  ScrollBound  \* bound: how far the screen scrolls

VgaAssumption ==
  /\ Rows \in Nat \ {0} /\ Cols \in Nat \ {0} /\ Byte \in Nat
  /\ Rows < Byte /\ Cols < Byte /\ Newline # Return
  /\ Zero \in Char /\ Text \subseteq Seq(Char \cup {Newline, Return})
  /\ HeaderText \in Seq(Char) /\ Len(HeaderText) <= Cols
  /\ Corner \subseteq Nat \X Nat /\ Drawn \subseteq Char

VARIABLES
  mem,           \* the cells, row after row
  cursor,        \* xOffset and yOffset of the kernel's VgaInterface
  updateCursor,
  hw,            \* where the hardware shows the cursor
  paper, top,    \* history: what was printed, as on paper by row and column, and the row at
                 \* the top of the screen
  zeroPrinted    \* history: a 0 was printed as a number

vars == <<mem, cursor, updateCursor, hw, paper, top, zeroPrinted>>

Cell == 0 .. Rows * Cols - 1
Position(c) == (c.y * Cols + c.x) % (Byte * Byte)
BlankMem == [i \in Cell |-> Blank]
Seen(p, t) == [i \in Cell |-> IF <<t + i \div Cols, i % Cols>> \in DOMAIN p
                                THEN p[<<t + i \div Cols, i % Cols>>] ELSE Blank]

\* vga_create_interface, vga_clear_screen
Init ==
  /\ mem = BlankMem
  /\ cursor = [x |-> 0, y |-> 0] /\ updateCursor = TRUE /\ hw = 0
  /\ paper = [q \in {} |-> Blank] /\ top = 0 /\ zeroPrinted = FALSE

\* vga_driver_put_entry and vga_driver_put_char
PutAt(m, c, x, y) == IF x < Cols /\ y < Rows THEN [m EXCEPT ![y * Cols + x] = c] ELSE m

\* vga_scroll_up
ScrollUp(m) == [i \in Cell |-> IF i < (Rows - 1) * Cols THEN m[i + Cols] ELSE Blank]

\* A screen while it is printed to: [mem, x, y], with how far it has scrolled.
\* Mutant: the row is counted on past the last one.
NewlineNoReset(s) ==
  IF s.y + 1 >= Rows
    THEN [s EXCEPT !.x = 0, !.y = s.y + 1, !.mem = ScrollUp(s.mem), !.top = s.top + 1]
    ELSE [s EXCEPT !.x = 0, !.y = s.y + 1]
\* __vga_newline
BreakLine(s) ==
  IF (s.y + 1) % Byte >= Rows
    THEN [s EXCEPT !.x = 0, !.y = Rows - 1, !.mem = ScrollUp(s.mem), !.top = s.top + 1]
    ELSE [s EXCEPT !.x = 0, !.y = (s.y + 1) % Byte]

\* vga_print_char
PrintChar(s, c) ==
  LET put == [s EXCEPT !.mem = PutAt(s.mem, c, s.x, s.y),
                       !.paper = IF s.x < Cols /\ s.y < Rows
                                   THEN [q \in DOMAIN s.paper \cup {<<s.top + s.y, s.x>>} |->
                                           IF q = <<s.top + s.y, s.x>> THEN c ELSE s.paper[q]]
                                   ELSE s.paper,
                       !.x = (s.x + 1) % Byte]
  IN CASE c = Newline -> BreakLine(s)
       [] c = Return -> [s EXCEPT !.x = 0]
       [] OTHER -> IF put.x >= Cols THEN BreakLine(put) ELSE put

Screen == [mem |-> mem, x |-> cursor.x, y |-> cursor.y, paper |-> paper, top |-> top]
Show(s) ==
  /\ s.top <= ScrollBound
  /\ mem' = s.mem /\ cursor' = [x |-> s.x, y |-> s.y] /\ top' = s.top
  /\ paper' = [q \in {r \in DOMAIN s.paper : r[1] >= s.top} |-> s.paper[q]]

\* The text is printed character by character.
Printed(s, text) ==
  LET after[n \in 0 .. Len(text)] == IF n = 0 THEN s ELSE PrintChar(after[n - 1], text[n])
  IN after[Len(text)]

\* __vga_update_cursor
Update == hw' = IF updateCursor THEN Position(cursor') ELSE hw

\* vga_print, and the printing of a number that is not 0: the cursor is moved once.
PrintText(text) ==
  /\ Show(Printed(Screen, text))
  /\ Update
  /\ UNCHANGED <<updateCursor, zeroPrinted>>

\* vga_print_uint and vga_print_int of 0 return before they restore the flag.
PrintZero ==
  /\ Show(PrintChar(Screen, Zero))
  /\ updateCursor' = FALSE /\ zeroPrinted' = TRUE
  /\ UNCHANGED hw

\* vga_set_cursor_position, to a cell of the screen
SetCursor(x, y) ==
  /\ cursor' = [x |-> x, y |-> y]
  /\ Update
  /\ UNCHANGED <<mem, paper, top, updateCursor, zeroPrinted>>

\* vga_clear_screen
Clear ==
  /\ mem' = BlankMem
  /\ cursor' = [x |-> 0, y |-> 0]
  /\ Update
  /\ paper' = [q \in {} |-> Blank] /\ top' = 0
  /\ UNCHANGED <<updateCursor, zeroPrinted>>

\* kernel_draw_header: an interface of its own, which moves no cursor
DrawHeader ==
  LET blanked == [i \in Cell |-> IF i < Cols THEN Blank ELSE mem[i]]
      at(i) == <<top, i>>
  IN /\ mem' = [i \in Cell |-> IF i < Len(HeaderText) THEN HeaderText[i + 1] ELSE blanked[i]]
     /\ paper' = [q \in DOMAIN paper \cup {at(i) : i \in 0 .. Cols - 1} |->
                    IF q[1] = top THEN mem'[q[2]] ELSE paper[q]]
     /\ UNCHANGED <<cursor, updateCursor, hw, top, zeroPrinted>>

\* vga_gfx_draw_rect and vga_gfx_draw_border_rect; all their lines are one character
Border(p, q) ==
  {p, q, <<q[1], p[2]>>, <<p[1], q[2]>>}
    \cup {<<i, j>> : i \in p[1] + 1 .. q[1] - 1, j \in {p[2], q[2]}}
    \cup {<<i, j>> : i \in {p[1], q[1]}, j \in p[2] + 1 .. q[2] - 1}

OnScreen(S) == {b \in S : b[1] < Cols /\ b[2] < Rows}

DrawRect(p, q, c) ==
  /\ mem' = [i \in Cell |-> IF <<i % Cols, i \div Cols>> \in Border(p, q) THEN c ELSE mem[i]]
  /\ paper' = [z \in DOMAIN paper \cup {<<top + b[2], b[1]>> : b \in OnScreen(Border(p, q))} |->
                 IF <<z[2], z[1] - top>> \in Border(p, q) THEN c ELSE paper[z]]
  /\ UNCHANGED <<cursor, updateCursor, hw, top, zeroPrinted>>

Next ==
  \/ \E text \in Text : PrintText(text)
  \/ PrintZero
  \/ \E x \in 0 .. Cols - 1, y \in 0 .. Rows - 1 : SetCursor(x, y)
  \/ Clear
  \/ DrawHeader
  \/ \E p, q \in Corner, c \in Drawn : DrawRect(p, q, c)

Spec == Init /\ [][Next]_vars

-----------------------------------------------------------------------------
(* Properties *)

\* The cursor never leaves the screen, whatever is printed from wherever it was set.
TypeOK ==
  /\ mem \in [Cell -> Char \cup {Blank}]
  /\ cursor \in [x : 0 .. Cols - 1, y : 0 .. Rows - 1]
  /\ updateCursor \in BOOLEAN

\* The screen shows the last rows of all that was printed, with the header over its
\* first row, over any number of line breaks, wraps and scrolls.
ShowsLastRows == mem = Seen(paper, top)

\* The hardware's cursor is where the next character goes, until a 0 is printed as a
\* number: from then on nothing moves it.
HardwareFollows ==
  /\ updateCursor => hw = Position(cursor)
  /\ updateCursor \/ zeroPrinted
=============================================================================
