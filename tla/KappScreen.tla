----------------------------- MODULE KappScreen -----------------------------
(***************************************************************************)
(* kernel_apps/shared/kapp_screen.h: an app's part of the screen, a buffer    *)
(* that the app prints into and copies to the screen when it is done.  Styles   *)
(* are left out.                                                           *)
(***************************************************************************)
EXTENDS Integers, Sequences

CONSTANTS
  Rows, Cols,       \* VGA_ROWS, VGA_COLS
  Byte,             \* coordinates are 0 .. Byte - 1
  Char, Blank,      \* what a cell shows
  Newline, Return,
  Rect,             \* the parts of the screen that apps ask for
  Text,             \* what they print in one call
  ScrollBound       \* bound: how far a buffer scrolls

\* Rectu8, of a part that has a cell
Rectangle == [x : Nat, y : Nat, width : Nat \ {0}, height : Nat \ {0}]
Printable == Char \cup {Newline, Return}

KappScreenAssumption ==
  /\ Rows \in Nat \ {0} /\ Cols \in Nat \ {0} /\ Byte \in Nat /\ Rows < Byte /\ Cols < Byte
  /\ Rect \subseteq Rectangle
  /\ Newline \notin Char /\ Return \notin Char /\ Newline # Return /\ Text \subseteq Seq(Printable)

VARIABLES
  sb,       \* the KappScreenBuffer: [mem, x, y], with two histories: paper, what was
            \* written by row and column, and top, its row that is at the top
  rect,     \* sb.screenRect
  full,     \* the app asked for the whole screen
  screen,   \* the screen: the kernel's header is "header"
  hw,       \* where the hardware shows the cursor
  astray    \* history: the cursor was moved off the buffer, back or on

vars == <<sb, rect, full, screen, hw, astray>>

ScreenCell == (0 .. Cols - 1) \X (0 .. Rows - 1)
BlankMem == [i \in 0 .. rect.width * rect.height - 1 |-> Blank]
Empty == [q \in {} |-> Blank]
Cleared == [mem |-> BlankMem, x |-> 0, y |-> 0, paper |-> Empty, top |-> 0]

\* kapp_request_screen_buffer
Allowed(r, f) ==
  r.x + r.width <= Cols /\ r.y + r.height <= (IF f THEN Rows ELSE Rows - 1)
Placed(r, f) == IF f THEN r ELSE [r EXCEPT !.y = r.y + 1]

\* kapp_request_screen_buffer and kapp_create_screen_buff; the app clears the memory
\* it got before it shows it
Given(rects) ==
  \E r \in rects, f \in BOOLEAN :
    /\ Allowed(r, f)
    /\ rect = Placed(r, f) /\ full = f
    /\ sb = Cleared
    /\ screen = [c \in ScreenCell |-> IF c[2] = 0 THEN "header" ELSE Blank]
    /\ hw = <<0, 0>> /\ astray = FALSE
Init == Given(Rect)

\* kapp_screen_scroll_up
ScrollUp(m) ==
  [i \in DOMAIN m |-> IF i < (rect.height - 1) * rect.width THEN m[i + rect.width] ELSE Blank]

\* __kapp_screen_newline: one row up from where the cursor went, after scrolling
BreakLine(s) ==
  IF (s.y + 1) % Byte >= rect.height
    THEN [s EXCEPT !.x = 0, !.y = s.y, !.mem = ScrollUp(s.mem), !.top = s.top + 1]
    ELSE [s EXCEPT !.x = 0, !.y = (s.y + 1) % Byte]

\* kapp_screen_write_char_at
WriteAt(s, c) ==
  IF s.x < rect.width /\ s.y < rect.height
    THEN [s EXCEPT !.mem[s.y * rect.width + s.x] = c,
                   !.paper = [q \in DOMAIN s.paper \cup {<<s.top + s.y, s.x>>} |->
                                IF q = <<s.top + s.y, s.x>> THEN c ELSE s.paper[q]]]
    ELSE s

\* kapp_screen_write_char
WriteChar(s, c) ==
  LET put == [WriteAt(s, c) EXCEPT !.x = (s.x + 1) % Byte]
  IN CASE c = Newline -> BreakLine(s)
       [] c = Return -> [s EXCEPT !.x = 0]
       [] OTHER -> IF put.x >= rect.width THEN BreakLine(put) ELSE put

\* kapp_screen_write_str
Written(s, text) ==
  LET after[n \in 0 .. Len(text)] == IF n = 0 THEN s ELSE WriteChar(after[n - 1], text[n])
  IN after[Len(text)]

\* __kapp_screen_retreat_cursor
Retreated(s) ==
  IF s.x = 0 /\ s.y > 0 THEN [s EXCEPT !.y = s.y - 1, !.x = rect.width - 1]
                        ELSE [s EXCEPT !.x = (s.x - 1) % Byte]

\* __kapp_screen_advance_cursor
Advanced(s) ==
  LET x == (s.x + 1) % Byte
  IN IF x >= rect.width /\ s.y < rect.height THEN [s EXCEPT !.x = 0, !.y = s.y + 1]
                                             ELSE [s EXCEPT !.x = x]

Inside(s) == s.x < rect.width /\ s.y < rect.height

\* The history forgets the rows that have gone off the top.
Trimmed(s) == [s EXCEPT !.paper = [q \in {r \in DOMAIN s.paper : r[1] >= s.top} |-> s.paper[q]]]

Becomes(s) ==
  /\ s.top <= ScrollBound
  /\ sb' = Trimmed(s)
  /\ UNCHANGED <<rect, full, screen, hw>>
Moves(s) == Becomes(s) /\ astray' = (astray \/ ~Inside(s))

PrintText(text) == Becomes(Written(sb, text)) /\ UNCHANGED astray
Retreat == Moves(Retreated(sb))
Advance == Moves(Advanced(sb))
\* kapp_screen_set_cursor_position, inside the buffer
SetCursor(x, y) == Becomes([sb EXCEPT !.x = x, !.y = y]) /\ UNCHANGED astray
\* kapp_screen_clear
Clear == sb' = Cleared /\ astray' = FALSE /\ UNCHANGED <<rect, full, screen, hw>>

\* The cell of the buffer that is copied to a cell of the screen.
Source(c) == (c[2] - rect.y) * rect.width + (c[1] - rect.x)

Covered == {c \in ScreenCell : /\ c[1] - rect.x \in 0 .. rect.width - 1
                               /\ c[2] - rect.y \in 0 .. rect.height - 1}

\* kapp_flush_screen_buffer
Shown(s) == [c \in ScreenCell |-> IF c \in Covered THEN s.mem[Source(c)] ELSE screen[c]]
CursorShown(s) == <<(s.x + rect.x) % Byte, (s.y + rect.y) % Byte>>
Flush ==
  /\ screen' = Shown(sb) /\ hw' = CursorShown(sb)
  /\ UNCHANGED <<sb, rect, full, astray>>

Next ==
  \/ \E text \in Text : PrintText(text)
  \/ Retreat
  \/ Advance
  \/ \E x \in 0 .. rect.width - 1, y \in 0 .. rect.height - 1 : SetCursor(x, y)
  \/ Clear
  \/ Flush

Spec == Init /\ [][Next]_vars

-----------------------------------------------------------------------------
(* Properties *)

\* The memory is that of the rectangle, and the cursor is two bytes.
TypeOK ==
  /\ DOMAIN sb.mem = 0 .. rect.width * rect.height - 1
  /\ sb.x \in 0 .. Byte - 1 /\ sb.y \in 0 .. Byte - 1
  /\ astray \in BOOLEAN

\* Printing never takes the cursor off the buffer, over wraps and scrolls; only
\* moving it back past the first cell or on past the last one does.
PrintKeepsInside == astray \/ Inside(sb)

\* The buffer shows the last rows of what was printed, and nothing that is printed
\* while the cursor is astray.
ShowsLastRows ==
  \A i \in DOMAIN sb.mem :
    LET q == <<sb.top + (i \div rect.width), i % rect.width>>
    IN sb.mem[i] = IF q \in DOMAIN sb.paper THEN sb.paper[q] ELSE Blank

\* An app that does not own the whole screen never covers the kernel's header, and
\* never shows the cursor there.
HeaderKept ==
  ~full => /\ \A c \in ScreenCell : c[2] = 0 => screen[c] = "header"
           /\ hw = <<0, 0>> \/ hw[2] > 0
=============================================================================
