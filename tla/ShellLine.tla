----------------------------- MODULE ShellLine -----------------------------
(***************************************************************************)
(* The loop of kapp_shell (kernel_apps/shell/shell_main.h): the line that is     *)
(* edited, and how the shell rewrites it on its part of the screen after each     *)
(* key.  A command is what it prints; see ShellCommand for how it is run.     *)
(***************************************************************************)
EXTENDS KappScreen, SequencesExt

CONSTANTS
  ShellRect,   \* the part of the screen that the shell asks for
  Typed,       \* the characters that are typed
  Prompt,      \* "shell> "
  QuitLine,    \* the line "quit"
  Output,      \* what commands print
  Junk,        \* what the line's memory may hold before it is written
  LineBound,   \* bound: the length of the line
  ShellScrollBound  \* bound: how far the shell's buffer scrolls

ShellAssumption ==
  /\ ShellRect \subseteq Rectangle /\ LineBound \in Nat
  /\ Blank \in Char /\ Typed \subseteq Char /\ Prompt \in Seq(Char)
  /\ Output \subseteq Seq(Printable) /\ Junk \subseteq Seq(Printable)

VARIABLES
  line,   \* the bytes of gsw.str before its head
  str,    \* gsw.str as a string
  ran,    \* history: the last string that was taken as a command
  long,   \* history: since the prompt was printed, it and the line were once too long to
          \* leave a row of the buffer free
  marred, \* history: since the prompt was printed, memory that nobody typed was printed
  pc      \* where kapp_shell is

shellVars == <<vars, line, str, ran, long, marred, pc>>

\* kapp_shell, up to the first prompt
ShellInit ==
  /\ Given(ShellRect) /\ ~full
  /\ line = <<>> /\ str \in Junk /\ ran = <<>> /\ pc = "start"
  /\ long = FALSE /\ marred = FALSE

\* A step ends by copying the buffer to the screen.
Shows(s) ==
  /\ s.top <= ShellScrollBound
  /\ sb' = Trimmed(s) /\ screen' = Shown(s) /\ hw' = CursorShown(s)
  /\ astray' = (astray \/ ~Inside(s))
  /\ UNCHANGED <<rect, full>>

\* The cleanup at the end of kapp_shell
Leave ==
  /\ pc' = "left"
  /\ Shows(Cleared)
  /\ UNCHANGED <<line, str, ran, long, marred>>

\* The line and the prompt leave a row of the buffer free.
Roomy(text) == Len(Prompt \o text) <= (rect.height - 1) * rect.width

Start ==
  /\ pc = "start"
  /\ \/ /\ pc' = "run" /\ Shows(Written(sb, Prompt))
        /\ long' = ~Roomy(<<>>) /\ UNCHANGED <<line, str, ran, marred>>
     \/ Leave  \* no memory for the line

RetreatedBy(s, n) ==
  LET back[k \in 0 .. n] == IF k = 0 THEN s ELSE Retreated(back[k - 1])
  IN back[n]
\* Mutant: the cursor is moved back over the new character as well.
RewrittenOver(s, n, text) == Written(RetreatedBy(s, n + 1), text)
\* The line is printed again from its start.
Rewritten(s, n, text) == Written(RetreatedBy(s, n), text)

Edited(text) ==
  /\ line' = text /\ str' = text
  /\ long' = (long \/ ~Roomy(text))
  /\ UNCHANGED <<ran, marred, pc>>

TypeKey(c) ==
  /\ pc = "run" /\ Len(line) < LineBound
  /\ \/ Edited(Append(line, c)) /\ Shows(Rewritten(sb, Len(line), Append(line, c)))
     \/ Leave  \* no memory for a longer line

\* The character before the cursor is replaced by a blank.
Erased(s) == Retreated(WriteChar(Retreated(s), Blank))

Backspace ==
  /\ pc = "run"
  /\ IF line = <<>>
       THEN /\ Shows(Written(sb, str)) /\ marred' = (marred \/ str # <<>>)
            /\ UNCHANGED <<line, str, ran, long, pc>>
       ELSE /\ Edited(Front(line))
            /\ Shows(Rewritten(Erased(sb), Len(line) - 1, Front(line)))

\* What a command shows: an error when it cannot be parsed, or nothing, or what it
\* prints on a line of its own
Answer(command) ==
  CASE command = QuitLine -> Output
    [] command = <<>> -> Output \cup {<<>>}
    [] OTHER -> Output \cup {<<>>} \cup {<<Newline>> \o out : out \in Output}

Enter ==
  /\ pc = "run"
  /\ \/ str = QuitLine /\ Leave
     \/ /\ \E out \in Answer(str) : Shows(Written(sb, out \o <<Newline>> \o Prompt))
        /\ ran' = str /\ line' = <<>> /\ str' = <<>>
        /\ long' = ~Roomy(<<>>) /\ marred' = FALSE /\ UNCHANGED pc

ShellNext == Start \/ (\E c \in Typed : TypeKey(c)) \/ Backspace \/ Enter

ShellSpec == ShellInit /\ [][ShellNext]_shellVars

-----------------------------------------------------------------------------
(* Properties *)

Size == rect.width * rect.height
Cursor == sb.y * rect.width + sb.x
OnScreenAt(i) == screen[<<rect.x + (i % rect.width), rect.y + (i \div rect.width)>>]
EndsWith(text) ==
  /\ Cursor - Len(text) >= 0
  /\ \A i \in 1 .. Len(text) : OnScreenAt(Cursor - Len(text) + i - 1) = text[i]

\* While the prompt and the line leave one row of the shell's part of the screen free, the
\* user sees them whole before the cursor, whatever was typed and erased, over wraps and
\* scrolls; until that row was needed, or what was in memory was printed after the prompt.
LineShown ==
  pc = "run" /\ ~long =>
    /\ Inside(sb) /\ hw = CursorShown(sb)
    /\ EndsWith(IF marred THEN line ELSE Prompt \o line)

\* Nothing is left on the screen after the cursor, however long the line was.
BlankAfterCursor ==
  pc = "run" /\ ~marred => \A i \in Cursor .. Size - 1 : OnScreenAt(i) = Blank
=============================================================================
