------------------------------- MODULE MCShell -------------------------------
(***************************************************************************)
(* The kernel's screen, apps' parts of it, the line that the shell edits on its part,    *)
(* and how the shell runs a command.  They share no state: in a behaviour one of          *)
(* them is at work and the others stay as they started.  The instance that TLC          *)
(* checks has a screen of three rows of two cells, parts of a screen of four rows of     *)
(* three, and commands of up to five characters.                                 *)
(***************************************************************************)
EXTENDS Integers, Sequences, FiniteSets, TLC

CONSTANTS
  Byte, Blank, Newline, Return,
  VgaRows, VgaCols, Char, Zero, Texts, HeaderText, Corner, Drawn, VgaScrollBound,\* Vga
  Rows, Cols, AppChar, Rect, AppTexts, ScrollBound,                          \* KappScreen
  ShellRect, Typed, Prompt, QuitLine, Output, Junk, LineBound, ShellScrollBound,  \* ShellLine
  Command, Quote, Space, AppOf, QuitWord, ListSize, ShellBound               \* ShellCommand

VARIABLES
  task,                                                       \* the part of this behaviour
  mem, cursor, updateCursor, position, shown, firstRow, zeroPrinted,   \* Vga
  sb, rect, full, screen, hw, astray,                         \* KappScreen, ShellLine
  line, str, ran, long, marred, at,                           \* ShellLine
  step, command, read, inString, strings, args, word, printed, live, refused, wild, left  \* ShellCommand

vgaVars == <<mem, cursor, updateCursor, position, shown, firstRow, zeroPrinted>>
screenVars == <<sb, rect, full, screen, hw, astray>>
lineVars == <<line, str, ran, long, marred, at>>
commandVars == <<step, command, read, inString, strings, args, word, printed, live, refused, wild, left>>
mcVars == <<task, vgaVars, screenVars, lineVars, commandVars>>

Vga == INSTANCE Vga WITH
  Rows <- VgaRows, Cols <- VgaCols, Text <- Texts, ScrollBound <- VgaScrollBound,
  hw <- position, paper <- shown, top <- firstRow
Shell == INSTANCE ShellLine WITH Char <- AppChar, Text <- AppTexts, pc <- at
Run == INSTANCE ShellCommand WITH pc <- step, i <- read, out <- printed

ASSUME ShellAssumption ==
  /\ Vga!VgaAssumption /\ Shell!KappScreenAssumption /\ Shell!ShellAssumption
  /\ Run!ShellCommandAssumption

\* An app that only prints has no line.
NoLine ==
  line = <<>> /\ str = <<>> /\ ran = <<>> /\ long = FALSE /\ marred = FALSE /\ at = "start"

MCInit ==
  /\ task \in {"vga", "screen", "line", "command"}
  /\ Vga!Init /\ Run!Init /\ (task # "command" => command = <<>>)
  /\ IF task = "screen" THEN Shell!Init /\ NoLine
                        ELSE Shell!ShellInit /\ (task # "line" => str = <<>>)

MCNext ==
  /\ \/ task = "vga" /\ Vga!Next /\ UNCHANGED <<screenVars, lineVars, commandVars>>
     \/ task = "screen" /\ Shell!Next /\ UNCHANGED <<vgaVars, lineVars, commandVars>>
     \/ task = "line" /\ Shell!ShellNext /\ UNCHANGED <<vgaVars, commandVars>>
     \/ task = "command" /\ Run!Next /\ UNCHANGED <<vgaVars, screenVars, lineVars>>
  /\ UNCHANGED task

MCSpec == MCInit /\ [][MCNext]_mcVars

-----------------------------------------------------------------------------
(* Properties *)

\* The kernel's screen and an app's part of it show the last rows of all that was
\* printed over any number of wraps and scrolls, with the cursor inside, the hardware's
\* cursor where the next character goes until a 0 is printed as a number, and the
\* kernel's header never covered by an app (vga_interface.h, kapp_screen.h).
RowsShown ==
  /\ task = "vga" => Vga!TypeOK /\ Vga!ShowsLastRows /\ Vga!HardwareFollows
  /\ task = "screen" => /\ Shell!TypeOK /\ Shell!ShowsLastRows
                        /\ Shell!HeaderKept /\ Shell!PrintKeepsInside

\* The prompt and the line that is edited stand whole before the cursor, whatever was
\* typed, erased and run, until they are too long to leave a row of the shell's part of
\* the screen free; and nothing is left after the cursor (the loop of kapp_shell in
\* shell_main.h).
LineShown == task = "line" => Shell!LineShown /\ Shell!BlankAfterCursor

\* The arguments of a command are the words of its line in their order, each in a block of
\* its own until the command is done with, and all blocks are given back but for the
\* writer of each shell that the command runs (shell_main.h:117, 201-212), unless a
\* request was refused or a quote left open (args.h, shell_main.h).
ArgumentsOwned ==
  Run!TypeOK /\ Run!ArgumentsAreLine /\ Run!ArgumentsOwn /\ Run!AllReturned

-----------------------------------------------------------------------------
(* The instance *)

Part(x, y, width, height) == [x |-> x, y |-> y, width |-> width, height |-> height]
KernelTexts == {<<"a">>, <<"a", Newline>>, <<Return, "a", "a">>}
KernelHeader == <<"b">>
Corners == {<<0, 0>>, <<1, 1>>, <<2, 4>>}
AppParts == {Part(0, 0, 2, 2), Part(1, 1, 1, 2), Part(0, 1, 3, 1), Part(2, 0, 2, 1)}
PrintedByApps == {<<"a">>, <<"a", Newline>>, <<Return, "b">>}
ShellPart == {Part(1, 0, 2, 3)}
PromptText == <<">">>
Quit == <<"b", "b">>
Answers == {<<>>, <<"o", Newline, "o", Return>>}
Garbage == {<<>>, <<"z", Return>>}
Commands == UNION {[1 .. n -> {"u", "s", Space, Quote}] : n \in 0 .. 5}
Registry ==
  (<<"u">> :> "utc") @@ (<<"s">> :> "silent") @@ (<<"s", "s">> :> "args") @@ (<<"u", "u">> :> "prints")
  @@ (<<"s", "u">> :> "shell")
QuitName == <<"u", "s">>
=============================================================================
