---------------------------- MODULE ShellCommand ----------------------------
(***************************************************************************)
(* How the shell runs a line: args_parse (types/args.h) splits it, the app is     *)
(* looked up (shared/kapp_exec.h) and called, what it printed is shown, and        *)
(* everything is freed (__shell_handle_command of shell_main.h).  One of the apps is   *)
(* a shell again.  The heap is the set of blocks that are in use; any request may be   *)
(* refused.                                                          *)
(***************************************************************************)
EXTENDS Integers, Sequences, FiniteSets, SequencesExt

CONSTANTS
  Command,   \* the lines that are entered
  Quote, Space,
  AppOf,     \* kappRegistry: the kind of the app of each name
  QuitWord,
  ListSize,  \* _X_LIST_INIT_SIZE
  ShellBound \* bound: how many blocks the shells that a line runs leave behind

ShellCommandAssumption ==
  /\ \A c \in Command : c \in Seq(Range(c))
  /\ Quote # Space /\ ListSize \in Nat \ {0} /\ QuitWord \notin DOMAIN AppOf
  /\ ShellBound \in Nat

VARIABLES
  pc, command,
  i,          \* how many characters have been read
  inString,
  strings,    \* the block of the list of arguments
  args,       \* the arguments: [block, at], at the places of its characters in the line
  word,       \* the argument that is being read
  out,        \* the block that the app's output is in, or a shell's part of the screen
  live,       \* the blocks in use
  refused,    \* history: an allocation was refused, or a quote was left open
  wild,       \* history: memory that was not allocated for the line was freed
  left        \* history: the blocks that a shell which was run did not give back

parsed == <<command, i, inString, strings, args, word>>
vars == <<pc, parsed, out, live, refused, wild, left>>

None == -1
Fresh == CHOOSE b \in 0 .. Cardinality(live) : b \notin live
NoWord == [block |-> None, at |-> <<>>]
TextOf(w) == [k \in DOMAIN w.at |-> command[w.at[k]]]

Init ==
  /\ pc = "list" /\ command \in Command /\ i = 0 /\ inString = FALSE
  /\ strings = None /\ args = <<>> /\ word = NoWord /\ out = None
  /\ live = {} /\ refused = FALSE /\ wild = FALSE /\ left = {}

\* An allocation: the block is b, or the request is refused and control goes elsewhere.
Refuse(to) == refused' = TRUE /\ pc' = to /\ UNCHANGED live
Take(to) == live' = live \cup {Fresh} /\ pc' = to /\ UNCHANGED refused

\* list_init and growstrwriter_init in args_parse; when one fails, what was allocated is
\* left behind.
MakeList ==
  /\ pc = "list"
  /\ \/ Take("writer") /\ strings' = Fresh
     \/ Refuse("garbage") /\ UNCHANGED strings
  /\ UNCHANGED <<command, i, inString, args, word, out, wild, left>>

\* Mutant: the writer is emptied instead of replaced.
MakeWriterOnce ==
  /\ pc = "writer" /\ pc' = "scan"
  /\ IF args = <<>> THEN live' = live \cup {Fresh} /\ word' = [block |-> Fresh, at |-> <<>>]
                    ELSE word' = [Last(args) EXCEPT !.at = <<>>] /\ UNCHANGED live
  /\ UNCHANGED <<command, i, inString, strings, args, out, refused, wild, left>>
MakeWriter ==
  /\ pc = "writer"
  /\ \/ Take("scan") /\ word' = [block |-> Fresh, at |-> <<>>]
     \/ Refuse("garbage") /\ UNCHANGED word
  /\ UNCHANGED <<command, i, inString, strings, args, out, wild, left>>

\* list_push, which may have to grow the list
Push(to) ==
  \/ args' = Append(args, word) /\ word' = NoWord /\ pc' = to /\ UNCHANGED refused
  \/ /\ Len(args) >= ListSize
     /\ pc' = "lost" /\ refused' = TRUE /\ UNCHANGED <<args, word>>

\* Where args_parse ends an argument.
Splits(c) == c = Space /\ word.at # <<>> /\ ~inString

ScanQuote ==
  /\ pc = "scan" /\ i < Len(command) /\ command[i + 1] = Quote
  /\ i' = i + 1 /\ inString' = ~inString
  /\ UNCHANGED <<pc, command, strings, args, word, out, live, refused, wild, left>>

ScanSplit ==
  /\ pc = "scan" /\ i < Len(command) /\ Splits(command[i + 1])
  /\ i' = i + 1 /\ Push("writer")
  /\ UNCHANGED <<command, inString, strings, out, live, wild, left>>

\* writer_write_byte, which may need a larger block, and whose error is not looked at
ScanByte ==
  /\ pc = "scan" /\ i < Len(command)
  /\ command[i + 1] # Quote /\ ~Splits(command[i + 1])
  /\ i' = i + 1
  /\ \/ word' = [word EXCEPT !.at = Append(word.at, i + 1)] /\ UNCHANGED refused
     \/ refused' = TRUE /\ UNCHANGED word
  /\ UNCHANGED <<pc, command, inString, strings, args, out, live, wild, left>>

\* After the last character
EndOfLine ==
  /\ pc = "scan" /\ i = Len(command)
  /\ IF word.at # <<>>
       THEN Push("parsed") /\ UNCHANGED live
       ELSE /\ live' = live \ {word.block}
            /\ word' = NoWord /\ pc' = "parsed" /\ UNCHANGED <<args, refused>>
  /\ UNCHANGED <<command, i, inString, strings, out, wild, left>>

\* An open quote is an error: the arguments are not returned.
Parsed ==
  /\ pc = "parsed"
  /\ IF inString THEN pc' = "garbage" /\ refused' = TRUE ELSE pc' = "run" /\ UNCHANGED refused
  /\ UNCHANGED <<parsed, out, live, wild, left>>

\* kappRegistry
Registered == DOMAIN AppOf

\* kapp_get_entrypoint
App == TextOf(args[1])
Known == args # <<>> /\ App # QuitWord /\ App \in Registered

\* An empty line, "quit", and a name that is not registered
RunNothing ==
  /\ pc = "run" /\ ~Known
  /\ pc' = "cleanup"
  /\ UNCHANGED <<parsed, out, live, refused, wild, left>>

\* An app without output of its own, or that fails before it asks for one
RunSilent ==
  /\ pc = "run" /\ Known
  /\ \/ AppOf[App] = "silent" /\ pc' = "cleanup" /\ UNCHANGED refused
     \/ AppOf[App] = "args" /\ Len(args) < 2 /\ pc' = "cleanup" /\ UNCHANGED refused
     \/ AppOf[App] # "silent" /\ pc' = "cleanup" /\ refused' = TRUE
  /\ UNCHANGED <<parsed, out, live, wild, left>>

\* kapp_request_stdout, and what is printed to it; kapp_utc goes on to the clock
RunPrints ==
  /\ pc = "run" /\ Known /\ AppOf[App] \notin {"silent", "shell"}
  /\ AppOf[App] = "args" => Len(args) >= 2
  /\ Take(IF AppOf[App] = "utc" THEN "utc" ELSE "print") /\ out' = Fresh
  /\ UNCHANGED <<parsed, wild, left>>

\* kapp_utc: an argument it does not know ends it; the date and the time are each
\* printed to a block that is freed at once, or there is no memory for it.
RunUtc ==
  /\ pc = "utc"
  /\ \/ pc' = "print" /\ UNCHANGED <<out, refused>>
     \/ pc' = "cleanup" /\ out' = None /\ refused' = TRUE
  /\ UNCHANGED <<parsed, live, wild, left>>

\* The output is shown and freed.
PrintOut ==
  /\ pc = "print" /\ pc' = "cleanup"
  /\ live' = live \ {out} /\ out' = None
  /\ UNCHANGED <<parsed, refused, wild, left>>

\* A block that is left behind
Leave == live' = live \cup {Fresh} /\ left' = left \cup {Fresh}

\* kapp_shell takes its part of the screen, then a writer for its line, which it keeps; when
\* there is no memory for the writer it ends.
RunShell ==
  /\ pc = "run" /\ Known /\ AppOf[App] = "shell"
  /\ Take("open") /\ out' = Fresh
  /\ UNCHANGED <<parsed, wild, left>>

OpenShell ==
  /\ pc = "open"
  /\ \/ pc' = "shell" /\ Leave /\ UNCHANGED <<out, refused>>
     \/ /\ pc' = "cleanup" /\ live' = live \ {out} /\ out' = None
        /\ refused' = TRUE /\ UNCHANGED left
  /\ UNCHANGED <<parsed, wild>>

\* A line of that shell, which gives back all it takes unless it runs a shell itself, or a
\* request is refused or a quote left open in it.
InnerLine ==
  /\ pc = "shell" /\ Cardinality(left) < ShellBound
  /\ \/ Leave /\ UNCHANGED <<refused, wild>>
     \/ refused' = TRUE /\ wild' \in BOOLEAN /\ (Leave \/ UNCHANGED <<live, left>>)
  /\ UNCHANGED <<pc, parsed, out>>

\* The end of kapp_shell frees its part of the screen, not its writer.
CloseShell ==
  /\ pc = "shell" /\ pc' = "cleanup"
  /\ live' = live \ {out} /\ out' = None
  /\ UNCHANGED <<parsed, refused, wild, left>>

\* The cleanup, with the arguments that were returned
Cleanup ==
  /\ pc = "cleanup" /\ pc' = "done"
  /\ live' = live \ ({args[k].block : k \in DOMAIN args} \cup {strings})
  /\ UNCHANGED <<parsed, out, refused, wild, left>>

\* The cleanup when args_parse failed: the arguments were never set, so their count and
\* addresses are whatever the stack holds.
CleanupGarbage ==
  /\ pc = "garbage" /\ pc' = "done"
  /\ wild' \in BOOLEAN
  /\ UNCHANGED <<parsed, out, live, refused, left>>

Next ==
  \/ MakeList \/ MakeWriter
  \/ ScanQuote \/ ScanSplit \/ ScanByte \/ EndOfLine \/ Parsed
  \/ RunNothing \/ RunSilent \/ RunPrints \/ RunUtc \/ PrintOut
  \/ RunShell \/ OpenShell \/ InnerLine \/ CloseShell
  \/ Cleanup \/ CleanupGarbage

Spec == Init /\ [][Next]_vars

-----------------------------------------------------------------------------
(* Properties *)

TypeOK ==
  /\ i \in 0 .. Len(command) /\ inString \in BOOLEAN
  /\ live \subseteq Nat /\ out \in live \cup {None} /\ left \subseteq live
  /\ \A k \in DOMAIN args : args[k].at # <<>>

\* The places between quotes, and the places that are in an argument
Quoted(p) == Cardinality({q \in 1 .. p : command[q] = Quote}) % 2 = 1
Taken(p) == \E k \in DOMAIN args : p \in Range(args[k].at)

\* The places of each word are ascending, and all before those of the next.
InOrder(words) ==
  /\ \A k \in DOMAIN words : \A a, b \in DOMAIN words[k].at : a < b => words[k].at[a] < words[k].at[b]
  /\ \A k, m \in DOMAIN words : k < m =>
       \A a \in DOMAIN words[k].at, b \in DOMAIN words[m].at : words[k].at[a] < words[m].at[b]

\* The arguments are the line: its characters in their order, each once, without the
\* quotes and without the spaces that end arguments, which are not quoted; a space that
\* is not quoted is only at the start of an argument.
ArgumentsAreLine ==
  pc = "run" /\ ~refused =>
    /\ InOrder(args)
    /\ \A p \in DOMAIN command : \/ Taken(p) \/ command[p] = Quote
                                 \/ command[p] = Space /\ ~Quoted(p)
    /\ \A k \in DOMAIN args : \A a \in DOMAIN args[k].at :
         LET p == args[k].at[a] IN command[p] = Space => Quoted(p) \/ a = 1

\* Each argument has a block of its own from the heap until the line is done with, over a
\* shell that it runs too, while no line of that has freed what was not its own.
ArgumentsOwn ==
  pc \notin {"done", "lost"} /\ ~wild =>
    /\ strings \in live \cup {None}
    /\ \A k \in DOMAIN args : args[k].block \in live \ ({strings, out, word.block} \cup left)
    /\ \A k, m \in DOMAIN args : args[k].block = args[m].block => k = m

\* A line that met no refused request and no open quote frees nothing that is not its own,
\* and gives back all it took but for what shells leave behind, if its app is one. (After
\* a refusal or an open quote the cleanup frees arguments that were never set.)
AllReturned ==
  pc = "done" /\ ~refused =>
    live = left /\ ~wild /\ (left # {} => Known /\ AppOf[App] = "shell")
=============================================================================
