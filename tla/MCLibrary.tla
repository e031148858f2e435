----------------------------- MODULE MCLibrary -----------------------------
(***************************************************************************)
(* The parts of xstd/ that hold, build and compute data.  They share no state: in a   *)
(* behaviour one of them is at work and the others stay as they started.  In what TLC   *)
(* checks a list grows past its first size and shrinks; texts of one to three bytes go   *)
(* into blocks of up to three bytes, which wrap at sixteen; strings of two letters are   *)
(* long enough for occurrences that overlap; words have the few bits with which the     *)
(* largest signed and unsigned numbers differ in their digits, as those of 64 bits do;  *)
(* in the 32-bit build they have 32, and every number fits into its buffer.        *)
(***************************************************************************)
EXTENDS List, Sequences, TLC

CONSTANTS
  a, b, Nul,
  Byte, WriterText, NewSize, SizeWord,  \* Writers
  Octet, Source, MaxSize,            \* Buffers
  StringChar, BlankChar, StringText, StringSize,  \* Strings
  PieceText, Short, ReturnChar, NewlineChar,    \* Pieces
  MathBits, MaxExponent,             \* Arithmetic
  NumeralBits, Room, Number, Numeral    \* Numerals

VARIABLES
  atWork,                                                          \* the part of this behaviour
  kind, bytes, writeHead, writeEnd, todo, outcome, written, cut,   \* Writers
  mine, copy, mem,                                                 \* Buffers
  dest,                                                            \* Strings
  call, offset, pieces, chunk, blocks, ended, built, skipped,      \* Pieces
  args, answer,                                                    \* Arithmetic
  asked, reply                                                     \* Numerals

listVars == vars
writerVars == <<kind, bytes, writeHead, writeEnd, todo, outcome, written, cut>>
bufferVars == <<mine, copy, mem>>
pieceVars == <<call, offset, pieces, chunk, blocks, ended, built, skipped>>
mathVars == <<args, answer>>
numeralVars == <<asked, reply>>
libraryVars == <<atWork, listVars, writerVars, bufferVars, dest, pieceVars, mathVars, numeralVars>>

Writer == INSTANCE Writers WITH
  Text <- WriterText, Word <- SizeWord, cells <- bytes, result <- outcome
Blocks == INSTANCE Buffers

Strings == INSTANCE Strings WITH
  Char <- StringChar, Blank <- BlankChar, Text <- StringText, BufSize <- StringSize
Pieces == INSTANCE Pieces WITH
  Char <- StringChar, Blank <- BlankChar, Text <- PieceText, Return <- ReturnChar, Newline <- NewlineChar,
  BufSize <- StringSize, outcome <- ended

Math == INSTANCE Arithmetic WITH Bits <- MathBits
Numerals == INSTANCE Numerals WITH Bits <- NumeralBits

ASSUME StorageAssumption == Writer!WritersAssumption /\ Blocks!BuffersAssumption
ASSUME StringAssumption == Strings!StringsAssumption /\ Pieces!PiecesAssumption
ASSUME NumberAssumption == Math!ArithmeticAssumption /\ Numerals!NumeralsAssumption

Parts == {"list", "writer", "blocks", "strings", "pieces", "math", "numerals"}

LibraryInit ==
  /\ atWork \in Parts
  /\ Init /\ (atWork # "list" => allocCnt = InitSize)
  /\ Writer!Init /\ (atWork # "writer" => kind = "fixed" /\ writeEnd = 1)
  /\ Blocks!BuffersInit /\ Math!MathInit /\ Numerals!NumeralsInit
  /\ Strings!Init /\ (atWork # "strings" => dest[0] = a)
  /\ IF atWork = "pieces" THEN Pieces!PiecesInit ELSE Pieces!AtRest

LibraryNext ==
  /\ \/ atWork = "list" /\ Next /\ UNCHANGED <<writerVars, bufferVars, dest, pieceVars, mathVars, numeralVars>>
     \/ atWork = "writer" /\ Writer!Next
          /\ UNCHANGED <<listVars, bufferVars, dest, pieceVars, mathVars, numeralVars>>
     \/ atWork = "blocks" /\ Blocks!BuffersNext
          /\ UNCHANGED <<listVars, writerVars, dest, pieceVars, mathVars, numeralVars>>
     \/ atWork = "strings" /\ Strings!Next
          /\ UNCHANGED <<listVars, writerVars, bufferVars, pieceVars, mathVars, numeralVars>>
     \/ atWork = "pieces" /\ Pieces!PiecesNext
          /\ UNCHANGED <<listVars, writerVars, bufferVars, dest, mathVars, numeralVars>>
     \/ atWork = "math" /\ Math!Compute
          /\ UNCHANGED <<listVars, writerVars, bufferVars, dest, pieceVars, numeralVars>>
     \/ atWork = "numerals" /\ (Numerals!Write \/ Numerals!Read)
          /\ UNCHANGED <<listVars, writerVars, bufferVars, dest, pieceVars, mathVars>>
  /\ UNCHANGED atWork

LibrarySpec == LibraryInit /\ [][LibraryNext]_libraryVars

\* Bound: what is written to a writer in one behaviour.
LengthBound == Len(written) <= 9

-----------------------------------------------------------------------------
(* Properties *)

\* What was written to a writer stays in its place over growth, errors, resizes and calls
\* that end halfway, a string is terminated right after it, and a call on a string
\* that reports no error has written all of its text (xstd_writer.h). A buffer has the
\* size it says it has (xstd_buffer.h).
StorageHolds ==
  /\ Writer!TypeOK /\ Writer!HoldsWritten /\ Writer!Terminated /\ Writer!StringOkWritesAll
  /\ Blocks!BuffersKnowTheirSize

\* Searches and comparisons of strings agree with each other, what is trimmed, split or
\* replaced is put together right from allocations that may be refused, numbers are read
\* back as they were written unless their string was refused, and checked arithmetic is exact
\* or reports that it is not, but for functions without a wider word than their type (u32 and
\* i32 in the 32-bit build, xstd_core.h), and the exceptions that ArithmeticExact
\* names (xstd_string.h, xstd_math.h).
CallsExact ==
  /\ atWork = "strings" => Strings!EndsInBuffer /\ Strings!SearchesAgree /\ Strings!TrimsTheEnds
  /\ atWork = "pieces" => Pieces!SplitsApart /\ Pieces!ReplacesAll
  /\ atWork = "math" => Math!ArithmeticExact
  /\ atWork = "numerals" => Numerals!ReadsBack /\ Numerals!ReadsNumerals

-----------------------------------------------------------------------------
(* The instance *)

\* All strings of at most n elements of S
UpTo(S, n) == UNION {[1 .. k -> S] : k \in 0 .. n}

\* What is written in one call, and copied into buffers.
Texts == {<<a>>, <<a, b>>, <<b, a, b>>}
Sources == UpTo({a, b}, 2)

\* Strings that are searched and trimmed, and those that are taken apart
StringTexts == UpTo(StringChar, 3)
PieceTexts == UpTo({a, b}, 5)
Shorts == UpTo({a, b}, 3)

\* Blanks, signs, digits and a letter in ASCII
Numbers == -63 .. 127
Written == UpTo({32, 43, 45, 48, 49, 54, 120}, 4)
=============================================================================
