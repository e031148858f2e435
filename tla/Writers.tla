------------------------------ MODULE Writers ------------------------------
(***************************************************************************)
(* xstd/xstd_writer.h: a writer into a fixed buffer, one into a buffer that    *)
(* grows and one into a string that grows, behind one interface.  A call of     *)
(* writer_write_str or writer_write_bytes is a loop of one action per byte.    *)
(***************************************************************************)
EXTENDS Integers, Sequences

CONSTANTS
  Byte,      \* the bytes that callers write; none is the null byte
  Text,      \* the texts they write in one call
  NewSize,   \* the sizes they ask for, at first and when they resize
  Junk,      \* memory that was never written
  Nul,       \* the null byte
  Word       \* sizes are 0 .. Word - 1

WritersAssumption ==
  /\ Word \in Nat \ {0}
  /\ Nul \notin Byte /\ Junk \notin Byte \cup {Nul}
  /\ NewSize \subseteq 1 .. Word - 1 /\ Text \subseteq Seq(Byte)

Kinds == {"fixed", "buffer", "string"}

VARIABLES
  kind,       \* which of the three it is
  cells,      \* the memory: buff.bytes or str
  writeHead, writeEnd,
  todo,       \* what the call that runs, or the last one, did not write
  result,     \* "busy" during a call, else what it returned
  written,    \* history: the bytes that were written and not cut off
  cut         \* history: a resize left no room for a terminator, and nothing was written since

vars == <<kind, cells, writeHead, writeEnd, todo, result, written, cut>>

size == Len(cells)   \* buff.size or strSize
Fresh(n) == [k \in 1 .. n |-> Junk]

\* buffwriter_init, growbuffwriter_init, growstrwriter_init
Init ==
  /\ kind \in Kinds
  /\ \E n \in NewSize :
       /\ cells = Fresh(n)
       /\ writeHead = 0 /\ writeEnd = n
       /\ todo = <<>> /\ result = "ok" /\ written = <<>> /\ cut = FALSE

\* When the write of a byte needs a larger block, or has no room.
Full == IF kind = "string" THEN writeEnd = 0 \/ writeHead >= writeEnd - 1 ELSE writeHead >= writeEnd

Reallocated(n) == [k \in 1 .. n |-> IF k <= size THEN cells[k] ELSE Junk]

\* Mutant: the string is not terminated.
PutOnly(c, b) == [c EXCEPT ![writeHead + 1] = b]
Put(c, b) ==
  IF kind = "string" THEN [c EXCEPT ![writeHead + 1] = b, ![writeHead + 2] = Nul]
                     ELSE [c EXCEPT ![writeHead + 1] = b]

\* One byte is written: buffwriter_write_byte, growbuffwriter_write_byte,
\* growstrwriter_write_byte with no error.
Write(b) ==
  /\ \/ ~Full /\ cells' = Put(cells, b) /\ UNCHANGED writeEnd
     \/ /\ Full /\ kind # "fixed" /\ (size * 2) % Word >= size
        /\ cells' = Put(Reallocated(size * 2), b)
        /\ writeEnd' = size * 2
  /\ writeHead' = writeHead + 1
  /\ written' = Append(written, b)
  /\ cut' = (cut /\ writeHead' >= writeEnd')

\* ERR_WOULD_OVERFLOW of a fixed buffer or of a size that wraps, or ERR_OUT_OF_MEMORY.
Fail ==
  /\ Full
  /\ result' = "error" /\ todo' = <<>>
  /\ UNCHANGED <<cells, writeHead, writeEnd, written, cut>>

\* writer_write_byte
WriteByte(b) ==
  /\ result # "busy"
  /\ \/ Write(b) /\ result' = "ok" /\ todo' = <<>>
     \/ Fail

\* writer_write_str and writer_write_bytes
Begin(text) ==
  /\ result # "busy"
  /\ result' = "busy" /\ todo' = text
  /\ UNCHANGED <<cells, writeHead, writeEnd, written, cut>>

\* An iteration of their loop.
Step ==
  /\ result = "busy" /\ todo # <<>> /\ writeHead < writeEnd
  /\ \/ Write(Head(todo)) /\ todo' = Tail(todo) /\ UNCHANGED result
     \/ Fail

\* The end of the text or of the buffer: ERR_OK.
Return ==
  /\ result = "busy" /\ (todo = <<>> \/ writeHead >= writeEnd)
  /\ result' = "ok"
  /\ UNCHANGED <<cells, writeHead, writeEnd, todo, written, cut>>

\* growbuffwriter_resize, growstrwriter_resize
Resize(n) ==
  /\ result # "busy" /\ kind # "fixed"
  /\ \/ /\ cells' = Reallocated(n) /\ writeEnd' = n
        /\ writeHead' = IF n < writeHead THEN n ELSE writeHead
        /\ written' = SubSeq(written, 1, writeHead')
        /\ cut' = (cut \/ n <= writeHead)
        /\ result' = "ok"
     \/ result' = "error" /\ UNCHANGED <<cells, writeHead, writeEnd, written, cut>>
  /\ todo' = <<>>

Next ==
  /\ \/ \E b \in Byte : WriteByte(b)
     \/ \E text \in Text : Begin(text)
     \/ Step
     \/ Return
     \/ \E n \in NewSize : Resize(n)
  /\ UNCHANGED kind

Spec == Init /\ [][Next]_vars

-----------------------------------------------------------------------------
(* Properties *)

\* The head stays in the block, and the end is the end of the block.
TypeOK ==
  /\ kind \in Kinds
  /\ cells \in Seq(Byte \cup {Nul, Junk}) /\ size \in 1 .. Word - 1
  /\ writeEnd = size /\ writeHead \in 0 .. writeEnd
  /\ result \in {"ok", "error", "busy"} /\ cut \in BOOLEAN

\* What was written stays in its place over growth, errors, resizes and calls that
\* end halfway.
HoldsWritten == SubSeq(cells, 1, writeHead) = written

\* A string that was written to is terminated right after its last byte, also when
\* a call fails for want of memory and while a text is written byte by byte. (A
\* string that was resized to its length is not until the next byte; when that
\* length is 1, doubling makes room for the byte only, and the terminator goes past
\* the block.)
Terminated ==
  kind = "string" /\ ~cut /\ writeHead > 0 => cells[writeHead + 1] = Nul

\* README.md:15: "Error handling is explicit and required by design." A call that reports
\* no error has written all of its text, if the writer is a string that no resize
\* filled to its end. (The others drop the rest of a text at their end.)
StringOkWritesAll == kind = "string" /\ ~cut /\ result = "ok" => todo = <<>>
=============================================================================
