------------------------------ MODULE Buffers ------------------------------
(***************************************************************************)
(* xstd/xstd_buffer.h: blocks of bytes that know their size.  A buffer is passed by  *)
(* value: what a copy does to its size stays in the copy.  A freed buffer has no      *)
(* bytes and the size 0.                                                   *)
(***************************************************************************)
EXTENDS Integers, Sequences

CONSTANTS
  Octet,    \* the bytes
  Source,   \* the contents of other buffers
  MaxSize   \* bound: the sizes that are asked for

BuffersAssumption == Source \subseteq Seq(Octet) /\ MaxSize \in Nat

VARIABLES
  mine, copy,  \* two buffers, [bytes, size, null]
  mem          \* the bytes that each one got from the allocator, and did not free

bufferVars == <<mine, copy, mem>>

Gone == [bytes |-> <<>>, size |-> 0, null |-> TRUE]
Of(s) == [bytes |-> s, size |-> Len(s), null |-> FALSE]
Filled(n, f) == [k \in 1 .. n |-> f]

BuffersInit == mine = Gone /\ copy = Gone /\ mem = [mine |-> 0, copy |-> 0]

\* buffer_alloc, buffer_alloc_undefined: the caller has no other buffer in its place.
Alloc ==
  /\ mine.null
  /\ \E n \in 0 .. MaxSize, f \in Octet : mine' = Of(Filled(n, f)) /\ mem' = [mem EXCEPT !.mine = n]
  /\ UNCHANGED copy

\* buffer_free; a buffer without bytes is left alone.
Free ==
  /\ mine' = Gone /\ mem' = [mem EXCEPT !.mine = 0]
  /\ UNCHANGED copy

\* The first n bytes of b are those of s.
Over(b, s, n) == [b EXCEPT !.bytes = [k \in DOMAIN b.bytes |-> IF k <= n THEN s[k] ELSE b.bytes[k]]]

\* buffer_copy and buffer_copy_n from a source that has bytes
Copy(s) == ~mine.null /\ mine.size >= Len(s) /\ mine' = Over(mine, s, Len(s)) /\ UNCHANGED <<copy, mem>>
CopyN(s, n) ==
  /\ ~mine.null /\ Len(s) >= n /\ mine.size >= n
  /\ mine' = Over(mine, s, n) /\ UNCHANGED <<copy, mem>>

\* buffer_dupe of one that is not empty; an empty one gives one without bytes.
Dupe ==
  /\ copy.null
  /\ copy' = (IF mine.size = 0 THEN Gone ELSE Of(mine.bytes))
  /\ mem' = [mem EXCEPT !.copy = mine.size]
  /\ UNCHANGED mine

FreeCopy == copy' = Gone /\ mem' = [mem EXCEPT !.copy = 0] /\ UNCHANGED mine

\* buffer_equals: the loop leaves the last byte to the comparison after it.
Equals(a, b) ==
  LET at[i \in 1 .. a.size] == IF i < a.size /\ a.bytes[i] = b.bytes[i] THEN at[i + 1] ELSE i
  IN IF a.size # b.size THEN FALSE
     ELSE IF a.size = 0 THEN TRUE
     ELSE IF a.null \/ b.null THEN FALSE
     ELSE a.bytes[at[1]] = b.bytes[at[1]]

BuffersNext ==
  \/ Alloc \/ Free \/ Dupe \/ FreeCopy
  \/ \E s \in Source : Copy(s) \/ \E n \in 0 .. MaxSize : CopyN(s, n)

-----------------------------------------------------------------------------
(* Properties *)

\* A buffer says it has the bytes it has, whatever was copied, freed or duplicated, and two
\* buffers are equal exactly when they have the same bytes.
BuffersKnowTheirSize ==
  /\ mine.size = mem.mine /\ copy.size = mem.copy
  /\ Len(mine.bytes) = mine.size /\ Len(copy.bytes) = copy.size
  /\ Equals(mine, copy) <=> mine.bytes = copy.bytes
  /\ \A s \in Source : Equals(mine, Of(s)) <=> mine.bytes = s
=============================================================================
