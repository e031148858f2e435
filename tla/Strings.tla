------------------------------ MODULE Strings ------------------------------
(***************************************************************************)
(* xstd/xstd_string.h on one string that is kept in a buffer: how it is overwritten, *)
(* compared, searched, cut and joined.  A string is the sequence of its characters;  *)
(* indices count from 0, as in the code.  What a buffer takes is the length of the    *)
(* string that is in it, not its size.                                      *)
(***************************************************************************)
EXTENDS Integers, Sequences

CONSTANTS
  Nul,      \* the terminator
  Char,     \* the characters of strings
  Blank,    \* those for which char_is_whitespace holds
  Text,     \* the strings that callers have
  BufSize   \* the size of the buffer

StringsAssumption ==
  /\ Nul \notin Char /\ Blank \subseteq Char
  /\ Text \subseteq Seq(Char) /\ BufSize \in Nat \ {0}

VARIABLE dest  \* the buffer, cell by cell

Cells == 0 .. BufSize - 1
Ends == {i \in Cells : dest[i] = Nul}

\* string_size; a buffer without a terminator has none.
Size == IF Ends = {} THEN BufSize ELSE CHOOSE i \in Ends : \A j \in Ends : i <= j
Held == [k \in 1 .. Size |-> dest[k - 1]]

\* The rest of s that starts at index i, and the part from start to before end
From(s, i) == SubSeq(s, i + 1, Len(s))
Cut(s, start, end) == SubSeq(s, start + 1, end)

\* The number of leading characters in which s and w agree.
Agree(s, w) ==
  LET same[k \in 0 .. Len(w)] ==
        IF k < Len(w) /\ k < Len(s) /\ s[k + 1] = w[k + 1] THEN same[k + 1] ELSE k
  IN same[0]

\* string_equals
Equals(s, w) == Agree(s, w) = Len(s) /\ Agree(w, s) = Len(w)

\* string_starts_with, string_ends_with
StartsWith(s, w) == w = <<>> \/ Agree(s, w) = Len(w)
EndsWith(s, w) == w = <<>> \/ (Len(w) <= Len(s) /\ Equals(From(s, Len(s) - Len(w)), w))

\* string_find_char
FindChar(s, c) ==
  LET at[i \in 0 .. Len(s)] == IF i = Len(s) THEN -1 ELSE IF s[i + 1] = c THEN i ELSE at[i + 1]
  IN at[0]

\* Mutant: after characters that agreed the search goes on behind them.
FindBehind(s, w) ==
  LET at[i \in 0 .. Len(s)] ==
        LET n == Agree(From(s, i), w)
        IN IF i = Len(s) THEN -1 ELSE IF n = Len(w) THEN i ELSE at[i + (IF n = 0 THEN 1 ELSE n)]
  IN at[0]
\* string_find
Find(s, w) ==
  LET at[i \in 0 .. Len(s)] ==
        IF i = Len(s) THEN -1 ELSE IF Agree(From(s, i), w) = Len(w) THEN i ELSE at[i + 1]
  IN at[0]

\* The indices at which the loops of string_trim_whitespace stop
TrimStart(s) ==
  LET at[i \in 0 .. Len(s)] == IF i < Len(s) /\ s[i + 1] \in Blank THEN at[i + 1] ELSE i
  IN at[0]
TrimEnd(s, start) ==
  LET at[i \in 0 .. Len(s)] == IF i > start /\ s[i] \in Blank THEN at[i - 1] ELSE i
  IN at[Len(s)]

\* string_trim_whitespace
Trim(s, atStart, atEnd) ==
  LET start == IF atStart THEN TrimStart(s) ELSE 0
      end == IF atEnd THEN TrimEnd(s, start) ELSE Len(s)
  IN IF start >= end THEN <<>> ELSE Cut(s, start, end)

\* string_alloc of a string that fills the buffer
Init == \E c \in Char : dest = [i \in Cells |-> IF i = BufSize - 1 THEN Nul ELSE c]

\* string_copy_n_unsafe
Stored(s, n, terminate) ==
  [i \in Cells |-> IF i < n THEN s[i + 1] ELSE IF terminate /\ i = n THEN Nul ELSE dest[i]]

\* string_copy, and string_copy_n; what does not fit is refused.
Copy(s) == Size >= Len(s) /\ dest' = Stored(s, Len(s), TRUE)
CopyN(s, n, terminate) == Len(s) >= n /\ Size >= n /\ dest' = Stored(s, n, terminate)

Next == \E s \in Text : Copy(s) \/ \E n \in 0 .. BufSize, t \in BOOLEAN : CopyN(s, n, t)

-----------------------------------------------------------------------------
(* Properties *)

\* However often the buffer is overwritten, the string in it ends inside it: what is
\* accepted is measured by the string that is there, whose end only ever comes nearer.
EndsInBuffer == Ends # {}

\* A prefix, a suffix and the first occurrence agree: find gives the first index at which
\* the rest starts with what is looked for, and what ends with it starts with it there.
SearchesAgree ==
  \A w \in Text :
    LET at == {i \in 0 .. Size - 1 : StartsWith(From(Held, i), w)}
        found == Find(Held, w)
    IN /\ found = -1 <=> at = {}
       /\ found # -1 => found \in at /\ \A i \in at : found <= i
       /\ EndsWith(Held, w) <=> \E i \in 0 .. Size : From(Held, i) = w
       /\ Len(w) = 1 => found = FindChar(Held, w[1])
       /\ StartsWith(Held, w) <=> Len(w) <= Size /\ Cut(Held, 0, Len(w)) = w
       /\ Equals(Held, w) <=> Held = w

IsBlank(s) == \A k \in DOMAIN s : s[k] \in Blank

\* A trimmed string is the string without its blank ends, all of them and nothing else, and
\* where only one end is trimmed the other one stays.
TrimsTheEnds ==
  \A b, e \in BOOLEAN :
    LET t == Trim(Held, b, e)
    IN \E i \in 0 .. Size :
         /\ i + Len(t) <= Size /\ t = Cut(Held, i, i + Len(t))
         /\ IF b THEN IsBlank(Cut(Held, 0, i)) /\ (t = <<>> \/ t[1] \notin Blank) ELSE i = 0
         /\ IF e THEN IsBlank(From(Held, i + Len(t))) /\ (t = <<>> \/ t[Len(t)] \notin Blank)
                 ELSE i + Len(t) = Size \/ IsBlank(Held)
=============================================================================
