------------------------------ MODULE Numerals ------------------------------
(***************************************************************************)
(* string_from_int, string_from_uint, string_parse_int and string_parse_uint of        *)
(* xstd/xstd_string.h, for words of Bits bits and numerals of ASCII codes.  A        *)
(* numeral is made from its last digit in a buffer that has Room cells before the     *)
(* terminator.  A behaviour is one call.                                  *)
(***************************************************************************)
EXTENDS Powers, Sequences

CONSTANTS
  Bits,
  Room,     \* at least as many digits as the largest signed number has: with 64 bits just so many
  Numeral,  \* the strings that are parsed
  Number    \* the numbers that are written

Min64 == -Power(2, Bits - 1)
Max64 == Power(2, Bits - 1) - 1
MaxU64 == Power(2, Bits) - 1
Digits == 48 .. 57
Minus == 45
Plus == 43
Blanks == {32, 9, 10, 13}

NumeralsAssumption ==
  /\ Bits \in Nat /\ Bits > 1 /\ Number \subseteq Min64 + 1 .. MaxU64 /\ Numeral \subseteq Seq(Nat)
  /\ Room \in Nat \ {0} /\ Max64 < Power(10, Room) /\ MaxU64 < Power(10, Room + 1)

VARIABLES asked, reply

numeralVars == <<asked, reply>>

\* The loops of string_from_int and string_from_uint: digits from the last one, then the
\* sign, each one cell further to the front.
DigitsOf(n) ==
  LET d[k \in 0 .. Room + 1] ==   \* what is written after k rounds, and what is left
        IF k = 0 THEN [text |-> <<>>, n |-> n]
        ELSE IF d[k - 1].n = 0 THEN d[k - 1]
        ELSE [text |-> <<48 + (d[k - 1].n % 10)>> \o d[k - 1].text, n |-> d[k - 1].n \div 10]
  IN d[Room + 1].text
FromUint(n) == IF n = 0 THEN <<48>> ELSE DigitsOf(n)
FromInt(n) == IF n < 0 THEN <<Minus>> \o DigitsOf(-n) ELSE FromUint(n)

\* The index of the first character of s from i on that is not in S
Past(s, i, S) ==
  LET at[k \in 1 .. Len(s) + 1] == IF k <= Len(s) /\ s[k] \in S THEN at[k + 1] ELSE k IN at[i]
At(s, i) == IF i <= Len(s) THEN s[i] ELSE 0

Unsigned(x) == x % (MaxU64 + 1)
Signed(x) == LET u == Unsigned(x) IN IF u > Max64 THEN u - (MaxU64 + 1) ELSE u

Value(v) == [err |-> "ok", value |-> v]
Bad(e) == [err |-> e, value |-> 0]

\* The loop over the digits from i to before j, which stops when a sum is smaller than the
\* one before it. A build may leave that out for signed numbers, which do not wrap in C.
Accumulated(s, i, j, signed, optimized) ==
  LET v[k \in i - 1 .. j - 1] ==
        IF k = i - 1 THEN Value(0)
        ELSE IF v[k - 1].err # "ok" THEN v[k - 1]
        ELSE LET sum == v[k - 1].value * 10 + s[k] - 48
                 new == IF signed THEN Signed(sum) ELSE Unsigned(sum)
             IN IF new < v[k - 1].value /\ ~(signed /\ optimized) THEN Bad("would_overflow")
                                                                   ELSE Value(new)
  IN v[j - 1]

\* Where the digits of s begin and where they end
First(s, signed) ==
  LET start == Past(s, 1, Blanks)
  IN IF signed /\ At(s, start) \in {Minus, Plus} THEN start + 1 ELSE start
End(s, signed) == Past(s, First(s, signed), Digits)
Negative(s, signed) == First(s, signed) > 1 /\ s[First(s, signed) - 1] = Minus

\* string_parse_int, and string_parse_uint which takes no sign
Parse(s, signed, optimized) ==
  LET first == First(s, signed)
      end == End(s, signed)
      v == Accumulated(s, first, end, signed, optimized)
  IN IF s = <<>> THEN Bad("invalid_parameter")
     ELSE IF At(s, first) \notin Digits THEN Bad("unexpected_byte")
     ELSE IF v.err # "ok" THEN v
     ELSE IF end <= Len(s) /\ s[end] \notin Blanks THEN Bad("unexpected_byte")
     ELSE Value(IF Negative(s, signed) THEN Signed(-v.value) ELSE v.value)

\* A text that begins before the buffer may be what was put there, or not.
Outside(text) == IF Len(text) > Room THEN {Bad("lost")} ELSE {}

NumeralsInit == asked = [op |-> "none"] /\ reply = Bad("none")

\* Nobody looks whether the string could be allocated: the text of a refused one is written
\* through NULL, which is returned without an error, and which parses as no string.
Write ==
  /\ asked.op = "none"
  /\ \E n \in Number, signed, optimized, heap \in BOOLEAN :
       /\ IF signed THEN n <= Max64 ELSE n >= 0
       /\ LET text == IF signed THEN FromInt(n) ELSE FromUint(n)
          IN /\ asked' = [op |-> "write", n |-> n, signed |-> signed]
             /\ \E r \in IF heap THEN {Parse(text, signed, optimized)} \cup Outside(text)
                               ELSE {Parse(<<>>, signed, optimized)} :
                  reply' = [text |-> text, heap |-> heap, read |-> r]

Read ==
  /\ asked.op = "none"
  /\ \E s \in Numeral, signed, optimized \in BOOLEAN :
       asked' = [op |-> "read", s |-> s, signed |-> signed] /\ reply' = Parse(s, signed, optimized)

-----------------------------------------------------------------------------
(* Properties *)

\* A number that was written is read back as it was, unless its string was refused, which
\* only shows when it is read. Its digits and its sign fit in front of
\* the terminator, but for the numbers with as many digits as the largest one and a sign,
\* and the unsigned ones with a digit more: those begin before the buffer.
ReadsBack ==
  asked.op = "write" =>
    /\ reply.heap /\ Len(reply.text) <= Room => reply.read = Value(asked.n)
    /\ ~reply.heap => reply.read.err # "ok"
    /\ Len(reply.text) > Room <=> asked.n <= -Power(10, Room - 1) \/ asked.n >= Power(10, Room)

ExactValue(s, signed) ==
  LET v[k \in First(s, signed) - 1 .. Len(s)] ==
        IF k = First(s, signed) - 1 THEN 0 ELSE v[k - 1] * 10 + s[k] - 48
      all == v[End(s, signed) - 1]
  IN IF Negative(s, signed) THEN -all ELSE all

\* A numeral, with blanks and a sign before it and a blank behind it, gives its value if
\* the type has that, and anything else is an error. Of a value that the type does not
\* have only some are refused.
ReadsNumerals ==
  asked.op = "read" =>
    LET s == asked.s  signed == asked.signed
        end == End(s, signed)
        isNumeral == s # <<>> /\ end > First(s, signed) /\ (end > Len(s) \/ s[end] \in Blanks)
        has == IF signed THEN ExactValue(s, signed) \in Min64 + 1 .. Max64
                         ELSE ExactValue(s, signed) <= MaxU64
    IN /\ isNumeral /\ has => reply = Value(ExactValue(s, signed))
       /\ ~isNumeral => reply.err # "ok"
=============================================================================
