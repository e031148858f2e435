------------------------------- MODULE Pieces -------------------------------
(***************************************************************************)
(* The calls of xstd/xstd_string.h that take a string apart: string_split_char,    *)
(* string_split_lines and string_replace, with its string builder.  Every piece is  *)
(* an allocation of its own, and any of them may be refused.  The list of the pieces  *)
(* has room for 16; it is granted what it asks for when it grows beyond that (what a   *)
(* list does that is refused is the matter of List).  A behaviour is one call.       *)
(***************************************************************************)
EXTENDS Strings

CONSTANTS
  Short,           \* the strings that are looked for and put in place of them
  Return, Newline  \* the characters that end a line

PiecesAssumption ==
  StringsAssumption /\ Short \subseteq Text /\ {Return, Newline} \subseteq Char /\ Return # Newline

VARIABLES
  call,     \* [op, s, what, with]: string_split_char has its delimiter in what
  offset,   \* how much of the string is done
  pieces,   \* the list of the call or of its builder
  chunk,    \* string_replace has a chunk, but not yet what replaces the next occurrence
  blocks,   \* the blocks of memory that the call has and nobody freed
  outcome,  \* "busy", "ok" or "out_of_memory"
  built,    \* what string_replace returned
  skipped   \* history: a copy of what replaces was refused

pieceVars == <<call, offset, pieces, chunk, blocks, outcome, built, skipped>>

Ops == {"split_char", "split_lines", "replace"}
Rest == From(call.s, offset)

PiecesInit ==
  /\ \E op \in Ops, s \in Text, what, with \in Short :
       /\ op = "split_char" => Len(what) = 1 /\ with = <<>>
       /\ op = "split_lines" => what = <<>> /\ with = <<>>
       /\ call = [op |-> op, s |-> s, what |-> what, with |-> with]
  /\ offset = 0 /\ pieces = <<>> /\ chunk = FALSE /\ blocks = 1
  /\ outcome = "busy" /\ built = <<>> /\ skipped = FALSE

\* No call
AtRest ==
  /\ call = [op |-> "none"] /\ offset = 0 /\ pieces = <<>> /\ chunk = FALSE /\ blocks = 0
  /\ outcome = "none" /\ built = <<>> /\ skipped = FALSE

\* The first place in s where a line ends
LineEnd(s) ==
  LET at[i \in 0 .. Len(s)] ==
        IF i = Len(s) THEN -1
        ELSE IF s[i + 1] = Newline \/ (s[i + 1] = Return /\ i + 1 < Len(s) /\ s[i + 2] = Newline)
             THEN i ELSE at[i + 1]
  IN at[0]

\* Where the next piece ends, or -1, and how long what ends it is
NextAt ==
  IF call.op = "split_char" THEN FindChar(Rest, call.what[1])
  ELSE IF call.op = "split_lines" THEN LineEnd(Rest)
  ELSE IF call.what = <<>> THEN -1 ELSE Find(Rest, call.what)
Ending ==
  IF call.op = "split_lines" THEN IF Rest[NextAt + 1] = Return THEN 2 ELSE 1
  ELSE Len(call.what)

\* string_substr_unsafe or string_dupe_noresult gives a piece, and it is pushed.
Push(p) == pieces' = Append(pieces, p) /\ blocks' = blocks + 1

NoMemory ==
  /\ outcome' = "out_of_memory"
  /\ UNCHANGED <<call, offset, pieces, chunk, blocks, built, skipped>>

TakePiece ==
  /\ outcome = "busy" /\ ~chunk /\ NextAt # -1
  /\ \/ NoMemory
     \/ /\ Push(Cut(Rest, 0, NextAt))
        /\ \/ call.op = "replace" /\ chunk' = TRUE /\ UNCHANGED offset
           \/ call.op # "replace" /\ offset' = offset + NextAt + Ending /\ UNCHANGED chunk
        /\ UNCHANGED <<call, outcome, built, skipped>>

\* A copy of with; without one strbuilder_push_owned returns and nobody hears of it.
TakeWith ==
  /\ outcome = "busy" /\ chunk
  /\ \/ Push(call.with) /\ UNCHANGED skipped
     \/ skipped' = TRUE /\ UNCHANGED <<pieces, blocks>>
  /\ chunk' = FALSE /\ offset' = offset + NextAt + Ending
  /\ UNCHANGED <<call, outcome, built>>

Joined(ps) ==
  LET upTo[k \in 0 .. Len(ps)] == IF k = 0 THEN <<>> ELSE upTo[k - 1] \o ps[k]
  IN upTo[Len(ps)]

\* The last piece. string_replace then has its builder join all of them and frees them.
TakeTail ==
  /\ outcome = "busy" /\ ~chunk /\ NextAt = -1
  /\ \/ NoMemory
     \/ call.op # "replace" /\ Push(Rest) /\ outcome' = "ok"
        /\ UNCHANGED <<call, offset, chunk, built, skipped>>
     \/ call.op = "replace" /\ Push(Rest) /\ outcome' = "out_of_memory"
        /\ UNCHANGED <<call, offset, chunk, built, skipped>>
     \/ call.op = "replace" /\ built' = Joined(Append(pieces, Rest)) /\ outcome' = "ok"
        /\ blocks' = 1 /\ pieces' = <<>> /\ UNCHANGED <<call, offset, chunk, skipped>>

PiecesNext == TakePiece \/ TakeWith \/ TakeTail

-----------------------------------------------------------------------------
(* Properties *)

\* The pieces of a split in which none is left to split give the string when what was
\* between them is put back, and they and their list are all that the call leaves.
SplitsApart ==
  outcome = "ok" /\ call.op # "replace" =>
    /\ blocks = Len(pieces) + 1
    /\ call.op = "split_char" =>
         /\ \A k \in DOMAIN pieces : \A j \in DOMAIN pieces[k] : pieces[k][j] # call.what[1]
         /\ Joined([k \in DOMAIN pieces |-> IF k = 1 THEN pieces[k] ELSE call.what \o pieces[k]]) = call.s
    /\ call.op = "split_lines" =>
         /\ \A k \in DOMAIN pieces : \A j \in DOMAIN pieces[k] : pieces[k][j] # Newline
         /\ \E ends \in [DOMAIN pieces -> {<<Newline>>, <<Return, Newline>>}] :
              /\ Joined([k \in DOMAIN pieces |-> IF k = 1 THEN pieces[k] ELSE ends[k] \o pieces[k]]) = call.s
              /\ \A k \in DOMAIN pieces : k > 1 /\ ends[k] = <<Newline>> /\ pieces[k - 1] # <<>>
                                            => pieces[k - 1][Len(pieces[k - 1])] # Return

\* The places of what in s that do not overlap, the first ones first
Occurs(s, w) == {i \in 0 .. Len(s) - Len(w) : w # <<>> /\ Cut(s, i, i + Len(w)) = w}
Leftmost(s, w) ==
  CHOOSE P \in SUBSET Occurs(s, w) :
    /\ \A i, j \in P : i < j => i + Len(w) <= j
    /\ \A i \in Occurs(s, w) : \E j \in P : j <= i /\ i < j + Len(w)

\* A string in which all is replaced has, for each character of the old one that is not
\* part of an occurrence, that character, and for each occurrence what replaces it, as
\* long as no copy of that was refused; the string is all that the call leaves.
ReplacesAll ==
  outcome = "ok" /\ call.op = "replace" =>
    /\ blocks = 1
    /\ ~skipped =>
         LET P == Leftmost(call.s, call.what)
             inside == {i \in 0 .. Len(call.s) - 1 : \E p \in P : p < i /\ i < p + Len(call.what)}
         IN built = Joined([k \in 1 .. Len(call.s) |->
                              IF k - 1 \in P THEN call.with
                              ELSE IF k - 1 \in inside THEN <<>> ELSE <<call.s[k]>>])
=============================================================================
