------------------------------ MODULE Dictionary ------------------------------
(***************************************************************************)
(* What the users of xstd/xstd_hashmap.h rely on: a map from keys to        *)
(* values, in which a call that finds no memory changes nothing.            *)
(***************************************************************************)
EXTENDS Naturals, Sequences, FiniteSets

CONSTANTS
  Key, Value,
  Nothing      \* no value

VARIABLES
  open,  \* whether it has been initialised, and not deinitialised since
  dict,  \* the values of the keys it has
  ret    \* what the last call returned: its error code, its value (for hashmap_size
         \* the size), and the entries that its callback was given

vars == <<open, dict, ret>>

Empty == [k \in {} |-> Nothing]

Init == /\ open = FALSE /\ dict = Empty
        /\ ret = [error |-> "ok", value |-> Nothing, visited |-> <<>>]

Return(error, value) == ret' = [error |-> error, value |-> value, visited |-> <<>>]

\* Every call on a map that is not open is refused.
Refused == ~open /\ Return("invalid_parameter", Nothing) /\ UNCHANGED <<open, dict>>

NoMemory == Return("out_of_memory", Nothing) /\ UNCHANGED <<open, dict>>

Create ==
  /\ ~open
  /\ \/ NoMemory
     \/ open' = TRUE /\ dict' = Empty /\ Return("ok", Nothing)

Deinit == open' = FALSE /\ dict' = Empty /\ Return("ok", Nothing)

Set(k, v) ==
  \/ Refused
  \/ open /\ NoMemory
  \/ /\ open
     /\ dict' = [x \in DOMAIN dict \cup {k} |-> IF x = k THEN v ELSE dict[x]]
     /\ Return("ok", Nothing)
     /\ UNCHANGED open

Get(k) ==
  \/ Refused
  \/ /\ open
     /\ IF k \in DOMAIN dict THEN Return("ok", dict[k]) ELSE Return("failed", Nothing)
     /\ UNCHANGED <<open, dict>>

Remove(k) ==
  \/ Refused
  \/ /\ open
     /\ dict' = [x \in DOMAIN dict \ {k} |-> dict[x]]
     /\ Return(IF k \in DOMAIN dict THEN "ok" ELSE "failed", Nothing)
     /\ UNCHANGED open

\* s lists every key with its value, once.
Enumerates(s) ==
  /\ Len(s) = Cardinality(DOMAIN dict)
  /\ \A k \in DOMAIN dict : \E i \in DOMAIN s : s[i] = [key |-> k, value |-> dict[k]]

ForEach ==
  /\ ret'.error = "ok" /\ ret'.value = Nothing /\ Enumerates(ret'.visited)
  /\ UNCHANGED <<open, dict>>

SizeOf == Return("ok", Cardinality(DOMAIN dict)) /\ UNCHANGED <<open, dict>>

Next == \/ Create
        \/ Deinit
        \/ \E k \in Key, v \in Value : Set(k, v)
        \/ \E k \in Key : Get(k) \/ Remove(k)
        \/ ForEach
        \/ SizeOf

Spec == Init /\ [][Next]_vars
=============================================================================
