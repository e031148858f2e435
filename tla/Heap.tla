--------------------------------- MODULE Heap ---------------------------------
(***************************************************************************)
(* What an implementation of the Allocator of xstd/xstd_alloc.h promises:   *)
(* it hands out regions of its memory that no other caller holds.          *)
(***************************************************************************)
EXTENDS Naturals

CONSTANTS
  Lowest, Beyond,  \* the memory is the addresses Lowest .. Beyond - 1
  Size,            \* the sizes callers ask for
  Null             \* no region

VARIABLES
  live,  \* the regions that callers hold
  ret    \* what the last call returned

vars == <<live, ret>>

Region == [ptr : Nat, size : Nat]

Disjoint(r, s) == r.ptr + r.size <= s.ptr \/ s.ptr + s.size <= r.ptr

Inside(r) == Lowest <= r.ptr /\ r.ptr + r.size <= Beyond

Init == live = {} /\ ret = Null

\* The region r of at least n bytes is new, and `rest' is what else is held.
Obtain(r, n, rest) ==
  /\ n > 0 /\ r.size >= n
  /\ Inside(r)
  /\ \A s \in live : Disjoint(r, s)
  /\ live' = rest \cup {r}
  /\ ret' = r.ptr

Fail == ret' = Null /\ UNCHANGED live

Alloc(n) == Fail \/ \E r \in live' : Obtain(r, n, live)

Free(r) == live' = live \ {r} /\ ret' = Null

\* The region stays where it is, or moves to where all that was in it fits; a
\* call that fails leaves it alone.
Realloc(r, n) ==
  \/ n = 0 /\ Free(r)
  \/ n > 0 /\ Fail
  \/ n \in 1 .. r.size /\ ret' = r.ptr /\ UNCHANGED live
  \/ \E new \in live' : new.size >= r.size /\ Obtain(new, n, live \ {r})

Next == \/ \E n \in Size : Alloc(n)
        \/ \E r \in live : Free(r)
        \/ \E r \in live, n \in Size : Realloc(r, n)

Spec == Init /\ [][Next]_vars
=============================================================================
